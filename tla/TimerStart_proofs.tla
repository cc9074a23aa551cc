-------------------------- MODULE TimerStart_proofs --------------------------
(***************************************************************************)
(* The timer start schedule for every cycle, every set of calls and every   *)
(* bound.                                                                   *)
(***************************************************************************)
EXTENDS TimerStart, FiniteSetTheorems, TLAPS

\* An occurrence that will fire, and what a row may say of the next one.
Firing   == [at : Nat, left : Counts \ {0}]
Pendings == Firing \cup {Exhausted}

-----------------------------------------------------------------------------
(* The arithmetic of occurrences.                                          *)

\* Whole intervals between two times.
LEMMA Quotient ==
    ASSUME NEW n \in Nat
    PROVE  n \div Interval \in Nat
BY CycleAssumption

\* A multiple of the interval.
LEMMA Product ==
    ASSUME NEW n \in Nat
    PROVE  n * Interval \in Nat
BY CycleAssumption

\* An exhausted cycle is an occurrence, but none that will fire.
LEMMA ExhaustedTyped ==
    /\ Exhausted \in Occurrences /\ Exhausted \notin Firing
    /\ Pendings \subseteq Occurrences
    /\ \A o \in Pendings : /\ o.at # NoTime <=> o # Exhausted
                           /\ o.left = 0 <=> o = Exhausted
BY NullsAssumption DEF Exhausted, Occurrences, Firing, Pendings, Counts

\* Occurrences later there is another one, or the cycle is used up.
LEMMA AfterTyped ==
    ASSUME NEW o \in Firing, NEW n \in Nat
    PROVE  After(o, n) \in Pendings
<1>1. o.at \in Nat /\ o.left \in Counts /\ o.left # 0 /\ n * Interval \in Nat
  BY Product DEF Firing
<1>2. o.at + n * Interval \in Nat
  BY <1>1
<1>3. CASE o.left = Infinite
  <2>1. Infinite # 0
    BY NullsAssumption
  <2> QED BY <1>2, <1>3, <2>1 DEF After, Pendings, Firing, Counts
<1>4. CASE o.left # Infinite
  <2>1. o.left \in Nat
    BY <1>1, <1>4 DEF Counts
  <2>2. o.left > n => o.left - n \in Nat /\ o.left - n # 0
    BY <2>1
  <2> QED BY <1>2, <1>4, <2>1, <2>2 DEF After, Pendings, Firing, Counts
<1> QED BY <1>3, <1>4

\* Skipping what was missed leaves an occurrence, or the cycle used up.
LEMMA SkipMissedTyped ==
    ASSUME NEW o \in Firing, NEW time \in Nat
    PROVE  SkipMissed(o, time) \in Pendings
<1>1. o.at \in Nat
  BY DEF Firing
<1>2. CASE o.at > time
  BY <1>2 DEF SkipMissed, Pendings
<1>3. CASE ~(o.at > time)
  <2>1. time - o.at \in Nat
    BY <1>1, <1>3
  <2>2. (time - o.at) \div Interval + 1 \in Nat
    BY <2>1, Quotient
  <2> QED BY <1>3, <2>2, AfterTyped DEF SkipMissed
<1> QED BY <1>2, <1>3

\* So does looking for the next one after a fire.
LEMMA NextFutureFireTyped ==
    ASSUME NEW o \in Firing, NEW time \in Nat
    PROVE  NextFutureFire(o, time) \in Pendings
<1>1. After(o, 1) \in Pendings
  BY AfterTyped
<1> QED BY <1>1, SkipMissedTyped DEF NextFutureFire, Pendings

\* The first occurrence after a time.
LEMMA FirstFutureTyped ==
    ASSUME NEW time \in Nat
    PROVE  FirstFuture(time) \in Pendings
<1>1. FirstFireAt(time) \in Nat
  BY CycleAssumption DEF FirstFireAt
<1>2. Repetitions \in Counts \ {0}
  BY CycleAssumption, NullsAssumption DEF Counts
<1>3. [at |-> FirstFireAt(time), left |-> Repetitions] \in Firing
  BY <1>1, <1>2 DEF Firing
<1> QED BY <1>3, SkipMissedTyped DEF FirstFuture

-----------------------------------------------------------------------------
(* The type invariant.                                                     *)

RowsTyped == [present : BOOLEAN, enabled : BOOLEAN, pending : Pendings, ref : Refs \cup {NoRef}]
EntriesTyped == [ref : Refs, pending : Firing]
AdvancesTyped == [ref : Refs, pending : Pendings]

\* A call that is about to schedule has an occurrence to schedule.
HasTarget ==
    \A c \in Calls : (step[c] = "schedule" \/ (step[c] = "lock" /\ c \in Registers))
        => target[c] # Exhausted

\* A restore that will list the schedules has an attempt left.
HasAttempt ==
    \A c \in Restores : step[c] \in {"idle", "begin"} => tries[c] < RestoreAttempts

\* A deploy never lists schedules.
CreatesFirst == \A c \in Calls : c \in Registers => step[c] # "list"

CallsTyped ==
    /\ step \in [Calls -> Steps]
    /\ asked \in [Calls -> Nat]
    /\ seen \in [Calls -> Refs \cup {NoRef}]
    /\ target \in [Calls -> Pendings]
    /\ tries \in [Calls -> 0 .. RestoreAttempts]

CallsSound == CallsTyped /\ lock \in Calls \cup {Free} /\ HasTarget /\ HasAttempt /\ CreatesFirst

StoresTyped ==
    /\ row \in RowsTyped
    /\ entries \subseteq EntriesTyped
    /\ advances \in Seq(AdvancesTyped)
    /\ mailbox \in Seq(Nat)
    /\ fired \in Seq(Nat)
    /\ checked => mailbox # <<>>

CountsTyped ==
    /\ now \in 0 .. MaxTime
    /\ up \in BOOLEAN
    /\ checked \in BOOLEAN
    /\ faults \in 0 .. MaxFaults
    /\ started \in Nat

Inv == CallsSound /\ StoresTyped /\ CountsTyped

\* The invariant says more of occurrences than the type invariant.
LEMMA InvImpliesTypeOK == Inv => TypeOK
<1> SUFFICES ASSUME Inv PROVE TypeOK
  OBVIOUS
<1>1. RowsTyped \subseteq Rows /\ EntriesTyped \subseteq Entries /\ AdvancesTyped \subseteq Entries
  BY ExhaustedTyped DEF RowsTyped, EntriesTyped, AdvancesTyped, Rows, Entries, Pendings
<1>2. Seq(AdvancesTyped) \subseteq Seq(Entries)
  BY <1>1
<1>3. target \in [Calls -> Occurrences]
  BY ExhaustedTyped DEF Inv, CallsSound, CallsTyped
<1> QED BY <1>1, <1>2, <1>3 DEF Inv, CallsSound, StoresTyped, CountsTyped, CallsTyped, TypeOK

-----------------------------------------------------------------------------
\* It holds at the start.
LEMMA TypedInit == Init => Inv
<1> SUFFICES ASSUME Init PROVE Inv
  OBVIOUS
<1>1. 0 \in Nat /\ MaxTime \in Nat /\ MaxFaults \in Nat /\ RestoreAttempts \in Nat \ {0}
  BY BoundsAssumption
<1>2. InitialRow \in RowsTyped /\ InitialRow.ref \in {Deployment, NoRef}
  <2>1. CASE Deployed
    BY <2>1, FirstFutureTyped DEF InitialRow, RowsTyped, Refs
  <2>2. CASE ~Deployed
    BY <2>2 DEF InitialRow, RowsTyped, NoRow, Pendings
  <2> QED BY <2>1, <2>2
<1>3. row \in RowsTyped /\ (row.ref # NoRef => row.ref = Deployment /\ row.pending # Exhausted)
  BY <1>2 DEF Init, RowsTyped
<1>4. entries \subseteq EntriesTyped
  BY <1>3 DEF Init, EntriesTyped, Pendings, RowsTyped, Refs
<1>5. CallsTyped
  BY <1>1, ExhaustedTyped DEF Init, CallsTyped, Steps, Pendings
<1>6. HasTarget /\ HasAttempt /\ CreatesFirst
  BY <1>1 DEF Init, HasTarget, HasAttempt, CreatesFirst, Calls, Armings, Reloads
<1>7. lock \in Calls \cup {Free} /\ advances \in Seq(AdvancesTyped) /\ mailbox \in Seq(Nat) /\ fired \in Seq(Nat) /\ ~checked
  BY DEF Init
<1>8. now \in 0 .. MaxTime /\ faults \in 0 .. MaxFaults /\ started \in Nat
  <2>1. now = 0 /\ faults = 0 /\ started = 0
    BY DEF Init
  <2> QED BY <2>1, <1>1
<1>9. up \in BOOLEAN /\ checked \in BOOLEAN
  BY Zenon DEF Init
<1> QED BY <1>3, <1>4, <1>5, <1>6, <1>7, <1>8, <1>9 DEF Inv, CallsSound, StoresTyped, CountsTyped

\* A call that moves on.
LEMMA GotoSound ==
    ASSUME Inv, NEW c \in Calls, NEW s \in Steps \ {"list"}, Goto(c, s),
           asked' = asked, seen' = seen, target' = target, tries' = tries,
           lock' \in Calls \cup {Free},
           s = "schedule" \/ (s = "lock" /\ c \in Registers) => target[c] # Exhausted,
           s \in {"idle", "begin"} /\ c \in Restores => tries[c] < RestoreAttempts
    PROVE  CallsSound'
<1>1. CallsTyped'
  BY DEF Inv, CallsSound, CallsTyped, Goto
<1>2. \A d \in Calls : step'[d] = IF d = c THEN s ELSE step[d]
  BY DEF Inv, CallsSound, CallsTyped, Goto
<1>3. Restores \subseteq Calls
  BY DEF Calls, Armings, Reloads
<1>4. HasTarget' /\ HasAttempt' /\ CreatesFirst'
  BY <1>2, <1>3 DEF Inv, CallsSound, HasTarget, HasAttempt, CreatesFirst
<1> QED BY <1>1, <1>4 DEF CallsSound

\* The same, within a call.
LEMMA ContinueSound ==
    ASSUME Inv, NEW c \in Calls, NEW s \in Steps \ {"list"}, Continue(c, s),
           s = "schedule" \/ (s = "lock" /\ c \in Registers) => target[c] # Exhausted,
           s \in {"idle", "begin"} /\ c \in Restores => tries[c] < RestoreAttempts
    PROVE  CallsSound'
BY GotoSound DEF Continue, Inv, CallsSound

\* A call that returns.
LEMMA LeaveSound ==
    ASSUME Inv, NEW c \in Calls, Leave(c)
    PROVE  CallsSound'
<1>1. CallsTyped'
  BY DEF Inv, CallsSound, CallsTyped, Leave, Goto, Steps, Pendings
<1>2. \A d \in Calls : /\ step'[d] = IF d = c THEN "done" ELSE step[d]
                       /\ target'[d] = IF d = c THEN Exhausted ELSE target[d]
  BY DEF Inv, CallsSound, CallsTyped, Leave, Goto
<1>3. Restores \subseteq Calls /\ tries' = tries
  BY DEF Calls, Armings, Reloads, Leave
<1>4. HasTarget' /\ HasAttempt' /\ CreatesFirst'
  BY <1>2, <1>3 DEF Inv, CallsSound, HasTarget, HasAttempt, CreatesFirst
<1>5. lock' \in Calls \cup {Free}
  BY DEF Leave, Inv, CallsSound
<1> QED BY <1>1, <1>4, <1>5 DEF CallsSound

\* A call that takes the lock and has looked at the row.
LEMMA ProceedSound ==
    ASSUME Inv, NEW c \in Calls, NEW s \in Steps \ {"list", "lock", "idle", "begin"}, NEW o \in Pendings, Proceed(c, s, o),
           s # "schedule"
    PROVE  CallsSound'
<1>1. row.ref \in Refs \cup {NoRef}
  BY DEF Inv, StoresTyped, RowsTyped
<1>2. CallsTyped'
  BY <1>1 DEF Inv, CallsSound, CallsTyped, Proceed, Goto
<1>3. \A d \in Calls : /\ step'[d] = IF d = c THEN s ELSE step[d]
                       /\ target'[d] = IF d = c THEN o ELSE target[d]
  BY DEF Inv, CallsSound, CallsTyped, Proceed, Goto
<1>4. Restores \subseteq Calls /\ tries' = tries
  BY DEF Calls, Armings, Reloads, Proceed
<1>5. HasTarget' /\ HasAttempt' /\ CreatesFirst'
  BY <1>3, <1>4 DEF Inv, CallsSound, HasTarget, HasAttempt, CreatesFirst
<1>6. lock' \in Calls \cup {Free}
  BY DEF Proceed
<1> QED BY <1>2, <1>5, <1>6 DEF CallsSound

-----------------------------------------------------------------------------
(* Every step keeps it.                                                    *)

\* The occurrences a call may arm.
LEMMA OccurrencesTyped ==
    ASSUME Inv, NEW c \in Calls
    PROVE  /\ FirstFuture(asked[c]) \in Pendings
           /\ row.present => (row.pending.left # 0 => EnabledOccurrence(row, asked[c]) \in Pendings)
           /\ Reloadable(row) => SkipMissed(row.pending, asked[c]) \in Pendings
<1>1. asked[c] \in Nat /\ row.pending \in Pendings
  BY DEF Inv, CallsSound, CallsTyped, StoresTyped, RowsTyped
<1>2. FirstFuture(asked[c]) \in Pendings
  BY <1>1, FirstFutureTyped
<1>3. ASSUME row.pending.left # 0 PROVE EnabledOccurrence(row, asked[c]) \in Pendings
  <2>1. row.pending \in Firing
    BY <1>1, <1>3 DEF Pendings, Exhausted
  <2>2. FirstFireAt(asked[c]) \in Nat
    BY <1>1, CycleAssumption DEF FirstFireAt
  <2>3. \A t \in Nat : [at |-> t, left |-> row.pending.left] \in Firing
    BY <2>1 DEF Firing
  <2>4. row.pending.at \in Nat
    BY <2>1 DEF Firing
  <2> QED BY <1>1, <2>2, <2>3, <2>4, SkipMissedTyped DEF EnabledOccurrence
<1>4. ASSUME Reloadable(row) PROVE SkipMissed(row.pending, asked[c]) \in Pendings
  <2>1. row.pending \in Firing
    BY <1>1, <1>4, ExhaustedTyped DEF Reloadable, Pendings
  <2> QED BY <1>1, <2>1, SkipMissedTyped
<1> QED BY <1>2, <1>3, <1>4

\* The step of a call.
LEMMA StepOfCall ==
    ASSUME Inv, NEW c \in Calls
    PROVE  /\ step[c] \in Steps /\ asked[c] \in Nat /\ seen[c] \in Refs \cup {NoRef}
           /\ target[c] \in Pendings /\ tries[c] \in 0 .. RestoreAttempts
           /\ c \in Refs
BY DEF Inv, CallsSound, CallsTyped, Refs

\* Rows that a call or the worker writes.
LEMMA WrittenRows ==
    ASSUME Inv, NEW b \in BOOLEAN, NEW o \in Pendings, NEW r \in Refs \cup {NoRef}
    PROVE  /\ [row EXCEPT !.enabled = b] \in RowsTyped
           /\ [row EXCEPT !.enabled = b, !.ref = r] \in RowsTyped
           /\ [row EXCEPT !.pending = o] \in RowsTyped
           /\ [row EXCEPT !.ref = r] \in RowsTyped
           /\ [row EXCEPT !.pending = o, !.enabled = b, !.ref = r] \in RowsTyped
           /\ [present |-> TRUE, enabled |-> TRUE, pending |-> o, ref |-> NoRef] \in RowsTyped
           /\ NoRow \in RowsTyped
           /\ row.enabled \in BOOLEAN /\ row.present \in BOOLEAN /\ row.ref \in Refs \cup {NoRef}
<1>1. row \in RowsTyped
  BY DEF Inv, StoresTyped
<1> QED BY <1>1 DEF RowsTyped, NoRow, Pendings

\* What a call persists.
LEMMA PersistedRowTyped ==
    ASSUME Inv, NEW c \in Calls
    PROVE  PersistedRow(c) \in RowsTyped
<1>1. target[c] \in Pendings
  BY StepOfCall
<1>2. CASE c \in Disables
  <2>1. PersistedRow(c) = [row EXCEPT !.enabled = FALSE, !.ref = NoRef]
    BY <1>2 DEF PersistedRow
  <2> QED BY <1>1, <2>1, WrittenRows
<1>3. CASE c \notin Disables
  <2> DEFINE b == row.enabled \/ c \in Enables
             r == IF c \in Enables /\ target[c] = Exhausted THEN NoRef ELSE row.ref
  <2>1. b \in BOOLEAN /\ r \in Refs \cup {NoRef}
    BY <1>1, WrittenRows
  <2>2. PersistedRow(c) = [row EXCEPT !.pending = target[c], !.enabled = b, !.ref = r]
    BY <1>3 DEF PersistedRow
  <2> HIDE DEF b, r
  <2>3. [row EXCEPT !.pending = target[c], !.enabled = b, !.ref = r] \in RowsTyped
    BY <1>1, <2>1, WrittenRows
  <2> QED BY <2>2, <2>3
<1> QED BY <1>2, <1>3

\* A call does not disturb the world's counts and queues unless it writes a fault.
LEMMA CountsKept ==
    ASSUME Inv, UNCHANGED <<now, up, checked, faults, started>>
    PROVE  CountsTyped'
BY DEF Inv, CountsTyped

\* A call step changes at most the row and the entries.
LEMMA StoresKept ==
    ASSUME Inv, UNCHANGED <<advances, mailbox, fired, checked>>, row' \in RowsTyped, entries' \subseteq EntriesTyped
    PROVE  StoresTyped'
BY DEF Inv, StoresTyped

\* A step of a call keeps the types.
LEMMA TypedCallStep ==
    ASSUME Inv, NEW c \in Calls, CallStep(c)
    PROVE  Inv'
<1> USE StepOfCall
<1>r. row \in RowsTyped /\ entries \subseteq EntriesTyped /\ lock \in Calls \cup {Free}
  BY DEF Inv, StoresTyped, CallsSound
<1>1. CASE Begin(c)
  <2>1. FirstStep(c) \in {"create", "lock", "list"} /\ (c \in Registers => FirstStep(c) = "create")
    BY DEF FirstStep
  <2>2. now \in Nat
    BY BoundsAssumption DEF Inv, CountsTyped
  <2>3. c \in Restores => step[c] = "begin"
    BY <1>1 DEF Begin, Reloads
  <2>4. c \in Restores => tries[c] + 1 \in 0 .. RestoreAttempts
    BY <2>3, BoundsAssumption DEF Inv, CallsSound, HasAttempt
  <2>5. CallsTyped'
    BY <1>1, <2>1, <2>2, <2>4 DEF Begin, Goto, Inv, CallsSound, CallsTyped, Steps
  <2>6. \A d \in Calls : step'[d] = IF d = c THEN FirstStep(c) ELSE step[d]
    BY <1>1 DEF Begin, Goto, Inv, CallsSound, CallsTyped
  <2>7. target' = target /\ \A d \in Calls \ {c} : tries'[d] = tries[d]
    BY <1>1 DEF Begin, Inv, CallsSound, CallsTyped
  <2>8. Restores \subseteq Calls
    BY DEF Calls, Armings, Reloads
  <2>9. HasTarget' /\ HasAttempt' /\ CreatesFirst'
    BY <2>1, <2>6, <2>7, <2>8 DEF HasTarget, HasAttempt, CreatesFirst, Inv, CallsSound
  <2>10. CallsSound'
    BY <1>1, <1>r, <2>5, <2>9 DEF CallsSound, Begin
  <2> QED BY <1>1, <1>r, <2>10, CountsKept, StoresKept DEF Begin, Inv
<1>2. CASE Create(c)
  <2>1. FirstFuture(asked[c]) \in Pendings
    BY OccurrencesTyped
  <2>2. row' \in RowsTyped
    BY <1>2, <2>1, WrittenRows DEF Create, CreatedRow
  <2>3. CASE FirstFuture(asked[c]) = Exhausted
    BY <1>2, <1>r, <2>2, <2>3, LeaveSound, CountsKept, StoresKept DEF Create, Inv
  <2>4. CASE FirstFuture(asked[c]) # Exhausted
    <3>1. Goto(c, "lock") /\ target' = [target EXCEPT ![c] = FirstFuture(asked[c])] /\ UNCHANGED <<lock, asked, seen, tries>>
      BY <1>2, <2>4 DEF Create
    <3>2. CallsTyped'
      BY <3>1, <2>1 DEF Goto, Inv, CallsSound, CallsTyped, Steps
    <3>3. \A d \in Calls : /\ step'[d] = IF d = c THEN "lock" ELSE step[d]
                           /\ target'[d] = IF d = c THEN FirstFuture(asked[c]) ELSE target[d]
      BY <3>1 DEF Goto, Inv, CallsSound, CallsTyped
    <3>4. Restores \subseteq Calls
      BY DEF Calls, Armings, Reloads
    <3>5. HasTarget' /\ HasAttempt' /\ CreatesFirst'
      BY <3>1, <3>3, <3>4, <2>4 DEF HasTarget, HasAttempt, CreatesFirst, Inv, CallsSound
    <3>6. CallsSound'
      BY <1>r, <3>1, <3>2, <3>5 DEF CallsSound
    <3> QED BY <1>2, <1>r, <2>2, <3>6, CountsKept, StoresKept DEF Create, Inv
  <2> QED BY <2>3, <2>4
<1>3. CASE List(c)
  <2>1. CASE Leave(c)
    BY <1>3, <1>r, <2>1, LeaveSound, CountsKept, StoresKept DEF List, Inv
  <2>2. ASSUME NEW s \in {"lock", "relist"}, Continue(c, s), c \notin Registers PROVE Inv'
    <3>1. CallsSound'
      BY <2>2, ContinueSound DEF Steps
    <3> QED BY <1>3, <1>r, <3>1, CountsKept, StoresKept DEF List, Inv
  <2>3. c \notin Registers
    BY <1>3 DEF List, Inv, CallsSound, CreatesFirst
  <2> QED BY <1>3, <2>1, <2>2, <2>3 DEF List
<1>4. CASE Relist(c)
  <2>1. row.ref \in Refs \cup {NoRef} /\ "cancel" \in Steps
    BY WrittenRows DEF Steps
  <2>2. Goto(c, "cancel") /\ seen' = [seen EXCEPT ![c] = row.ref] /\ UNCHANGED <<asked, target, tries, lock>>
    BY <1>4 DEF Relist
  <2>3. CallsTyped'
    BY <2>1, <2>2 DEF Goto, Inv, CallsSound, CallsTyped
  <2>4. \A d \in Calls : step'[d] = IF d = c THEN "cancel" ELSE step[d]
    BY <2>2 DEF Goto, Inv, CallsSound, CallsTyped
  <2>5. Restores \subseteq Calls
    BY DEF Calls, Armings, Reloads
  <2>6. HasTarget' /\ HasAttempt' /\ CreatesFirst'
    BY <2>2, <2>4, <2>5 DEF HasTarget, HasAttempt, CreatesFirst, Inv, CallsSound
  <2>7. CallsSound'
    BY <1>r, <2>2, <2>3, <2>6 DEF CallsSound
  <2> QED BY <1>4, <1>r, <2>7, CountsKept, StoresKept DEF Relist, Inv
<1>5. CASE Lock(c)
  <2>1. CallsSound'
    <3>1. ASSUME NEW s \in {"mark", "persist", "cancel"}, NEW o \in Pendings, Proceed(c, s, o) PROVE CallsSound'
      BY <3>1, ProceedSound DEF Steps
    <3>2. Exhausted \in Pendings
      BY DEF Pendings
    <3>3. CASE /\ c \in Registers /\ step[c] = "lock"
               /\ lock' = c /\ Goto(c, "schedule") /\ UNCHANGED <<asked, seen, target, tries>>
      <4>1. target[c] # Exhausted
        BY <3>3 DEF Inv, CallsSound, HasTarget
      <4> QED BY <3>3, <4>1, GotoSound DEF Steps
    <3>4. CASE IF ~row.present THEN Leave(c)
               ELSE IF row.pending.left = 0 THEN Proceed(c, "mark", Exhausted)
               ELSE Proceed(c, "persist", EnabledOccurrence(row, asked[c]))
      BY <3>1, <3>2, <3>4, LeaveSound, OccurrencesTyped
    <3>5. CASE IF ~Reloadable(row) THEN Leave(c)
               ELSE LET next == SkipMissed(row.pending, asked[c])
                    IN  Proceed(c, IF next = Exhausted THEN "cancel" ELSE "persist", next)
      BY <3>1, <3>5, LeaveSound, OccurrencesTyped
    <3>6. CASE Leave(c) \/ Proceed(c, "cancel", Exhausted)
      BY <3>1, <3>2, <3>6, LeaveSound
    <3> QED BY <1>5, <3>3, <3>4, <3>5, <3>6 DEF Lock
  <2> QED BY <1>5, <1>r, <2>1, CountsKept, StoresKept DEF Lock, Inv
<1>6. CASE MarkEnabled(c)
  <2>1. row' \in RowsTyped
    BY <1>6, WrittenRows DEF MarkEnabled
  <2> QED BY <1>6, <1>r, <2>1, LeaveSound, CountsKept, StoresKept DEF MarkEnabled, Inv
<1>7. CASE Persist(c)
  <2>1. row' \in RowsTyped
    BY <1>7, <1>r, PersistedRowTyped DEF Persist
  <2>2. CallsSound'
    <3>1. ASSUME Continue(c, "cancel") PROVE CallsSound'
      BY <3>1, ContinueSound DEF Steps
    <3> QED BY <1>7, <3>1, LeaveSound DEF Persist
  <2> QED BY <1>7, <1>r, <2>1, <2>2, CountsKept, StoresKept DEF Persist, Inv
<1>8. CASE Cancel(c)
  <2>1. entries' \subseteq EntriesTyped
    BY <1>8, <1>r DEF Cancel, EntriesWithout
  <2>2. CallsSound'
    <3>1. ASSUME NEW s \in {"delete", "schedule", "persist"}, Continue(c, s), s = "schedule" => target[c] # Exhausted
          PROVE  CallsSound'
      BY <3>1, ContinueSound DEF Steps
    <3> QED BY <1>8, <3>1, LeaveSound DEF Cancel
  <2> QED BY <1>8, <1>r, <2>1, <2>2, CountsKept, StoresKept DEF Cancel, Inv
<1>9. CASE Schedule(c)
  <2>1. target[c] \in Firing
    BY <1>9 DEF Schedule, Inv, CallsSound, HasTarget, Pendings
  <2>2. entries' \subseteq EntriesTyped
    BY <1>9, <1>r, <2>1 DEF Schedule, EntriesTyped
  <2>3. CallsSound'
    <3>1. ASSUME NEW s \in {"store", "clear"}, Continue(c, s) PROVE CallsSound'
      BY <3>1, ContinueSound DEF Steps
    <3> QED BY <1>9, <3>1, LeaveSound DEF Schedule
  <2> QED BY <1>9, <1>r, <2>2, <2>3, CountsKept, StoresKept DEF Schedule, Inv
<1>10. CASE Clear(c)
  <2>1. row' \in RowsTyped
    BY <1>10, WrittenRows DEF Clear
  <2> QED BY <1>10, <1>r, <2>1, LeaveSound, CountsKept, StoresKept DEF Clear, Inv
<1>11. CASE Store(c)
  <2>1. row' \in RowsTyped
    BY <1>11, <1>r, WrittenRows DEF Store
  <2>2. CallsSound'
    <3>1. ASSUME Continue(c, "undo") PROVE CallsSound'
      BY <3>1, ContinueSound DEF Steps
    <3> QED BY <1>11, <3>1, LeaveSound DEF Store
  <2> QED BY <1>11, <1>r, <2>1, <2>2, CountsKept, StoresKept DEF Store, Inv
<1>12. CASE Undo(c)
  <2>1. entries' \subseteq EntriesTyped
    BY <1>12, <1>r DEF Undo, EntriesWithout
  <2> QED BY <1>12, <1>r, <2>1, LeaveSound, CountsKept, StoresKept DEF Undo, Inv
<1>13. CASE Delete(c)
  <2>1. row' \in RowsTyped
    BY <1>13, WrittenRows DEF Delete
  <2> QED BY <1>13, <1>r, <2>1, LeaveSound, CountsKept, StoresKept DEF Delete, Inv
<1> QED BY <1>1, <1>2, <1>3, <1>4, <1>5, <1>6, <1>7, <1>8, <1>9, <1>10, <1>11, <1>12, <1>13 DEF CallStep

\* What is left alone stays sound.
LEMMA CallsKept ==
    ASSUME Inv, UNCHANGED <<lock, callVars>>
    PROVE  CallsSound'
<1>1. UNCHANGED <<lock, step, asked, seen, target, tries>>
  BY DEF callVars
<1> QED BY <1>1 DEF Inv, CallsSound, CallsTyped, HasTarget, HasAttempt, CreatesFirst

\* A failing access of a call keeps the types.
LEMMA TypedFailure ==
    ASSUME Inv, NEW c \in Calls, AccessFails(c)
    PROVE  Inv'
<1>r. row \in RowsTyped /\ entries \subseteq EntriesTyped /\ lock \in Calls \cup {Free}
  BY DEF Inv, StoresTyped, CallsSound
<1>1. CountsTyped'
  BY BoundsAssumption DEF AccessFails, Inv, CountsTyped
<1>2. row' \in RowsTyped
  <2>1. CreatedRow(c) \in RowsTyped
    BY OccurrencesTyped, WrittenRows DEF CreatedRow
  <2> QED BY <1>r, <2>1 DEF AccessFails
<1>3. CallsSound'
  <2>1. ASSUME NEW s \in {"undo", "begin"}, Continue(c, s), s = "begin" => tries[c] < RestoreAttempts
        PROVE  CallsSound'
    BY <2>1, ContinueSound DEF Steps
  <2> QED BY <2>1, LeaveSound DEF AccessFails
<1> QED BY <1>r, <1>1, <1>2, <1>3, StoresKept DEF AccessFails, Inv

\* A restarted Scheduler and a reboot keep the types.
LEMMA TypedRestart ==
    ASSUME Inv, NEW c \in Calls, Restart(c) \/ Reboot(c)
    PROVE  Inv'
<1>r. row \in RowsTyped /\ entries \subseteq EntriesTyped /\ lock \in Calls \cup {Free}
  BY DEF Inv, StoresTyped, CallsSound
<1>t. Restores \subseteq Calls /\ Registers \subseteq Calls
  BY DEF Calls, Armings, Reloads
<1>1. CASE Restart(c)
  <2>1. CountsTyped'
    BY <1>1, Zenon DEF Restart, Inv, CountsTyped
  <2>2. c \in Restores => tries[c] < RestoreAttempts
    BY <1>1 DEF Restart, Inv, CallsSound, HasAttempt
  <2>3. CallsSound'
    BY <1>1, <1>r, <2>2, GotoSound DEF Restart, Steps
  <2> QED BY <1>1, <1>r, <2>1, <2>3, StoresKept DEF Restart, Inv
<1>2. CASE Reboot(c)
  <2>1. CountsTyped'
    BY <1>2, Zenon DEF Reboot, Inv, CountsTyped
  <2>2. CallsTyped'
    BY <1>2 DEF Reboot, Inv, CallsSound, CallsTyped, Steps, Pendings
  <2>3. \A d \in Calls : step'[d] \in {"begin", "idle", "done"}
    BY <1>2 DEF Reboot
  <2>4. \A d \in Restores : step'[d] \in {"begin", "idle"} => step[d] = "idle"
    BY <1>2, <1>t DEF Reboot
  <2>5. HasTarget' /\ CreatesFirst'
    BY <2>3 DEF HasTarget, CreatesFirst
  <2>6. HasAttempt'
    BY <1>2, <2>4 DEF HasAttempt, Inv, CallsSound, Reboot
  <2>7. StoresTyped'
    BY <1>2, <1>r DEF Reboot, StoresTyped, Inv
  <2>8. lock' \in Calls \cup {Free}
    BY <1>2 DEF Reboot
  <2> QED BY <2>1, <2>2, <2>5, <2>6, <2>7, <2>8 DEF Inv, CallsSound
<1> QED BY <1>1, <1>2

\* The Scheduler, its worker, the listener and time keep the types.
LEMMA TypedEnvironment ==
    ASSUME Inv, Fire \/ Advance \/ Check \/ Start \/ ListenerCrash \/ Crash \/ Tick
    PROVE  Inv'
<1>r. /\ row \in RowsTyped /\ entries \subseteq EntriesTyped /\ advances \in Seq(AdvancesTyped)
      /\ mailbox \in Seq(Nat) /\ fired \in Seq(Nat) /\ now \in Nat
      /\ (checked => mailbox # <<>>)
  BY BoundsAssumption DEF Inv, StoresTyped, CountsTyped
<1>1. CASE Fire
  <2>1. PICK e \in entries :
          LET next == NextFutureFire(e.pending, now)
          IN  /\ e.pending.at <= now
              /\ entries' = (entries \ {e}) \cup
                     (IF next = Exhausted THEN {} ELSE {[e EXCEPT !.pending = next]})
              /\ advances' = Append(advances, [e EXCEPT !.pending = next])
              /\ mailbox' = Append(mailbox, e.pending.at)
              /\ fired' = Append(fired, e.pending.at)
    BY <1>1 DEF Fire
  <2> DEFINE next == NextFutureFire(e.pending, now)
  <2>2. e.ref \in Refs /\ e.pending \in Firing /\ e \in EntriesTyped
    BY <1>r DEF EntriesTyped
  <2>3. next \in Pendings
    BY <1>r, <2>2, NextFutureFireTyped
  <2> HIDE DEF next
  <2>4. [e EXCEPT !.pending = next] \in AdvancesTyped /\ (next # Exhausted => [e EXCEPT !.pending = next] \in EntriesTyped)
    BY <2>2, <2>3 DEF EntriesTyped, AdvancesTyped, Pendings
  <2>5. e.pending.at \in Nat
    BY <2>2 DEF Firing
  <2>6. /\ entries' = (entries \ {e}) \cup (IF next = Exhausted THEN {} ELSE {[e EXCEPT !.pending = next]})
        /\ advances' = Append(advances, [e EXCEPT !.pending = next])
        /\ mailbox' = Append(mailbox, e.pending.at)
        /\ fired' = Append(fired, e.pending.at)
    BY <2>1 DEF next
  <2>7. entries' \subseteq EntriesTyped
    BY <1>r, <2>4, <2>6
  <2>8. advances' \in Seq(AdvancesTyped) /\ mailbox' \in Seq(Nat) /\ fired' \in Seq(Nat)
    BY <1>r, <2>4, <2>5, <2>6
  <2>9. row' = row /\ UNCHANGED <<now, up, checked, faults, started>> /\ UNCHANGED <<lock, callVars>>
    BY <1>1 DEF Fire
  <2>11. mailbox' # <<>>
    <3>1. \A q \in Seq(Nat), x \in Nat : Append(q, x) # <<>>
      OBVIOUS
    <3> QED BY <1>r, <2>5, <2>6, <3>1
  <2>10. StoresTyped'
    BY <1>r, <2>7, <2>8, <2>9, <2>11 DEF StoresTyped
  <2> QED BY <2>9, <2>10, CallsKept, CountsKept DEF Inv
<1>2. CASE Advance
  <2>1. Head(advances) \in AdvancesTyped /\ Tail(advances) \in Seq(AdvancesTyped)
    BY <1>2, <1>r DEF Advance
  <2>2. row' \in RowsTyped
    BY <1>2, <1>r, <2>1, WrittenRows DEF Advance, AdvancesTyped
  <2>5. advances' = Tail(advances) /\ UNCHANGED <<entries, mailbox, checked, fired>>
    BY <1>2 DEF Advance
  <2>3. StoresTyped'
    BY <1>r, <2>1, <2>2, <2>5 DEF StoresTyped
  <2>4. CountsTyped'
    BY <1>2, BoundsAssumption DEF Advance, Inv, CountsTyped
  <2> QED BY <1>2, <2>3, <2>4, CallsKept DEF Advance, Inv
<1>3. CASE Check
  <2>1. mailbox # <<>> /\ Tail(mailbox) \in Seq(Nat)
    BY <1>3, <1>r DEF Check
  <2>4. mailbox' \in Seq(Nat) /\ (checked' => mailbox' # <<>>) /\ UNCHANGED <<row, entries, advances, fired>>
    BY <1>3, <1>r, <2>1, Zenon DEF Check
  <2>5. StoresTyped'
    BY <1>r, <2>4 DEF StoresTyped
  <2>2. checked \in BOOLEAN /\ checked' \in BOOLEAN
    BY <1>3 DEF Check, Inv, CountsTyped
  <2>3. CountsTyped'
    BY <1>3, <2>2, Zenon DEF Check, Inv, CountsTyped
  <2> QED BY <1>3, <2>5, <2>3, CallsKept DEF Check, Inv
<1>4. CASE Start
  <2>1. mailbox' = Tail(mailbox) /\ UNCHANGED <<row, entries, advances, fired>>
    BY <1>4 DEF Start
  <2>2. started' \in Nat
    BY <1>4 DEF Start, Inv, CountsTyped
  <2>3. CountsTyped'
    BY <1>4, <2>2, Zenon DEF Start, Inv, CountsTyped
  <2>4. Tail(mailbox) \in Seq(Nat) /\ ~checked'
    BY <1>4, <1>r DEF Start
  <2>5. StoresTyped'
    BY <1>r, <2>1, <2>4 DEF StoresTyped
  <2> QED BY <1>4, <2>3, <2>5, CallsKept DEF Start, Inv
<1>5. CASE ListenerCrash
  <2>1. StoresTyped'
    BY <1>5, <1>r DEF ListenerCrash, StoresTyped
  <2>2. CountsTyped'
    BY <1>5, BoundsAssumption DEF ListenerCrash, Inv, CountsTyped
  <2> QED BY <1>5, <2>1, <2>2, CallsKept DEF ListenerCrash, Inv
<1>6. CASE Crash
  <2>1. StoresTyped'
    BY <1>6, <1>r DEF Crash, StoresTyped
  <2>2. CountsTyped'
    BY <1>6, Zenon DEF Crash, Inv, CountsTyped
  <2> QED BY <1>6, <2>1, <2>2, CallsKept DEF Crash, Inv
<1>7. CASE Tick
  <2>1. StoresTyped'
    BY <1>7, <1>r DEF Tick, StoresTyped
  <2>2. CountsTyped'
    BY <1>7, BoundsAssumption DEF Tick, Inv, CountsTyped
  <2> QED BY <1>7, <2>1, <2>2, CallsKept DEF Tick, Inv
<1> QED BY <1>1, <1>2, <1>3, <1>4, <1>5, <1>6, <1>7

\* The invariant is inductive.
LEMMA TypedStep == Inv /\ [Next]_vars => Inv'
<1> SUFFICES ASSUME Inv, [Next]_vars PROVE Inv'
  OBVIOUS
<1>1. CASE UNCHANGED vars
  <2>1. UNCHANGED <<lock, callVars>> /\ UNCHANGED <<now, up, checked, faults, started>>
        /\ UNCHANGED <<advances, mailbox, fired, row, entries, checked>>
    BY <1>1 DEF vars
  <2>2. row' \in RowsTyped /\ entries' \subseteq EntriesTyped
    BY <2>1 DEF Inv, StoresTyped
  <2> QED BY <2>1, <2>2, CallsKept, CountsKept, StoresKept DEF Inv
<1>2. CASE Next
  BY <1>2, TypedCallStep, TypedFailure, TypedRestart, TypedEnvironment DEF Next
<1> QED BY <1>1, <1>2

\* The state keeps its types whatever the cycle, the calls and the faults. A
\* restore never runs out of attempts in the middle, and what is armed is
\* always an occurrence of the cycle, never the end of it.
THEOREM ScheduleTypeCorrect == Spec => []TypeOK
<1>1. Spec => []Inv
  BY TypedInit, TypedStep, PTL DEF Spec
<1> QED BY <1>1, InvImpliesTypeOK, PTL

-----------------------------------------------------------------------------
(* What is armed is accounted for, if nothing is deployed meanwhile. A      *)
(* deploy creates its row before it takes the lock, and a restore that runs *)
(* in between arms the schedule a second time.                              *)

HeldSteps == {"mark", "persist", "cancel", "schedule", "clear", "store", "undo", "delete"}

\* Nothing is created, and only two kinds of calls list.
NeverCreates ==
    \A c \in Calls : step[c] # "create" /\ (step[c] = "list" => c \in Reloads \cup Unregisters)

\* Everything after the lock was taken is done under it. An unregister that
\* found no schedule takes no lock, and there is none.
Absentee(c) == c \in Unregisters /\ ~row.present
Custody ==
    /\ \A c \in Calls : step[c] \in HeldSteps =>
           lock = c \/ (Absentee(c) /\ step[c] \in {"cancel", "delete"})
    /\ \A c \in Calls : step[c] = "relist" => Absentee(c)
    /\ \A c \in Calls : lock = c => step[c] \in HeldSteps

Accounted(e) == row.present /\ row.enabled /\ row.ref = e.ref
AllAccounted == \A e \in entries : Accounted(e)

\* A call that persists before it cancels.
PersistsFirst(c) == c \in Enables \/ (c \in Reloads /\ target[c] # Exhausted)

\* What the holder of the lock knows of the entries at each step.
KnownEntries(c) ==
    /\ step[c] = "mark" => AllAccounted
    /\ step[c] = "persist" /\ PersistsFirst(c) => \A e \in entries : Accounted(e) /\ e.ref = seen[c]
    /\ step[c] = "persist" /\ ~PersistsFirst(c) => entries = {}
    /\ step[c] = "cancel" => \A e \in entries : e.ref = seen[c]
    /\ step[c] \in {"schedule", "clear", "delete"} => entries = {}
    /\ step[c] \in {"store", "undo"} => \A e \in entries : e.ref = c

\* A call arms nothing that it has not seen enabled or has not enabled.
KnownEnabled(c) ==
    /\ \/ step[c] \in {"schedule", "store"}
       \/ step[c] = "cancel" /\ target[c] # Exhausted
       \/ step[c] = "persist" /\ c \in Reloads /\ target[c] # Exhausted
       => (row.present => row.enabled)
    /\ step[c] = "persist" => c \notin Unregisters

LockInv ==
    /\ Inv /\ NeverCreates /\ Custody
    /\ lock = Free => AllAccounted
    /\ \A c \in Calls : lock = c => KnownEntries(c) /\ KnownEnabled(c)

\* It holds at the start.
LEMMA LockInit == Init => LockInv
<1> SUFFICES ASSUME Init PROVE LockInv
  OBVIOUS
<1>1. lock = Free /\ \A c \in Calls : lock # c
  BY NullsAssumption DEF Init
<1>2. \A c \in Calls : step[c] = "idle"
  BY Zenon DEF Init
<1>3. NeverCreates /\ Custody
  BY <1>1, <1>2 DEF NeverCreates, Custody, HeldSteps
<1>4. AllAccounted
  <2>1. CASE Deployed
    <3>1. InitialRow = [present |-> TRUE, enabled |-> TRUE, pending |-> FirstFuture(0), ref |-> Deployment]
      BY <2>1 DEF InitialRow
    <3> QED BY <3>1 DEF Init, AllAccounted, Accounted
  <2>2. CASE ~Deployed
    <3>1. InitialRow.ref = NoRef /\ InitialRow \in RowsTyped
      BY <2>2 DEF InitialRow, NoRow, RowsTyped, Pendings
    <3>2. row.ref = NoRef
      BY <3>1 DEF Init, RowsTyped
    <3> QED BY <3>2 DEF Init, AllAccounted
  <2> QED BY <2>1, <2>2
<1> QED BY <1>1, <1>3, <1>4, TypedInit DEF LockInv

\* A step that touches no call that has the lock, changes no row that exists,
\* and arms nothing new.
LEMMA Undisturbed ==
    ASSUME LockInv, lock' = lock, row' = row \/ (~row.present /\ ~row'.present),
           \A e \in entries' : \E d \in entries : d.ref = e.ref,
           \A c \in Calls : lock = c => step'[c] = step[c] /\ seen'[c] = seen[c] /\ target'[c] = target[c]
    PROVE  /\ lock' = Free => AllAccounted'
           /\ \A c \in Calls : lock' = c => KnownEntries(c)' /\ KnownEnabled(c)'
<1>1. AllAccounted => AllAccounted'
  BY DEF AllAccounted, Accounted
<1>2. ASSUME NEW c \in Calls, lock' = c PROVE KnownEntries(c)' /\ KnownEnabled(c)'
  <2>1. KnownEntries(c) /\ KnownEnabled(c)
    BY <1>2 DEF LockInv
  <2>2. step'[c] = step[c] /\ seen'[c] = seen[c] /\ target'[c] = target[c] /\ (PersistsFirst(c)' <=> PersistsFirst(c))
    BY <1>2 DEF PersistsFirst
  <2>3. entries = {} => entries' = {}
    OBVIOUS
  <2>4. \A x : (\A e \in entries : e.ref = x) => (\A e \in entries' : e.ref = x)
    OBVIOUS
  <2>5. KnownEnabled(c)'
    BY <2>1, <2>2 DEF KnownEnabled
  <2>6. step[c] = "persist" /\ PersistsFirst(c) => \A e \in entries' : Accounted(e)' /\ e.ref = seen'[c]
    BY <2>1, <2>2 DEF KnownEntries, Accounted
  <2> QED BY <1>1, <2>1, <2>2, <2>3, <2>4, <2>5, <2>6 DEF KnownEntries
<1> QED BY <1>1, <1>2 DEF LockInv

\* The lock is free after a call that held it returns.
LEMMA LeftSound ==
    ASSUME LockInv, NEW c \in Calls, Leave(c), row'.present => row.present,
           lock = c \/ lock = Free => AllAccounted',
           lock # c => \A d \in Calls : lock = d => KnownEntries(d)' /\ KnownEnabled(d)'
    PROVE  /\ NeverCreates' /\ Custody'
           /\ lock' = Free => AllAccounted'
           /\ \A d \in Calls : lock' = d => KnownEntries(d)' /\ KnownEnabled(d)'
<1>1. \A d \in Calls : step'[d] = IF d = c THEN "done" ELSE step[d]
  BY DEF LockInv, Inv, CallsSound, CallsTyped, Leave, Goto
<1>2. lock' = IF lock = c THEN Free ELSE lock
  BY DEF Leave
<1>3. Free \notin Calls
  BY NullsAssumption
<1>4. NeverCreates'
  BY <1>1 DEF LockInv, NeverCreates
<1>5. Custody'
  BY <1>1, <1>2, <1>3 DEF LockInv, Custody, HeldSteps, Absentee
<1> QED BY <1>2, <1>3, <1>4, <1>5

\* The holder of the lock goes on, or a call without the lock does.
LEMMA MovedSound ==
    ASSUME LockInv, NEW c \in Calls, NEW s \in Steps, Goto(c, s), row'.present => row.present,
           s # "create", s = "list" => c \in Reloads \cup Unregisters,
           s \in HeldSteps => lock' = c \/ (Absentee(c)' /\ s \in {"cancel", "delete"}),
           s = "relist" => Absentee(c)',
           lock' = lock \/ lock = Free,
           lock' = Free \/ lock' = c \/ lock' = lock,
           lock' = c => s \in HeldSteps
    PROVE  NeverCreates' /\ Custody'
<1>1. \A d \in Calls : step'[d] = IF d = c THEN s ELSE step[d]
  BY DEF LockInv, Inv, CallsSound, CallsTyped, Goto
<1>2. Free \notin Calls
  BY NullsAssumption
<1>3. NeverCreates'
  BY <1>1 DEF LockInv, NeverCreates
<1>4. \A d \in Calls : step'[d] \in HeldSteps => lock' = d \/ (Absentee(d)' /\ step'[d] \in {"cancel", "delete"})
  BY <1>1, <1>2 DEF LockInv, Custody, Absentee
<1>5. \A d \in Calls : step'[d] = "relist" => Absentee(d)'
  BY <1>1 DEF LockInv, Custody, Absentee
<1>6. \A d \in Calls : lock' = d => step'[d] \in HeldSteps
  BY <1>1, <1>2 DEF LockInv, Custody
<1> QED BY <1>3, <1>4, <1>5, <1>6 DEF Custody

\* A step of a call that does not have the lock, and does not take it.
LEMMA OutsideTheLock ==
    ASSUME LockInv, NEW c \in Calls, lock # c, lock' = lock, row' = row \/ (~row.present /\ ~row'.present),
           entries' \subseteq entries,
           \A d \in Calls \ {c} : step'[d] = step[d] /\ seen'[d] = seen[d] /\ target'[d] = target[d]
    PROVE  /\ lock' = Free => AllAccounted'
           /\ \A d \in Calls : lock' = d => KnownEntries(d)' /\ KnownEnabled(d)'
BY Undisturbed

\* A call that goes on changes what is said of itself alone.
LEMMA OthersAlone ==
    ASSUME Inv, NEW c \in Calls, NEW s, Goto(c, s), seen' = seen \/ seen' = [seen EXCEPT ![c] = row.ref],
           UNCHANGED target
    PROVE  \A d \in Calls \ {c} : step'[d] = step[d] /\ seen'[d] = seen[d] /\ target'[d] = target[d]
BY DEF Goto, Inv, CallsSound, CallsTyped

\* The same of a call that returns.
LEMMA OthersAloneLeaving ==
    ASSUME Inv, NEW c \in Calls, Leave(c)
    PROVE  \A d \in Calls \ {c} : step'[d] = step[d] /\ seen'[d] = seen[d] /\ target'[d] = target[d]
BY DEF Leave, Goto, Inv, CallsSound, CallsTyped

\* A call returns without having changed anything, from a step before the lock,
\* or from a step at which all is accounted for.
LEMMA LeftUnchanged ==
    ASSUME LockInv, NEW c \in Calls, Leave(c), UNCHANGED <<row, entries>>, lock = c => AllAccounted
    PROVE  /\ NeverCreates' /\ Custody'
           /\ lock' = Free => AllAccounted'
           /\ \A d \in Calls : lock' = d => KnownEntries(d)' /\ KnownEnabled(d)'
<1>1. AllAccounted => AllAccounted'
  BY DEF AllAccounted, Accounted
<1>2. ASSUME lock # c, NEW d \in Calls, lock = d PROVE KnownEntries(d)' /\ KnownEnabled(d)'
  <2>1. step'[d] = step[d] /\ seen'[d] = seen[d] /\ target'[d] = target[d]
    BY <1>2, OthersAloneLeaving DEF LockInv
  <2>2. lock' = lock
    BY <1>2 DEF Leave
  <2> QED BY <1>2, <2>1, <2>2, Undisturbed
<1>3. (lock = c \/ lock = Free) => AllAccounted'
  BY <1>1 DEF LockInv
<1> QED BY <1>2, <1>3, LeftSound

\* What holds after the step of a call, beside the types.
LockRest ==
    /\ NeverCreates /\ Custody
    /\ lock = Free => AllAccounted
    /\ \A c \in Calls : lock = c => KnownEntries(c) /\ KnownEnabled(c)

\* Before the lock: a call reads the clock, lists, or takes the lock.
LEMMA BeforeTheLock ==
    ASSUME Registers = {}, LockInv, NEW c \in Calls, Begin(c) \/ Create(c) \/ List(c) \/ Relist(c)
    PROVE  LockRest'
<1>i. Inv
  BY DEF LockInv
<1>1. CASE Begin(c)
  <2>1. FirstStep(c) \in {"lock", "list"} /\ (FirstStep(c) = "list" => c \in Reloads \cup Unregisters)
    BY DEF FirstStep, Calls, Armings
  <2>2. step[c] \notin HeldSteps
    BY <1>1 DEF Begin, HeldSteps
  <2>3. lock # c
    BY <2>2 DEF LockInv, Custody
  <2>4. NeverCreates' /\ Custody'
    BY <1>1, <2>1, <2>3, MovedSound DEF Begin, Steps, HeldSteps
  <2>5. \A d \in Calls \ {c} : step'[d] = step[d] /\ seen'[d] = seen[d] /\ target'[d] = target[d]
    BY <1>1, <1>i, OthersAlone DEF Begin
  <2> QED BY <1>1, <2>3, <2>4, <2>5, OutsideTheLock DEF Begin, LockRest
<1>2. CASE Create(c)
  BY <1>2 DEF Create, LockInv, NeverCreates
<1>3. CASE List(c)
  <2>1. lock # c
    BY <1>3 DEF List, LockInv, Custody, HeldSteps
  <2>2. CASE Leave(c)
    BY <1>3, <2>1, <2>2, LeftUnchanged DEF List, LockRest
  <2>3. ASSUME NEW s \in {"lock", "relist"}, Continue(c, s), s = "relist" => Absentee(c) PROVE LockRest'
    <3>1. NeverCreates' /\ Custody'
      BY <1>3, <2>1, <2>3, MovedSound DEF List, Continue, Steps, HeldSteps, Absentee
    <3>2. \A d \in Calls \ {c} : step'[d] = step[d] /\ seen'[d] = seen[d] /\ target'[d] = target[d]
      BY <1>i, <2>3, OthersAlone DEF Continue
    <3> QED BY <1>3, <2>1, <2>3, <3>1, <3>2, OutsideTheLock DEF List, Continue, LockRest
  <2>4. c \notin Reloads => c \in Unregisters
    BY <1>3 DEF List, LockInv, NeverCreates
  <2> QED BY <1>3, <2>2, <2>3, <2>4 DEF List, Absentee
<1>4. CASE Relist(c)
  <2>1. Absentee(c) /\ lock # c
    BY <1>4 DEF Relist, LockInv, Custody, HeldSteps
  <2>2. NeverCreates' /\ Custody'
    BY <1>4, <2>1, MovedSound DEF Relist, Steps, HeldSteps, Absentee
  <2>3. \A d \in Calls \ {c} : step'[d] = step[d] /\ seen'[d] = seen[d] /\ target'[d] = target[d]
    BY <1>4, <1>i, OthersAlone DEF Relist
  <2> QED BY <1>4, <2>1, <2>2, <2>3, OutsideTheLock DEF Relist, LockRest
<1> QED BY <1>1, <1>2, <1>3, <1>4

\* Taking the lock: what the call sees of the row is what is armed.
LEMMA TakingTheLock ==
    ASSUME Registers = {}, LockInv, NEW c \in Calls, Lock(c)
    PROVE  LockRest'
<1>i. Inv /\ lock = Free /\ step[c] = "lock" /\ UNCHANGED <<row, entries>>
  BY DEF LockInv, Lock
<1>a. AllAccounted /\ \A d \in Calls : lock # d
  BY <1>i, NullsAssumption DEF LockInv
<1>1. CASE Leave(c)
  BY <1>i, <1>a, <1>1, LeftUnchanged DEF LockRest
<1>2. ASSUME NEW s \in {"mark", "persist", "cancel"}, NEW o \in Pendings, Proceed(c, s, o),
             s = "persist" => (c \in Enables \/ (c \in Reloads /\ o # Exhausted)),
             s = "persist" /\ c \in Reloads => row.enabled,
             s = "cancel" => o = Exhausted
      PROVE  LockRest'
  <2>1. Goto(c, s) /\ lock' = c /\ step'[c] = s /\ seen'[c] = row.ref /\ target'[c] = o
    BY <1>i, <1>2 DEF Proceed, Goto, Inv, CallsSound, CallsTyped
  <2>2. NeverCreates' /\ Custody'
    BY <1>i, <2>1, MovedSound DEF Steps, HeldSteps
  <2>3. AllAccounted' /\ \A e \in entries' : Accounted(e)' /\ e.ref = seen'[c]
    BY <1>i, <1>a, <2>1 DEF AllAccounted, Accounted
  <2>4. s = "persist" => PersistsFirst(c)'
    BY <1>2, <2>1 DEF PersistsFirst
  <2>5. KnownEntries(c)'
    BY <2>1, <2>3, <2>4 DEF KnownEntries
  <2>6. s = "persist" => c \notin Unregisters
    BY <1>2, KindsDisjoint
  <2>7. KnownEnabled(c)'
    BY <1>i, <1>2, <2>1, <2>6 DEF KnownEnabled
  <2>8. c # Free
    BY NullsAssumption
  <2> QED BY <2>1, <2>2, <2>5, <2>7, <2>8 DEF LockRest
<1>3. Exhausted \in Pendings
  BY DEF Pendings
<1>4. CASE /\ c \in Enables
           /\ IF ~row.present THEN Leave(c)
              ELSE IF row.pending.left = 0 THEN Proceed(c, "mark", Exhausted)
              ELSE Proceed(c, "persist", EnabledOccurrence(row, asked[c]))
  <2>1. c \notin Reloads
    BY <1>4, KindsDisjoint
  <2>2. row.present /\ row.pending.left # 0 => EnabledOccurrence(row, asked[c]) \in Pendings
    BY <1>i, OccurrencesTyped
  <2> QED BY <1>1, <1>2, <1>3, <1>4, <2>1, <2>2
<1>5. CASE /\ c \in Reloads
           /\ IF ~Reloadable(row) THEN Leave(c)
              ELSE LET next == SkipMissed(row.pending, asked[c])
                   IN  Proceed(c, IF next = Exhausted THEN "cancel" ELSE "persist", next)
  <2>1. Reloadable(row) => row.enabled
    BY DEF Reloadable
  <2>2. Reloadable(row) => SkipMissed(row.pending, asked[c]) \in Pendings
    BY <1>i, OccurrencesTyped
  <2> DEFINE next == SkipMissed(row.pending, asked[c])
  <2>3. CASE Reloadable(row) /\ next = Exhausted
    BY <1>2, <1>3, <1>5, <2>3
  <2>4. CASE Reloadable(row) /\ next # Exhausted
    <3>1. Proceed(c, "persist", next)
      BY <1>5, <2>4
    <3>2. next \in Pendings
      BY <2>2, <2>4
    <3> HIDE DEF next
    <3> QED BY <1>2, <1>5, <2>1, <2>4, <3>1, <3>2
  <2> QED BY <1>1, <1>5, <2>3, <2>4
<1>6. CASE Leave(c) \/ Proceed(c, "cancel", Exhausted)
  BY <1>1, <1>2, <1>3, <1>6
<1> QED BY <1>4, <1>5, <1>6 DEF Lock

\* A step that may be one of the holder of the lock, or of an unregister
\* without a schedule.
LEMMA HolderOrAbsentee ==
    ASSUME LockInv, NEW c \in Calls, step[c] \in HeldSteps
    PROVE  \/ lock = c /\ KnownEntries(c) /\ KnownEnabled(c)
           \/ lock # c /\ c \in Unregisters /\ ~row.present /\ step[c] \in {"cancel", "delete"}
BY DEF LockInv, Custody, Absentee

\* The holder goes on under the lock.
LEMMA HolderGoesOn ==
    ASSUME LockInv, NEW c \in Calls, NEW s \in HeldSteps, lock = c, Continue(c, s),
           row'.present => row.present, KnownEntries(c)', KnownEnabled(c)'
    PROVE  LockRest'
<1>1. Goto(c, s) /\ lock' = c /\ c # Free
  BY NullsAssumption DEF Continue
<1>2. NeverCreates' /\ Custody'
  BY <1>1, MovedSound DEF HeldSteps, Steps
<1> QED BY <1>1, <1>2 DEF LockRest

\* The holder returns.
LEMMA HolderReturns ==
    ASSUME LockInv, NEW c \in Calls, lock = c, Leave(c), row'.present => row.present, AllAccounted'
    PROVE  LockRest'
BY LeftSound DEF LockRest

\* After a Continue or a Leave, what is known of the call itself.
LEMMA SelfAfter ==
    ASSUME Inv, NEW c \in Calls, NEW s, Continue(c, s)
    PROVE  step'[c] = s /\ seen'[c] = seen[c] /\ target'[c] = target[c] /\ (PersistsFirst(c)' <=> PersistsFirst(c))
BY DEF Continue, Goto, Inv, CallsSound, CallsTyped, PersistsFirst

\* Under the lock, until the old entry is cancelled.
LEMMA UntilCancelled ==
    ASSUME Registers = {}, LockInv, NEW c \in Calls, MarkEnabled(c) \/ Persist(c) \/ Cancel(c)
    PROVE  LockRest'
<1>i. Inv /\ row \in RowsTyped
  BY DEF LockInv, Inv, StoresTyped
<1>e. entries = {} => AllAccounted
  BY DEF AllAccounted
<1>1. CASE MarkEnabled(c)
  <2>1. lock = c /\ KnownEntries(c) /\ step[c] = "mark" /\ Leave(c) /\ UNCHANGED entries
    BY <1>1, HolderOrAbsentee DEF MarkEnabled, HeldSteps
  <2>2. row'.present = row.present /\ row'.enabled = row.present /\ row'.ref = row.ref
    BY <1>1, <1>i DEF MarkEnabled, RowsTyped
  <2>3. AllAccounted'
    BY <2>1, <2>2 DEF KnownEntries, AllAccounted, Accounted
  <2> QED BY <2>1, <2>2, <2>3, HolderReturns
<1>2. CASE Persist(c)
  <2>1. lock = c /\ KnownEntries(c) /\ KnownEnabled(c) /\ step[c] = "persist" /\ UNCHANGED entries
    BY <1>2, HolderOrAbsentee DEF Persist, HeldSteps
  <2>2. c \in Enables \cup Disables \cup Reloads
    BY <2>1 DEF KnownEnabled, Calls, Armings
  <2>3. row'.present = row.present
    BY <1>2, <1>i DEF Persist, PersistedRow, RowsTyped
  <2>4. CASE PersistsFirst(c) /\ row.present
    <3>1. c \notin Disables /\ ~(c \in Reloads /\ target[c] = Exhausted)
      BY <2>4, KindsDisjoint DEF PersistsFirst
    <3>2. Continue(c, "cancel")
      BY <1>2, <2>4, <3>1 DEF Persist
    <3>3. row'.enabled
      <4>1. row'.enabled = (row.enabled \/ c \in Enables)
        BY <1>2, <1>i, <2>4, <3>1 DEF Persist, PersistedRow, RowsTyped
      <4>2. c \in Reloads => row.enabled
        BY <2>1, <2>4, KindsDisjoint DEF KnownEnabled, PersistsFirst
      <4> QED BY <2>4, <4>1, <4>2 DEF PersistsFirst
    <3>4. step'[c] = "cancel" /\ seen'[c] = seen[c]
      BY <1>i, <3>2, SelfAfter
    <3>5. KnownEntries(c)' /\ KnownEnabled(c)'
      BY <2>1, <2>4, <3>3, <3>4 DEF KnownEntries, KnownEnabled
    <3> QED BY <2>1, <2>3, <3>2, <3>5, HolderGoesOn DEF HeldSteps
  <2>5. CASE PersistsFirst(c) /\ ~row.present
    <3>1. Leave(c) /\ entries = {}
      BY <1>2, <2>1, <2>5 DEF Persist, KnownEntries, Accounted
    <3> QED BY <2>1, <2>3, <3>1, HolderReturns DEF AllAccounted
  <2>6. CASE ~PersistsFirst(c)
    <3>1. Leave(c) /\ entries = {}
      BY <1>2, <2>1, <2>2, <2>6 DEF Persist, KnownEntries, PersistsFirst
    <3> QED BY <2>1, <2>3, <3>1, HolderReturns DEF AllAccounted
  <2> QED BY <2>4, <2>5, <2>6
<1>3. CASE Cancel(c)
  <2>1. step[c] = "cancel" /\ row' = row /\ entries' = {e \in entries : e.ref # seen[c]}
    BY <1>3 DEF Cancel, EntriesWithout
  <2>2. CASE lock = c /\ KnownEntries(c) /\ KnownEnabled(c)
    <3>1. entries' = {}
      BY <2>1, <2>2 DEF KnownEntries
    <3>2. CASE Leave(c)
      BY <2>1, <2>2, <3>1, <3>2, HolderReturns DEF AllAccounted
    <3>3. ASSUME NEW s \in {"delete", "schedule", "persist"}, Continue(c, s),
                 s = "schedule" => target[c] # Exhausted,
                 s = "persist" => c \notin Enables /\ c \notin Unregisters /\ target[c] = Exhausted
          PROVE  LockRest'
      <4>1. step'[c] = s /\ seen'[c] = seen[c] /\ target'[c] = target[c] /\ (PersistsFirst(c)' <=> PersistsFirst(c))
        BY <1>i, <3>3, SelfAfter
      <4>2. KnownEntries(c)'
        BY <3>1, <3>3, <4>1 DEF KnownEntries, PersistsFirst
      <4>3. KnownEnabled(c)'
        BY <2>1, <2>2, <3>3, <4>1 DEF KnownEnabled
      <4> QED BY <2>1, <2>2, <3>3, <4>2, <4>3, HolderGoesOn DEF HeldSteps
    <3> QED BY <1>3, <3>2, <3>3 DEF Cancel
  <2>3. CASE lock # c /\ c \in Unregisters /\ ~row.present
    <3>1. Continue(c, "delete") /\ lock' = lock
      BY <1>3, <2>3 DEF Cancel, Continue
    <3>2. NeverCreates' /\ Custody'
      BY <2>1, <2>3, <3>1, MovedSound DEF Continue, Steps, HeldSteps, Absentee
    <3>3. \A d \in Calls \ {c} : step'[d] = step[d] /\ seen'[d] = seen[d] /\ target'[d] = target[d]
      BY <1>i, <3>1, OthersAlone DEF Continue
    <3> QED BY <2>1, <2>3, <3>1, <3>2, <3>3, OutsideTheLock DEF LockRest
  <2> QED BY <2>1, <2>2, <2>3, HolderOrAbsentee DEF HeldSteps
<1> QED BY <1>1, <1>2, <1>3

\* Under the lock, from the new entry to the end.
LEMMA AfterCancelled ==
    ASSUME Registers = {}, LockInv, NEW c \in Calls,
           Schedule(c) \/ Clear(c) \/ Store(c) \/ Undo(c) \/ Delete(c)
    PROVE  LockRest'
<1>i. Inv /\ row \in RowsTyped
  BY DEF LockInv, Inv, StoresTyped
<1>1. CASE Schedule(c)
  <2>1. lock = c /\ KnownEntries(c) /\ KnownEnabled(c) /\ step[c] = "schedule" /\ row' = row
    BY <1>1, HolderOrAbsentee DEF Schedule, HeldSteps
  <2>2. entries = {} /\ (row.present => row.enabled)
    BY <2>1 DEF KnownEntries, KnownEnabled
  <2>3. ASSUME NEW s \in {"store", "clear"}, Continue(c, s), s = "clear" => entries' = {},
               \A e \in entries' : e.ref = c
        PROVE  LockRest'
    <3>1. step'[c] = s
      BY <1>i, <2>3, SelfAfter
    <3>2. KnownEntries(c)' /\ KnownEnabled(c)'
      BY <2>1, <2>2, <2>3, <3>1 DEF KnownEntries, KnownEnabled
    <3> QED BY <2>1, <2>3, <3>2, HolderGoesOn DEF HeldSteps
  <2>4. CASE up
    BY <1>1, <2>2, <2>3, <2>4 DEF Schedule
  <2>5. CASE ~up /\ Leave(c)
    BY <1>1, <2>1, <2>2, <2>5, HolderReturns DEF Schedule, AllAccounted
  <2>6. CASE ~up /\ Continue(c, "clear")
    BY <1>1, <2>2, <2>3, <2>6 DEF Schedule
  <2> QED BY <1>1, <2>4, <2>5, <2>6 DEF Schedule
<1>2. CASE Clear(c)
  <2>1. lock = c /\ KnownEntries(c) /\ step[c] = "clear" /\ Leave(c) /\ entries' = entries
    BY <1>2, HolderOrAbsentee DEF Clear, HeldSteps
  <2>2. row'.present = row.present
    BY <1>2, <1>i DEF Clear, RowsTyped
  <2> QED BY <2>1, <2>2, HolderReturns DEF AllAccounted, KnownEntries
<1>3. CASE Store(c)
  <2>1. lock = c /\ KnownEntries(c) /\ KnownEnabled(c) /\ step[c] = "store" /\ entries' = entries
    BY <1>3, HolderOrAbsentee DEF Store, HeldSteps
  <2>2. (\A e \in entries : e.ref = c) /\ (row.present => row.enabled)
    BY <2>1 DEF KnownEntries, KnownEnabled
  <2>3. CASE row.present
    <3>1. row' = [row EXCEPT !.ref = c] /\ Leave(c)
      BY <1>3, <2>3 DEF Store
    <3>2. row'.present = row.present /\ row'.enabled = row.enabled /\ row'.ref = c
      BY <1>i, <3>1 DEF RowsTyped
    <3> QED BY <2>1, <2>2, <2>3, <3>1, <3>2, HolderReturns DEF AllAccounted, Accounted
  <2>4. CASE ~row.present
    <3>1. row' = row /\ Continue(c, "undo")
      BY <1>3, <2>4 DEF Store
    <3>2. step'[c] = "undo"
      BY <1>i, <3>1, SelfAfter
    <3>3. KnownEntries(c)' /\ KnownEnabled(c)'
      BY <2>1, <2>2, <3>2 DEF KnownEntries, KnownEnabled
    <3> QED BY <2>1, <3>1, <3>3, HolderGoesOn DEF HeldSteps
  <2> QED BY <2>3, <2>4
<1>4. CASE Undo(c)
  <2>1. lock = c /\ KnownEntries(c) /\ step[c] = "undo" /\ Leave(c) /\ row' = row
    BY <1>4, HolderOrAbsentee DEF Undo, HeldSteps
  <2>2. entries' = {}
    BY <1>4, <2>1 DEF Undo, EntriesWithout, KnownEntries
  <2> QED BY <2>1, <2>2, HolderReturns DEF AllAccounted
<1>5. CASE Delete(c)
  <2>1. step[c] = "delete" /\ Leave(c) /\ row' = NoRow /\ entries' = entries /\ ~row'.present
    BY <1>5 DEF Delete, NoRow
  <2>2. CASE lock = c /\ KnownEntries(c)
    BY <2>1, <2>2, HolderReturns DEF AllAccounted, KnownEntries
  <2>3. CASE lock # c /\ ~row.present
    <3>1. lock' = lock
      BY <2>1, <2>3 DEF Leave
    <3>2. \A d \in Calls \ {c} : step'[d] = step[d] /\ seen'[d] = seen[d] /\ target'[d] = target[d]
      BY <1>i, <2>1, OthersAloneLeaving
    <3>3. /\ lock' = Free => AllAccounted'
          /\ \A d \in Calls : lock' = d => KnownEntries(d)' /\ KnownEnabled(d)'
      BY <2>1, <2>3, <3>1, <3>2, OutsideTheLock
    <3> QED BY <2>1, <2>3, <3>1, <3>3, LeftSound DEF LockRest
  <2> QED BY <2>1, <2>2, <2>3, HolderOrAbsentee DEF HeldSteps
<1> QED BY <1>1, <1>2, <1>3, <1>4, <1>5

\* A failing access.
LEMMA FailureAccounted ==
    ASSUME Registers = {}, LockInv, NEW c \in Calls, AccessFails(c)
    PROVE  LockRest'
<1>i. Inv /\ UNCHANGED <<row, entries>>
  BY DEF LockInv, AccessFails, NeverCreates
<1>1. CASE step[c] = "store" /\ Continue(c, "undo")
  <2>1. lock = c /\ KnownEntries(c) /\ KnownEnabled(c)
    BY <1>1, HolderOrAbsentee DEF HeldSteps
  <2>2. step'[c] = "undo"
    BY <1>1, <1>i, SelfAfter
  <2>3. KnownEntries(c)' /\ KnownEnabled(c)'
    BY <1>1, <1>i, <2>1, <2>2 DEF KnownEntries, KnownEnabled
  <2> QED BY <1>1, <1>i, <2>1, <2>3, HolderGoesOn DEF HeldSteps
<1>2. CASE step[c] = "list" /\ Continue(c, "begin")
  <2>1. lock # c
    BY <1>2 DEF LockInv, Custody, HeldSteps
  <2>2. NeverCreates' /\ Custody'
    BY <1>2, <1>i, <2>1, MovedSound DEF Continue, Steps, HeldSteps
  <2>3. \A d \in Calls \ {c} : step'[d] = step[d] /\ seen'[d] = seen[d] /\ target'[d] = target[d]
    BY <1>i, <1>2, OthersAlone DEF Continue
  <2> QED BY <1>i, <1>2, <2>1, <2>2, <2>3, OutsideTheLock DEF Continue, LockRest
<1>3. CASE step[c] \in {"list", "lock", "create", "relist", "mark", "persist", "clear", "delete"} /\ Leave(c)
  <2>1. ASSUME lock = c PROVE AllAccounted
    <3>1. step[c] \in HeldSteps /\ KnownEntries(c)
      BY <2>1 DEF LockInv, Custody
    <3> QED BY <1>3, <3>1 DEF KnownEntries, AllAccounted, HeldSteps
  <2> QED BY <1>3, <1>i, <2>1, LeftUnchanged DEF LockRest
<1> QED BY <1>1, <1>2, <1>3 DEF AccessFails

\* The Scheduler fires under the refs it has, the worker writes only occurrences.
LEMMA EnvironmentAccounted ==
    ASSUME LockInv, Fire \/ Advance \/ Check \/ Start \/ ListenerCrash \/ Crash \/ Tick \/ UNCHANGED vars
    PROVE  LockRest'
<1>i. Inv /\ row \in RowsTyped /\ entries \subseteq EntriesTyped
  BY DEF LockInv, Inv, StoresTyped
<1>k. UNCHANGED <<lock, step, asked, seen, target, tries>>
  BY DEF Fire, Advance, Check, Start, ListenerCrash, Crash, Tick, vars, callVars
<1>1. row'.present = row.present
  <2>1. row' = row \/ \E o : row' = [row EXCEPT !.pending = o]
    BY DEF Fire, Advance, Check, Start, ListenerCrash, Crash, Tick, vars
  <2> QED BY <1>i, <2>1 DEF RowsTyped
<1>2. NeverCreates' /\ Custody'
  BY <1>k, <1>1 DEF LockInv, NeverCreates, Custody, Absentee
<1>3. \A e \in entries' : \E d \in entries : d.ref = e.ref
  <2>1. CASE Fire
    <3>1. PICK e \in entries :
            LET next == NextFutureFire(e.pending, now)
            IN  entries' = (entries \ {e}) \cup
                    (IF next = Exhausted THEN {} ELSE {[e EXCEPT !.pending = next]})
      BY <2>1 DEF Fire
    <3>2. e \in EntriesTyped
      BY <1>i
    <3>3. \A o : [e EXCEPT !.pending = o].ref = e.ref
      BY <3>2 DEF EntriesTyped
    <3> QED BY <3>1, <3>3
  <2>2. CASE Crash
    BY <2>2 DEF Crash
  <2>3. CASE entries' = entries
    BY <2>3
  <2> QED BY <2>1, <2>2, <2>3 DEF Advance, Check, Start, ListenerCrash, Tick, vars
<1>4. CASE row' = row
  BY <1>k, <1>2, <1>3, <1>4, Undisturbed DEF LockRest
<1>5. CASE Advance
  <2>1. lock = Free /\ entries' = entries
    BY <1>5 DEF Advance
  <2>2. row'.enabled = row.enabled /\ row'.ref = row.ref
    BY <1>5, <1>i DEF Advance, RowsTyped
  <2>3. AllAccounted'
    BY <1>1, <2>1, <2>2 DEF LockInv, AllAccounted, Accounted
  <2>4. \A d \in Calls : lock' # d
    BY <1>k, <2>1, NullsAssumption
  <2> QED BY <1>2, <2>3, <2>4 DEF LockRest
<1> QED BY <1>4, <1>5 DEF Fire, Check, Start, ListenerCrash, Crash, Tick, vars

\* A restarted Scheduler and an engine that boots have no entries.
LEMMA RestartAccounted ==
    ASSUME LockInv, NEW c \in Calls, Restart(c) \/ Reboot(c)
    PROVE  LockRest'
<1>i. Inv
  BY DEF LockInv
<1>1. CASE Restart(c)
  <2>1. lock # c
    BY <1>1 DEF Restart, LockInv, Custody, HeldSteps
  <2>2. NeverCreates' /\ Custody'
    BY <1>1, <2>1, MovedSound DEF Restart, Steps, HeldSteps
  <2>3. \A d \in Calls \ {c} : step'[d] = step[d] /\ seen'[d] = seen[d] /\ target'[d] = target[d]
    BY <1>i, <1>1, OthersAlone DEF Restart
  <2> QED BY <1>1, <2>1, <2>2, <2>3, OutsideTheLock DEF Restart, LockRest
<1>2. CASE Reboot(c)
  <2>1. \A d \in Calls : step'[d] \in {"begin", "idle", "done"} /\ lock' # d
    BY <1>2, NullsAssumption DEF Reboot
  <2>2. NeverCreates' /\ Custody'
    BY <2>1 DEF NeverCreates, Custody, HeldSteps
  <2> QED BY <1>2, <2>1, <2>2 DEF Reboot, LockRest, AllAccounted
<1> QED BY <1>1, <1>2

\* The invariant is inductive.
LEMMA LockStep == Registers = {} /\ LockInv /\ [Next]_vars => LockInv'
<1> SUFFICES ASSUME Registers = {}, LockInv, [Next]_vars PROVE LockInv'
  OBVIOUS
<1>1. Inv'
  BY TypedStep DEF LockInv
<1>2. LockRest'
  <2>1. ASSUME NEW c \in Calls, CallStep(c) PROVE LockRest'
    BY <2>1, BeforeTheLock, TakingTheLock, UntilCancelled, AfterCancelled DEF CallStep
  <2> QED BY <2>1, FailureAccounted, RestartAccounted, EnvironmentAccounted DEF Next
<1> QED BY <1>1, <1>2 DEF LockInv, LockRest

\* Unless a deploy runs beside other calls, nothing is armed that the row does
\* not account for, however many calls there are and wherever they stop.
THEOREM ArmedAccounted == Registers = {} => (Spec => []ArmedIsAccounted)
<1>1. LockInv => ArmedIsAccounted
  BY DEF LockInv, ArmedIsAccounted, AllAccounted, Accounted
<1> SUFFICES ASSUME Registers = {} PROVE Spec => []ArmedIsAccounted
  OBVIOUS
<1>2. LockInv /\ [Next]_vars => LockInv'
  BY LockStep
<1> QED BY <1>1, <1>2, LockInit, PTL DEF Spec

-----------------------------------------------------------------------------
(* The row resumes what is armed. Between the row and the entry stand the   *)
(* advances the worker has not taken: the last one of an entry's ref says   *)
(* what the entry fires next, and with none left the row says it. A ref is  *)
(* that of one call, which arms once. An advance whose write fails is       *)
(* logged and dropped, so this is said of a database that does not fail.    *)

Late == {"store", "undo", "done"}

NoAdvance(ref) == \A i \in DOMAIN advances : advances[i].ref # ref

\* Nothing bears the ref of a call that has not armed yet.
Fresh ==
    \A c \in Calls : step[c] \notin Late => NoAdvance(c) /\ \A e \in entries : e.ref # c

OneEach == \A d, e \in entries : d.ref = e.ref => d = e

LastAdvance ==
    \A e \in entries : \A i \in DOMAIN advances :
        /\ advances[i].ref = e.ref
        /\ \A j \in DOMAIN advances : j > i => advances[j].ref # e.ref
        => advances[i].pending = e.pending

\* A call that has persisted what it will arm, and not yet cancelled what was.
Rewriting(c) == step[c] = "cancel" /\ target[c] # Exhausted
Rewritten == \E c \in Calls : lock = c /\ Rewriting(c)

Matches(e) == row.present /\ row.ref = e.ref /\ NoAdvance(e.ref) => row.pending = e.pending
Matched == ~Rewritten => \A e \in entries : Matches(e)

\* What the holder of the lock has written.
Written(c) ==
    /\ Rewriting(c) \/ step[c] \in {"schedule", "store"} => (row.present => row.pending = target[c])
    /\ step[c] = "store" => \A e \in entries : NoAdvance(e.ref) => e.pending = target[c]

PersistInv ==
    Fresh /\ OneEach /\ LastAdvance /\ Matched /\ \A c \in Calls : lock = c => Written(c)
PersistSound == faults = 0 => PersistInv

\* It holds at the start.
LEMMA PersistInit == Init => PersistInv
<1> SUFFICES ASSUME Init PROVE PersistInv
  OBVIOUS
<1>1. /\ \A c \in Calls : lock # c
      /\ advances = <<>> /\ DOMAIN advances = {}
      /\ entries = IF row.ref = NoRef THEN {} ELSE {[ref |-> row.ref, pending |-> row.pending]}
  BY NullsAssumption DEF Init
<1>2. \A e \in entries : e.pending = row.pending /\ e.ref = row.ref /\ row.ref # NoRef
  BY <1>1
<1>3. row.ref \in {Deployment, NoRef}
  <2>1. InitialRow.ref \in {Deployment, NoRef} /\ InitialRow \in RowsTyped
    BY FirstFutureTyped DEF InitialRow, NoRow, RowsTyped, Refs, Pendings
  <2> QED BY <2>1 DEF Init, RowsTyped
<1>4. Fresh
  BY <1>1, <1>2, <1>3, KindsDisjoint DEF Fresh, NoAdvance
<1>5. OneEach
  BY <1>1 DEF OneEach
<1>6. LastAdvance /\ Matched
  BY <1>1, <1>2 DEF LastAdvance, Matched, Matches
<1> QED BY <1>1, <1>4, <1>5, <1>6 DEF PersistInv

\* The row does not change what it says of the next occurrence, though it may
\* forget the ref or go.
Fades ==
    row'.present => row.present /\ row'.pending = row.pending /\ row'.ref \in {row.ref, NoRef}

\* Nothing is armed or fired, and no call becomes one that has not armed.
LEMMA QueueKept ==
    ASSUME PersistInv, advances' = advances, entries' \subseteq entries,
           \A c \in Calls : step'[c] \notin Late => step[c] \notin Late
    PROVE  Fresh' /\ OneEach' /\ LastAdvance' /\ \A ref : NoAdvance(ref)' <=> NoAdvance(ref)
<1>1. \A ref : NoAdvance(ref)' <=> NoAdvance(ref)
  BY DEF NoAdvance
<1>2. Fresh'
  BY <1>1 DEF PersistInv, Fresh
<1>3. OneEach' /\ LastAdvance'
  BY DEF PersistInv, OneEach, LastAdvance
<1> QED BY <1>1, <1>2, <1>3

\* What is said of an entry stays true under a row that fades.
LEMMA MatchesKept ==
    ASSUME Inv, Fades, advances' = advances, NEW e \in entries, Matches(e)
    PROVE  Matches(e)'
<1>1. e.ref # NoRef
  BY NullsAssumption DEF Inv, StoresTyped, EntriesTyped
<1>2. NoAdvance(e.ref)' <=> NoAdvance(e.ref)
  BY DEF NoAdvance
<1> QED BY <1>1, <1>2 DEF Matches, Fades

\* A holder of the lock at its step has written what it has written.
LEMMA WrittenKept ==
    ASSUME PersistInv, Fades, advances' = advances, entries' \subseteq entries,
           NEW c \in Calls, Written(c), step'[c] = step[c], target'[c] = target[c]
    PROVE  Written(c)'
<1>1. \A ref : NoAdvance(ref)' <=> NoAdvance(ref)
  BY DEF NoAdvance
<1> QED BY <1>1 DEF Written, Rewriting, Fades

\* A step of a call that arms nothing and writes no other occurrence.
LEMMA CallKeeps ==
    ASSUME LockInv, PersistInv, NEW c \in Calls, Fades, advances' = advances, entries' \subseteq entries,
           step'[c] \notin Late => step[c] \notin Late,
           \A d \in Calls \ {c} : step'[d] = step[d] /\ target'[d] = target[d],
           lock' = lock \/ lock = c \/ lock = Free,
           lock' \in {lock, c, Free},
           lock' = c => Written(c)',
           lock = c /\ Rewriting(c) => entries' = {}
    PROVE  PersistInv'
<1>1. Fresh' /\ OneEach' /\ LastAdvance'
  BY QueueKept
<1>2. ASSUME NEW d \in Calls, lock' = d PROVE Written(d)'
  <2>1. CASE d = c
    BY <1>2, <2>1
  <2>2. CASE d # c
    <3>1. lock = d /\ step'[d] = step[d] /\ target'[d] = target[d]
      BY <1>2, <2>2, NullsAssumption
    <3> QED BY <3>1, WrittenKept DEF PersistInv
  <2> QED BY <2>1, <2>2
<1>3. Matched'
  <2> SUFFICES ASSUME ~Rewritten', NEW e \in entries' PROVE Matches(e)'
    BY DEF Matched
  <2>1. ~Rewritten
    BY NullsAssumption DEF Rewritten, Rewriting
  <2>2. Matches(e)
    BY <2>1 DEF PersistInv, Matched
  <2> QED BY <2>2, MatchesKept DEF LockInv
<1> QED BY <1>1, <1>2, <1>3 DEF PersistInv

\* A call that returns.
LEMMA LeaveKeeps ==
    ASSUME LockInv, PersistInv, NEW c \in Calls, Leave(c), Fades, advances' = advances,
           entries' \subseteq entries, lock = c /\ Rewriting(c) => entries' = {}
    PROVE  PersistInv'
<1>1. step'[c] = "done"
  BY DEF Leave, Goto, LockInv, Inv, CallsSound, CallsTyped
<1>2. lock' = IF lock = c THEN Free ELSE lock
  BY DEF Leave
<1>3. \A d \in Calls \ {c} : step'[d] = step[d] /\ target'[d] = target[d]
  BY OthersAloneLeaving DEF LockInv
<1>4. c # Free
  BY NullsAssumption
<1> QED BY <1>1, <1>2, <1>3, <1>4, CallKeeps DEF Late

\* A call that goes on.
LEMMA ContinueKeeps ==
    ASSUME LockInv, PersistInv, NEW c \in Calls, NEW s, Continue(c, s), Fades, advances' = advances,
           entries' \subseteq entries, s \notin Late => step[c] \notin Late,
           lock = c => Written(c)', lock = c /\ Rewriting(c) => entries' = {}
    PROVE  PersistInv'
<1>1. step'[c] = s /\ lock' = lock
  BY SelfAfter DEF LockInv, Continue
<1>2. \A d \in Calls \ {c} : step'[d] = step[d] /\ target'[d] = target[d]
  BY OthersAlone DEF LockInv, Continue
<1> QED BY <1>1, <1>2, CallKeeps

\* How the writes that persist no occurrence change the row.
LEMMA FadesByItself ==
    /\ row' = row \/ ~row'.present => Fades
    /\ row' = NoRow => Fades
    /\ row \in RowsTyped /\ row' = [row EXCEPT !.ref = NoRef] => Fades
    /\ row \in RowsTyped /\ row' = [row EXCEPT !.enabled = row.present] => Fades
    /\ row \in RowsTyped /\ row' = [row EXCEPT !.enabled = FALSE, !.ref = NoRef] => Fades
<1>1. (row' = row \/ ~row'.present => Fades) /\ (row' = NoRow => Fades)
  BY DEF Fades, NoRow
<1>2. ASSUME row \in RowsTyped, row' = [row EXCEPT !.ref = NoRef] PROVE Fades
  BY <1>2 DEF Fades, RowsTyped
<1>3. ASSUME row \in RowsTyped, row' = [row EXCEPT !.enabled = row.present] PROVE Fades
  BY <1>3 DEF Fades, RowsTyped
<1>4. ASSUME row \in RowsTyped, row' = [row EXCEPT !.enabled = FALSE, !.ref = NoRef] PROVE Fades
  BY <1>4 DEF Fades, RowsTyped
<1> QED BY <1>1, <1>2, <1>3, <1>4

\* The calls before they take the lock, and when they do.
LEMMA PersistBeforeTheLock ==
    ASSUME Registers = {}, LockInv, PersistInv, NEW c \in Calls,
           Begin(c) \/ Create(c) \/ List(c) \/ Relist(c) \/ Lock(c)
    PROVE  PersistInv'
<1>i. Inv /\ step[c] # "create"
  BY DEF LockInv, NeverCreates
<1>1. UNCHANGED <<row, entries, advances>> /\ Fades
  BY <1>i, FadesByItself DEF Begin, Create, List, Relist, Lock
<1>2. step[c] \notin HeldSteps /\ step[c] \notin Late /\ lock # c
  <2>1. step[c] \in {"idle", "begin", "list", "relist", "lock"}
    BY <1>i DEF Begin, Create, List, Relist, Lock
  <2> QED BY <2>1 DEF HeldSteps, Late, LockInv, Custody
<1>3. CASE Begin(c)
  <2>1. \A d \in Calls \ {c} : step'[d] = step[d] /\ target'[d] = target[d]
    BY <1>3, <1>i, OthersAlone DEF Begin
  <2> QED BY <1>1, <1>2, <1>3, <2>1, CallKeeps DEF Begin
<1>4. CASE List(c)
  <2>1. CASE Leave(c)
    BY <1>1, <1>2, <2>1, LeaveKeeps
  <2>2. ASSUME NEW s, Continue(c, s) PROVE PersistInv'
    BY <1>1, <1>2, <2>2, ContinueKeeps
  <2> QED BY <1>4, <2>1, <2>2 DEF List
<1>5. CASE Relist(c)
  <2>1. \A d \in Calls \ {c} : step'[d] = step[d] /\ target'[d] = target[d]
    BY <1>5, <1>i, OthersAlone DEF Relist
  <2> QED BY <1>1, <1>2, <1>5, <2>1, CallKeeps DEF Relist
<1>6. CASE Lock(c)
  <2>1. CASE Leave(c)
    BY <1>1, <1>2, <2>1, LeaveKeeps
  <2>2. ASSUME NEW s \in {"mark", "persist", "cancel"}, NEW o, Proceed(c, s, o),
               s = "cancel" => o = Exhausted
        PROVE  PersistInv'
    <3>1. /\ step'[c] = s /\ target'[c] = o /\ lock' = c
          /\ \A d \in Calls \ {c} : step'[d] = step[d] /\ target'[d] = target[d]
      BY <1>i, <2>2 DEF Proceed, Goto, Inv, CallsSound, CallsTyped
    <3>2. Written(c)'
      BY <2>2, <3>1 DEF Written, Rewriting
    <3> QED BY <1>1, <1>2, <1>6, <3>1, <3>2, CallKeeps DEF Lock
  <2>3. /\ c \in Enables => Leave(c) \/ (\E s \in {"mark", "persist", "cancel"} : \E o :
                              Proceed(c, s, o) /\ (s = "cancel" => o = Exhausted))
        /\ c \in Reloads => Leave(c) \/ (\E s \in {"mark", "persist", "cancel"} : \E o :
                              Proceed(c, s, o) /\ (s = "cancel" => o = Exhausted))
    <3>1. c \in Enables => c \notin Reloads /\ c \notin Disables /\ c \notin Unregisters
      BY KindsDisjoint
    <3>2. c \in Reloads => c \notin Enables /\ c \notin Disables /\ c \notin Unregisters
      BY KindsDisjoint
    <3> QED BY <1>6, <3>1, <3>2 DEF Lock
  <2>4. CASE c \notin Enables /\ c \notin Reloads
    BY <1>6, <2>1, <2>2, <2>4 DEF Lock
  <2> QED BY <2>1, <2>2, <2>3, <2>4
<1> QED BY <1>i, <1>3, <1>4, <1>5, <1>6 DEF Create

\* Under the lock, until the old entry is cancelled.
LEMMA PersistUntilCancelled ==
    ASSUME Registers = {}, LockInv, PersistInv, NEW c \in Calls,
           MarkEnabled(c) \/ Persist(c) \/ Cancel(c)
    PROVE  PersistInv'
<1>i. Inv /\ row \in RowsTyped
  BY DEF LockInv, Inv, StoresTyped
<1>1. CASE MarkEnabled(c)
  <2>1. Fades /\ step[c] = "mark" /\ Leave(c) /\ UNCHANGED <<advances, entries>>
    BY <1>1, <1>i, FadesByItself DEF MarkEnabled
  <2> QED BY <2>1, LeaveKeeps DEF Rewriting
<1>2. CASE Persist(c)
  <2>1. lock = c /\ KnownEntries(c) /\ KnownEnabled(c) /\ step[c] = "persist" /\ UNCHANGED <<entries, advances>>
    BY <1>2, HolderOrAbsentee DEF Persist, HeldSteps
  <2>2. c \in Enables \cup Disables \cup Reloads
    BY <2>1 DEF KnownEnabled, Calls, Armings
  <2>3. CASE ~row.present
    <3>1. Fades /\ Leave(c)
      BY <1>2, <2>3, FadesByItself DEF Persist
    <3> QED BY <2>1, <3>1, LeaveKeeps DEF Rewriting
  <2>4. CASE row.present /\ c \in Disables
    <3>1. Fades /\ Leave(c)
      BY <1>2, <1>i, <2>4, FadesByItself DEF Persist, PersistedRow
    <3> QED BY <2>1, <3>1, LeaveKeeps DEF Rewriting
  <2>5. CASE row.present /\ c \notin Disables
    <3>1. row' \in RowsTyped /\ row'.present /\ row'.pending = target[c] /\ target[c] \in Pendings
          /\ row'.ref = IF c \in Enables /\ target[c] = Exhausted THEN NoRef ELSE row.ref
      BY <1>2, <1>i, <2>5, PersistedRowTyped, StepOfCall DEF Persist, PersistedRow, RowsTyped
    <3>2. Fresh' /\ OneEach' /\ LastAdvance'
      <4>1. \A d \in Calls : step'[d] \notin Late => step[d] \notin Late
        <5>1. \A d \in Calls \ {c} : step'[d] = step[d]
          BY <1>2, <1>i, OthersAlone, OthersAloneLeaving DEF Persist, Continue
        <5> QED BY <2>1, <5>1 DEF Late
      <4> QED BY <2>1, <4>1, QueueKept
    <3>3. CASE target[c] # Exhausted
      <4>1. Continue(c, "cancel")
        BY <1>2, <2>5, <3>3 DEF Persist
      <4>2. step'[c] = "cancel" /\ target'[c] = target[c] /\ lock' = c
        BY <1>i, <2>1, <4>1, SelfAfter DEF Continue
      <4>3. Rewritten' /\ Written(c)'
        BY <3>1, <3>3, <4>2 DEF Rewritten, Rewriting, Written
      <4> QED BY <3>2, <4>2, <4>3 DEF PersistInv, Matched
    <3>4. CASE target[c] = Exhausted
      <4>1. \A e \in entries : row'.ref # e.ref
        <5>1. CASE c \in Enables
          BY <1>i, <3>1, <3>4, <5>1, NullsAssumption DEF Inv, StoresTyped, EntriesTyped
        <5>2. CASE c \notin Enables
          BY <2>1, <3>4, <5>2 DEF KnownEntries, PersistsFirst
        <5> QED BY <5>1, <5>2
      <4>2. Matched'
        BY <2>1, <4>1 DEF Matched, Matches
      <4>3. \A d \in Calls : lock' = d => Written(d)'
        <5>1. CASE Leave(c)
          <6>1. \A d \in Calls : lock' # d
            BY <2>1, <5>1, NullsAssumption DEF Leave
          <6> QED BY <6>1
        <5>2. CASE Continue(c, "cancel")
          <6>1. step'[c] = "cancel" /\ target'[c] = target[c] /\ lock' = c
            BY <1>i, <2>1, <5>2, SelfAfter DEF Continue
          <6> QED BY <3>4, <6>1 DEF Written, Rewriting
        <5> QED BY <1>2, <5>1, <5>2 DEF Persist
      <4> QED BY <3>2, <4>2, <4>3 DEF PersistInv
    <3> QED BY <3>3, <3>4
  <2> QED BY <2>3, <2>4, <2>5
<1>3. CASE Cancel(c)
  <2>1. step[c] = "cancel" /\ row' = row /\ advances' = advances /\ Fades
        /\ entries' = {e \in entries : e.ref # seen[c]}
    BY <1>3, FadesByItself DEF Cancel, EntriesWithout
  <2>2. lock = c => entries' = {} /\ Written(c)
    BY <2>1, HolderOrAbsentee DEF HeldSteps, KnownEntries, PersistInv
  <2>3. CASE Leave(c)
    BY <2>1, <2>2, <2>3, LeaveKeeps
  <2>4. ASSUME NEW s \in {"delete", "schedule", "persist"}, Continue(c, s),
               s = "schedule" => target[c] # Exhausted
        PROVE  PersistInv'
    <3>1. step'[c] = s /\ target'[c] = target[c]
      BY <1>i, <2>4, SelfAfter
    <3>2. lock = c => Written(c)'
      BY <2>1, <2>2, <2>4, <3>1 DEF Written, Rewriting
    <3> QED BY <2>1, <2>2, <2>4, <3>2, ContinueKeeps DEF Late
  <2> QED BY <1>3, <2>3, <2>4 DEF Cancel
<1> QED BY <1>1, <1>2, <1>3

\* Under the lock, from the new entry to the end.
LEMMA PersistAfterCancelled ==
    ASSUME Registers = {}, LockInv, PersistInv, NEW c \in Calls,
           Schedule(c) \/ Clear(c) \/ Store(c) \/ Undo(c) \/ Delete(c)
    PROVE  PersistInv'
<1>i. Inv /\ row \in RowsTyped
  BY DEF LockInv, Inv, StoresTyped
<1>1. CASE Schedule(c)
  <2>1. lock = c /\ step[c] = "schedule" /\ entries = {} /\ UNCHANGED <<row, advances>> /\ Fades
    BY <1>1, HolderOrAbsentee, FadesByItself DEF Schedule, HeldSteps, KnownEntries
  <2>2. CASE ~up
    <3>1. UNCHANGED entries
      BY <1>1, <2>2 DEF Schedule
    <3>2. CASE Leave(c)
      BY <2>1, <3>1, <3>2, LeaveKeeps
    <3>3. CASE Continue(c, "clear")
      <4>1. Written(c)'
        BY <1>i, <3>3, SelfAfter DEF Written, Rewriting
      <4> QED BY <2>1, <3>1, <3>3, <4>1, ContinueKeeps DEF Late
    <3> QED BY <1>1, <2>2, <3>2, <3>3 DEF Schedule
  <2>3. CASE up
    <3> DEFINE n == [ref |-> c, pending |-> target[c]]
    <3>1. Continue(c, "store") /\ entries' = {n} /\ n.ref = c /\ n.pending = target[c]
      BY <1>1, <2>1, <2>3 DEF Schedule
    <3> HIDE DEF n
    <3>2. step'[c] = "store" /\ target'[c] = target[c] /\ lock' = c
          /\ \A d \in Calls \ {c} : step'[d] = step[d]
      BY <1>i, <2>1, <3>1, SelfAfter, OthersAlone DEF Continue
    <3>3. \A ref : NoAdvance(ref)' <=> NoAdvance(ref)
      BY <2>1 DEF NoAdvance
    <3>4. NoAdvance(c) /\ (row.present => row.pending = target[c])
      BY <2>1 DEF PersistInv, Fresh, Written, Late
    <3>5. Fresh'
      BY <2>1, <3>1, <3>2, <3>3 DEF PersistInv, Fresh, Late
    <3>6. OneEach' /\ LastAdvance'
      BY <2>1, <3>1, <3>3, <3>4 DEF OneEach, LastAdvance, NoAdvance
    <3>7. Matched' /\ Written(c)'
      BY <2>1, <3>1, <3>2, <3>4 DEF Matched, Matches, Written, Rewriting
    <3> QED BY <3>2, <3>5, <3>6, <3>7 DEF PersistInv
  <2> QED BY <2>2, <2>3
<1>2. CASE Clear(c)
  <2>1. step[c] = "clear" /\ Leave(c) /\ UNCHANGED <<entries, advances>> /\ Fades
    BY <1>2, <1>i, FadesByItself DEF Clear
  <2> QED BY <2>1, LeaveKeeps DEF Rewriting
<1>3. CASE Store(c)
  <2>1. lock = c /\ KnownEntries(c) /\ step[c] = "store" /\ UNCHANGED <<entries, advances>>
    BY <1>3, HolderOrAbsentee DEF Store, HeldSteps
  <2>2. CASE ~row.present
    <3>1. Continue(c, "undo") /\ row' = row /\ Fades
      BY <1>3, <2>2, FadesByItself DEF Store
    <3>2. Written(c)'
      BY <1>i, <3>1, SelfAfter DEF Written, Rewriting
    <3> QED BY <2>1, <3>1, <3>2, ContinueKeeps DEF Rewriting, Late
  <2>3. CASE row.present
    <3>1. Leave(c) /\ row' = [row EXCEPT !.ref = c]
      BY <1>3, <2>3 DEF Store
    <3>2. row'.ref = c /\ row'.pending = row.pending
      BY <1>i, <3>1 DEF RowsTyped
    <3>3. step'[c] = "done" /\ (\A d \in Calls \ {c} : step'[d] = step[d]) /\ \A d \in Calls : lock' # d
      <4>1. step'[c] = "done"
        BY <1>i, <3>1 DEF Leave, Goto, Inv, CallsSound, CallsTyped
      <4> QED BY <1>i, <2>1, <3>1, <4>1, OthersAloneLeaving, NullsAssumption DEF Leave
    <3>4. Fresh' /\ OneEach' /\ LastAdvance' /\ \A ref : NoAdvance(ref)' <=> NoAdvance(ref)
      BY <2>1, <3>3, QueueKept DEF Late
    <3>5. \A e \in entries : e.ref = c /\ (NoAdvance(c) => e.pending = row.pending)
      BY <2>1, <2>3 DEF KnownEntries, PersistInv, Written
    <3>6. Matched'
      BY <2>1, <3>2, <3>4, <3>5 DEF Matched, Matches
    <3> QED BY <3>3, <3>4, <3>6 DEF PersistInv
  <2> QED BY <2>2, <2>3
<1>4. CASE Undo(c)
  <2>1. step[c] = "undo" /\ Leave(c) /\ UNCHANGED <<row, advances>> /\ Fades /\ entries' \subseteq entries
    BY <1>4, FadesByItself DEF Undo, EntriesWithout
  <2> QED BY <2>1, LeaveKeeps DEF Rewriting
<1>5. CASE Delete(c)
  <2>1. step[c] = "delete" /\ Leave(c) /\ UNCHANGED <<entries, advances>> /\ Fades
    BY <1>5, FadesByItself DEF Delete
  <2> QED BY <2>1, LeaveKeeps DEF Rewriting
<1> QED BY <1>1, <1>2, <1>3, <1>4, <1>5

\* A fire: the entry, the occurrence after it, and the advance of it.
LEMMA PersistFire ==
    ASSUME LockInv, PersistInv, Fire
    PROVE  PersistInv'
<1>r. entries \subseteq EntriesTyped /\ advances \in Seq(AdvancesTyped) /\ now \in Nat
  BY BoundsAssumption DEF LockInv, Inv, StoresTyped, CountsTyped
<1>k. UNCHANGED <<row, lock, step, target>>
  BY DEF Fire, callVars
<1>1. PICK e \in entries :
        LET next == NextFutureFire(e.pending, now)
        IN  /\ entries' = (entries \ {e}) \cup
                   (IF next = Exhausted THEN {} ELSE {[e EXCEPT !.pending = next]})
            /\ advances' = Append(advances, [e EXCEPT !.pending = next])
  BY DEF Fire
<1> DEFINE next == NextFutureFire(e.pending, now)
           n == [e EXCEPT !.pending = next]
<1>2. e \in EntriesTyped /\ next \in Pendings
  BY <1>r, NextFutureFireTyped DEF EntriesTyped
<1>3. n \in AdvancesTyped /\ n.ref = e.ref
  BY <1>2 DEF EntriesTyped, AdvancesTyped
<1>4. advances' = Append(advances, n) /\ \A x \in entries' : x = n \/ (x \in entries /\ x # e)
  BY <1>1
<1> HIDE DEF next, n
<1>5. PICK L \in Nat : DOMAIN advances = 1 .. L /\ L = Len(advances)
  BY <1>r
<1>6. DOMAIN advances' = 1 .. L + 1 /\ advances'[L + 1] = n /\ \A i \in 1 .. L : advances'[i] = advances[i]
  BY <1>r, <1>3, <1>4, <1>5
<1>7. \A x \in entries' : x.ref # e.ref => x \in entries
  BY <1>3, <1>4
<1>8. \A x \in entries' : x.ref = e.ref => x = n
  BY <1>4 DEF PersistInv, OneEach
<1>9. \A ref : NoAdvance(ref)' <=> NoAdvance(ref) /\ ref # e.ref
  <2>1. L + 1 \in 1 .. L + 1 /\ \A i \in 1 .. L + 1 : i \in 1 .. L \/ i = L + 1
    BY <1>5
  <2>2. 1 .. L \subseteq 1 .. L + 1
    BY <1>5
  <2> QED BY <1>3, <1>5, <1>6, <2>1, <2>2 DEF NoAdvance
<1>10. Fresh'
  BY <1>k, <1>7, <1>9 DEF PersistInv, Fresh
<1>11. OneEach'
  BY <1>7, <1>8 DEF PersistInv, OneEach
<1>12. LastAdvance'
  <2> SUFFICES ASSUME NEW x \in entries', NEW i \in DOMAIN advances', advances'[i].ref = x.ref,
                      \A j \in DOMAIN advances' : j > i => advances'[j].ref # x.ref
               PROVE  advances'[i].pending = x.pending
    BY DEF LastAdvance
  <2>1. CASE x.ref = e.ref
    <3>1. i = L + 1
      BY <1>3, <1>5, <1>6, <2>1
    <3> QED BY <1>6, <1>8, <2>1, <3>1
  <2>2. CASE x.ref # e.ref
    <3>1. i \in 1 .. L /\ advances'[i] = advances[i]
      BY <1>3, <1>5, <1>6, <2>2
    <3>2. \A j \in 1 .. L : j > i => advances[j].ref # x.ref
      BY <1>5, <1>6
    <3> QED BY <1>5, <1>7, <2>2, <3>1, <3>2 DEF PersistInv, LastAdvance
  <2> QED BY <2>1, <2>2
<1>13. Matched'
  <2>1. Rewritten' <=> Rewritten
    BY <1>k DEF Rewritten, Rewriting
  <2> QED BY <1>k, <1>7, <1>9, <2>1 DEF PersistInv, Matched, Matches
<1>14. \A c \in Calls : lock' = c => Written(c)'
  BY <1>k, <1>7, <1>9 DEF PersistInv, Written, Rewriting
<1> QED BY <1>10, <1>11, <1>12, <1>13, <1>14 DEF PersistInv

\* The worker takes the oldest advance; if it was the last of the armed ref, the
\* row now says what the entry does.
LEMMA PersistAdvance ==
    ASSUME LockInv, PersistInv, Advance, faults' = faults
    PROVE  PersistInv'
<1>r. row \in RowsTyped /\ advances \in Seq(AdvancesTyped) /\ faults \in Nat
  BY BoundsAssumption DEF LockInv, Inv, StoresTyped, CountsTyped
<1>1. /\ advances # <<>> /\ advances' = Tail(advances) /\ lock = Free
      /\ UNCHANGED <<lock, entries, step, target>>
  BY DEF Advance, callVars
<1> DEFINE h == Head(advances)
<1>2. row' = IF AdvanceApplies(h) THEN [row EXCEPT !.pending = h.pending] ELSE row
  BY <1>r DEF Advance
<1>3. PICK L \in Nat : DOMAIN advances = 1 .. L + 1 /\ Len(advances) = L + 1
  <2>1. Len(advances) \in Nat \ {0} /\ DOMAIN advances = 1 .. Len(advances)
    BY <1>r, <1>1
  <2>2. Len(advances) - 1 \in Nat /\ Len(advances) = Len(advances) - 1 + 1
    BY <2>1
  <2> QED BY <2>1, <2>2
<1>4. h = advances[1] /\ DOMAIN advances' = 1 .. L /\ \A i \in 1 .. L : advances'[i] = advances[i + 1]
  BY <1>r, <1>1, <1>3
<1> HIDE DEF h
<1>5. AllAccounted /\ \A c \in Calls : lock # c
  BY <1>1, NullsAssumption DEF LockInv
<1>6. \A ref : NoAdvance(ref) <=> NoAdvance(ref)' /\ h.ref # ref
  <2>1. \A i \in 1 .. L + 1 : i = 1 \/ (i - 1 \in 1 .. L /\ i = (i - 1) + 1)
    BY <1>3
  <2>2. 1 \in 1 .. L + 1 /\ \A i \in 1 .. L : i + 1 \in 1 .. L + 1
    BY <1>3
  <2>3. ASSUME NEW ref, NoAdvance(ref) PROVE NoAdvance(ref)' /\ h.ref # ref
    BY <1>3, <1>4, <2>2, <2>3 DEF NoAdvance
  <2>4. ASSUME NEW ref, NoAdvance(ref)', h.ref # ref PROVE NoAdvance(ref)
    <3>1. \A i \in 1 .. L : advances[i + 1].ref # ref
      BY <1>4, <2>4 DEF NoAdvance
    <3> QED BY <1>3, <1>4, <2>1, <2>4, <3>1 DEF NoAdvance
  <2> QED BY <2>3, <2>4
<1>7. Fresh' /\ OneEach'
  BY <1>1, <1>6 DEF PersistInv, Fresh, OneEach
<1>8. LastAdvance'
  <2> SUFFICES ASSUME NEW e \in entries', NEW i \in DOMAIN advances', advances'[i].ref = e.ref,
                      \A j \in DOMAIN advances' : j > i => advances'[j].ref # e.ref
               PROVE  advances'[i].pending = e.pending
    BY DEF LastAdvance
  <2>0. /\ e \in entries /\ i \in 1 .. L /\ advances'[i] = advances[i + 1]
        /\ \A j \in 1 .. L : j > i => advances[j + 1].ref # e.ref
    BY <1>1, <1>4
  <2>1. i + 1 \in DOMAIN advances
    BY <1>3, <2>0
  <2>2. ASSUME NEW j \in DOMAIN advances, j > i + 1 PROVE advances[j].ref # e.ref
    <3>1. j - 1 \in 1 .. L /\ j - 1 > i /\ (j - 1) + 1 = j
      BY <1>3, <2>0, <2>2
    <3> QED BY <2>0, <3>1
  <2> QED BY <2>0, <2>1, <2>2 DEF PersistInv, LastAdvance
<1>9. ASSUME NEW e \in entries, row.ref = e.ref, NoAdvance(e.ref)' PROVE row'.pending = e.pending
  <2>1. CASE h.ref = e.ref
    <3>1. \A j \in DOMAIN advances : j > 1 => advances[j].ref # e.ref
      <4>1. \A j \in DOMAIN advances : j > 1 => j - 1 \in 1 .. L /\ (j - 1) + 1 = j
        BY <1>3
      <4> QED BY <1>4, <1>9, <4>1 DEF NoAdvance
    <3>2. 1 \in DOMAIN advances
      BY <1>3
    <3>3. h.pending = e.pending
      BY <1>4, <2>1, <3>1, <3>2 DEF PersistInv, LastAdvance
    <3>4. AdvanceApplies(h)
      BY <1>5, <2>1 DEF AdvanceApplies, AllAccounted, Accounted
    <3> QED BY <1>2, <1>r, <3>3, <3>4 DEF RowsTyped
  <2>2. CASE h.ref # e.ref
    <3>1. ~Rewritten /\ NoAdvance(e.ref)
      BY <1>5, <1>6, <1>9, <2>2 DEF Rewritten
    <3>2. row.pending = e.pending
      BY <1>5, <1>9, <3>1 DEF PersistInv, Matched, Matches, AllAccounted, Accounted
    <3> QED BY <1>2, <1>9, <2>2, <3>2 DEF AdvanceApplies
  <2> QED BY <2>1, <2>2
<1>10. Matched'
  <2>1. row'.ref = row.ref
    BY <1>2, <1>r DEF RowsTyped
  <2> QED BY <1>1, <1>9, <2>1 DEF Matched, Matches
<1> QED BY <1>1, <1>5, <1>7, <1>8, <1>10 DEF PersistInv

\* The rest of the Scheduler's life, and of the listener's and the engine's.
LEMMA PersistEnvironment ==
    ASSUME LockInv, PersistInv,
           \/ Check \/ Start \/ ListenerCrash \/ Crash \/ Tick \/ UNCHANGED vars
           \/ \E c \in Calls : Restart(c) \/ Reboot(c)
    PROVE  PersistInv'
<1>i. Inv /\ row' = row
  BY DEF LockInv, Check, Start, ListenerCrash, Crash, Tick, vars, Restart, Reboot
<1>1. CASE UNCHANGED <<entries, advances, lock, step, target>>
  BY <1>i, <1>1 DEF PersistInv, Fresh, NoAdvance, OneEach, LastAdvance, Matched, Matches,
                    Rewritten, Rewriting, Written
<1>2. ASSUME entries' = {}, advances' = <<>>, \A c \in Calls : lock' = c => lock = c /\ step'[c] = step[c] /\ target'[c] = target[c]
      PROVE  PersistInv'
  <2>1. DOMAIN advances' = {}
    BY <1>2
  <2>2. Fresh' /\ OneEach' /\ LastAdvance' /\ Matched'
    BY <1>2, <2>1 DEF Fresh, NoAdvance, OneEach, LastAdvance, Matched
  <2>3. \A c \in Calls : lock' = c => Written(c)'
    BY <1>i, <1>2 DEF PersistInv, Written, Rewriting
  <2> QED BY <2>2, <2>3 DEF PersistInv
<1>3. CASE Crash
  BY <1>2, <1>3 DEF Crash, callVars
<1>4. ASSUME NEW c \in Calls, Reboot(c) PROVE PersistInv'
  BY <1>2, <1>4, NullsAssumption DEF Reboot
<1>5. ASSUME NEW c \in Calls, Restart(c) PROVE PersistInv'
  <2>1. lock # c /\ step[c] \notin Late
    BY <1>5 DEF Restart, LockInv, Custody, HeldSteps, Late
  <2>2. \A d \in Calls \ {c} : step'[d] = step[d] /\ target'[d] = target[d]
    BY <1>5, <1>i, OthersAlone DEF Restart
  <2> QED BY <1>i, <1>5, <2>1, <2>2, FadesByItself, CallKeeps DEF Restart
<1> QED BY <1>1, <1>3, <1>4, <1>5 DEF Check, Start, ListenerCrash, Tick, vars, callVars

\* While no access fails, the invariant is inductive.
LEMMA PersistStep ==
    Registers = {} /\ LockInv /\ PersistSound /\ [Next]_vars => PersistSound'
<1> SUFFICES ASSUME Registers = {}, LockInv, PersistSound, [Next]_vars, faults' = 0 PROVE PersistInv'
  BY DEF PersistSound
<1>1. faults \in Nat
  BY BoundsAssumption DEF LockInv, Inv, CountsTyped
<1>2. ASSUME NEW c \in Calls, AccessFails(c) PROVE FALSE
  BY <1>1, <1>2 DEF AccessFails
<1>3. faults = 0 \/ faults' = faults + 1
  <2>1. ASSUME NEW c \in Calls, CallStep(c) PROVE faults' = faults
    BY <2>1 DEF CallStep, Begin, Create, List, Relist, Lock, MarkEnabled, Persist, Cancel, Schedule,
                Clear, Store, Undo, Delete
  <2>2. ASSUME NEW c \in Calls, Restart(c) \/ Reboot(c) PROVE faults' = faults
    BY <2>2 DEF Restart, Reboot
  <2>3. Fire \/ Check \/ Start \/ Crash \/ Tick \/ UNCHANGED vars => faults' = faults
    BY DEF Fire, Check, Start, Crash, Tick, vars
  <2>4. Advance \/ ListenerCrash => faults' = faults \/ faults' = faults + 1
    BY DEF Advance, ListenerCrash
  <2> QED BY <1>2, <2>1, <2>2, <2>3, <2>4 DEF Next
<1>4. PersistInv /\ faults' = faults
  BY <1>1, <1>3 DEF PersistSound
<1>5. ASSUME NEW c \in Calls, CallStep(c) PROVE PersistInv'
  BY <1>4, <1>5, PersistBeforeTheLock, PersistUntilCancelled, PersistAfterCancelled DEF CallStep
<1> QED BY <1>2, <1>4, <1>5, PersistFire, PersistAdvance, PersistEnvironment DEF Next

\* While the database answers, the row says of an armed entry when it fires and
\* how often, as soon as the worker has caught up: whatever replaced the entry,
\* wherever the Scheduler or the engine stopped, a reload resumes the cycle
\* exactly, with no occurrence lost or counted twice.
THEOREM PersistedIsArmed == Registers = {} => (Spec => [](faults = 0 => PersistedMatchesArmed))
<1> DEFINE Resumable == faults = 0 => PersistedMatchesArmed
<1>1. LockInv /\ PersistSound => Resumable
  <2> SUFFICES ASSUME LockInv, PersistInv, lock = Free, NEW e \in entries, row.ref = e.ref, NoAdvance(e.ref)
               PROVE  row.pending = e.pending
    BY DEF PersistSound, PersistedMatchesArmed, NoAdvance
  <2>1. ~Rewritten /\ row.present
    BY NullsAssumption DEF Rewritten, LockInv, AllAccounted, Accounted
  <2> QED BY <2>1 DEF PersistInv, Matched, Matches
<1>2. Init => PersistSound
  BY PersistInit DEF PersistSound
<1> HIDE DEF Resumable
<1> SUFFICES ASSUME Registers = {} PROVE Spec => []Resumable
  BY DEF Resumable
<1>3. LockInv /\ [Next]_vars => LockInv'
  BY LockStep
<1>4. LockInv /\ PersistSound /\ [Next]_vars => PersistSound'
  BY PersistStep
<1> QED BY <1>1, <1>2, <1>3, <1>4, LockInit, PTL DEF Spec

-----------------------------------------------------------------------------
(* A schedule is armed once: without a deploy, nothing is armed beside      *)
(* another entry, under the lock or outside it.                             *)

Single == \A d, e \in entries : d = e

\* What a step may do to the entries.
LEMMA EntriesAfter ==
    ASSUME LockInv, [Next]_vars
    PROVE  \/ entries' \subseteq entries
           \/ \E c \in Calls : /\ step[c] = "schedule" /\ entries = {} /\ up
                               /\ entries' = {[ref |-> c, pending |-> target[c]]}
           \/ Fire
<1>1. ASSUME NEW c \in Calls, CallStep(c), ~(entries' \subseteq entries)
      PROVE  /\ step[c] = "schedule" /\ entries = {} /\ up
             /\ entries' = {[ref |-> c, pending |-> target[c]]}
  <2>1. Schedule(c) /\ up
    BY <1>1 DEF CallStep, Begin, Create, List, Relist, Lock, MarkEnabled, Persist, Cancel, Schedule,
                Clear, Store, Undo, Delete, EntriesWithout
  <2>2. step[c] = "schedule" /\ entries' = entries \cup {[ref |-> c, pending |-> target[c]]}
    BY <2>1 DEF Schedule
  <2>3. entries = {}
    BY <2>2, HolderOrAbsentee DEF HeldSteps, KnownEntries
  <2> QED BY <2>1, <2>2, <2>3
<1>2. ASSUME NEW c \in Calls, AccessFails(c) \/ Restart(c) \/ Reboot(c) PROVE entries' \subseteq entries
  BY <1>2 DEF AccessFails, Restart, Reboot
<1>3. Advance \/ Check \/ Start \/ ListenerCrash \/ Crash \/ Tick \/ UNCHANGED vars => entries' \subseteq entries
  BY DEF Advance, Check, Start, ListenerCrash, Crash, Tick, vars
<1> QED BY <1>1, <1>2, <1>3 DEF Next

LEMMA SingleInit == Init => Single
BY DEF Init, Single

LEMMA SingleStep == LockInv /\ Single /\ [Next]_vars => Single'
<1> SUFFICES ASSUME LockInv, Single, [Next]_vars PROVE Single'
  OBVIOUS
<1>1. ASSUME Fire PROVE Single'
  <2>1. PICK e \in entries :
          LET next == NextFutureFire(e.pending, now)
          IN  entries' = (entries \ {e}) \cup
                  (IF next = Exhausted THEN {} ELSE {[e EXCEPT !.pending = next]})
    BY <1>1 DEF Fire
  <2>2. entries \ {e} = {}
    BY DEF Single
  <2> QED BY <2>1, <2>2 DEF Single
<1> QED BY <1>1, EntriesAfter DEF Single

\* Unless a deploy runs beside other calls, a schedule is armed at most once,
\* whatever is restored, booted or enabled at the same time.
THEOREM AtMostOneArmed == Registers = {} => (Spec => []ArmedOnce)
<1>1. Single => ArmedOnce
  <2> SUFFICES ASSUME Single PROVE Cardinality(entries) <= 1
    BY DEF ArmedOnce
  <2>1. CASE entries = {}
    BY <2>1, FS_EmptySet
  <2>2. ASSUME NEW e \in entries PROVE Cardinality(entries) <= 1
    <3>1. entries = {e}
      BY DEF Single
    <3>2. Cardinality({e}) = 1
      BY FS_Singleton
    <3> QED BY <3>1, <3>2
  <2> QED BY <2>1, <2>2
<1> SUFFICES ASSUME Registers = {} PROVE Spec => []ArmedOnce
  OBVIOUS
<1>2. LockInv /\ [Next]_vars => LockInv'
  BY LockStep
<1> QED BY <1>1, <1>2, LockInit, SingleInit, SingleStep, PTL DEF Spec

-----------------------------------------------------------------------------
(* No occurrence fires twice, if one reload is all that arms. It reads the  *)
(* clock before it lists and before it takes the lock; what fires in        *)
(* between, armed by another call, it would arm again. With one reload      *)
(* nothing is armed from its start to its arming, and what it arms lies     *)
(* behind the time it read.                                                 *)

\* A whole interval more covers what a division leaves.
LEMMA Covered ==
    ASSUME NEW n \in Nat
    PROVE  n < (n \div Interval + 1) * Interval
BY CycleAssumption

LEMMA Later ==
    ASSUME NEW n \in Nat \ {0}
    PROVE  n * Interval > 0
BY CycleAssumption

\* Occurrences later is later.
LEMMA AfterIsLater ==
    ASSUME NEW o \in Firing, NEW n \in Nat, After(o, n) # Exhausted
    PROVE  After(o, n).at = o.at + n * Interval
BY DEF After, Exhausted

\* Skipping what was missed ends behind the time, and never goes back.
LEMMA SkipMissedIsAhead ==
    ASSUME NEW o \in Firing, NEW time \in Nat, SkipMissed(o, time) # Exhausted
    PROVE  SkipMissed(o, time).at > time /\ SkipMissed(o, time).at >= o.at
<1>1. o.at \in Nat
  BY DEF Firing
<1>2. CASE o.at > time
  BY <1>1, <1>2 DEF SkipMissed
<1>3. CASE ~(o.at > time)
  <2>1. PICK n \in Nat : n = time - o.at
    BY <1>1, <1>3
  <2>2. PICK q \in Nat : q = n \div Interval
    BY Quotient
  <2>3. n < (q + 1) * Interval /\ (q + 1) * Interval \in Nat /\ q + 1 \in Nat
    BY <2>2, Covered, Product
  <2>4. SkipMissed(o, time) = After(o, q + 1)
    BY <1>3, <2>1, <2>2 DEF SkipMissed
  <2>5. SkipMissed(o, time).at = o.at + (q + 1) * Interval
    BY <2>3, <2>4, AfterIsLater
  <2> QED BY <1>1, <1>3, <2>1, <2>3, <2>5
<1> QED BY <1>2, <1>3

\* The occurrence armed after a fire is later than the one that fired.
LEMMA NextFutureFireIsLater ==
    ASSUME NEW o \in Firing, NEW time \in Nat, NextFutureFire(o, time) # Exhausted
    PROVE  NextFutureFire(o, time).at > o.at
<1>1. 1 * Interval > 0 /\ 1 * Interval \in Nat /\ o.at \in Nat
  BY Later, Product DEF Firing
<1>2. After(o, 1) # Exhausted
  BY DEF NextFutureFire
<1>3. After(o, 1) \in Firing
  BY <1>2, AfterTyped DEF Pendings
<1>4. After(o, 1).at = o.at + 1 * Interval
  BY <1>2, AfterIsLater
<1>5. NextFutureFire(o, time) = SkipMissed(After(o, 1), time)
  BY <1>2 DEF NextFutureFire
<1>6. SkipMissed(After(o, 1), time).at >= After(o, 1).at
  BY <1>3, <1>5, SkipMissedIsAhead
<1>7. SkipMissed(After(o, 1), time).at \in Nat
  <2>1. SkipMissed(After(o, 1), time) \in Pendings
    BY <1>3, SkipMissedTyped
  <2> QED BY <1>5, <2>1 DEF Pendings, Firing
<1> QED BY <1>1, <1>4, <1>5, <1>6, <1>7

OneArming == Registers = {} /\ Enables = {} /\ \A r, s \in Reloads : r = s

\* Only a reload has an occurrence to arm.
OnlyReloadsArm == \A c \in Calls \ Reloads : target[c] = Exhausted

Arming == {"list", "lock", "persist", "cancel", "schedule"}

\* From its start until it arms, a reload finds nothing armed, all that fired
\* lies before the time it read, and what it arms behind it.
ReloadKnows(r) ==
    /\ step[r] \notin {"idle"} \cup Late => entries = {}
    /\ step[r] \in Arming => \A i \in DOMAIN fired : fired[i] <= asked[r]
    /\ step[r] \in {"persist", "cancel", "schedule"} /\ target[r] # Exhausted
           => asked[r] < target[r].at

FiresAscend ==
    /\ \A i \in DOMAIN fired : fired[i] <= now
    /\ \A i, j \in DOMAIN fired : i < j => fired[i] < fired[j]
    /\ \A e \in entries : \A i \in DOMAIN fired : fired[i] < e.pending.at

OnceInv ==
    /\ OnlyReloadsArm /\ FiresAscend
    /\ ~up => entries = {}
    /\ \A r \in Reloads : ReloadKnows(r)

LEMMA OnceInit == Init => OnceInv
<1> SUFFICES ASSUME Init PROVE OnceInv
  OBVIOUS
<1>1. fired = <<>> /\ DOMAIN fired = {} /\ up
  BY DEF Init
<1>2. \A c \in Calls : step[c] = "idle" /\ target[c] = Exhausted
  BY Zenon DEF Init
<1>3. Reloads \subseteq Calls
  BY DEF Calls, Armings
<1>4. OnlyReloadsArm /\ FiresAscend
  BY <1>1, <1>2 DEF OnlyReloadsArm, FiresAscend
<1>5. \A r \in Reloads : ReloadKnows(r)
  BY <1>2, <1>3 DEF ReloadKnows, Arming
<1> QED BY <1>1, <1>4, <1>5 DEF OnceInv

\* A step that fires and arms nothing, and what it leaves the reload with.
LEMMA OnceKept ==
    ASSUME Inv, OnceInv, fired' = fired, now' \in Nat, now' >= now, entries' \subseteq entries,
           up' = up \/ entries' = {},
           \A c \in Calls \ Reloads : target'[c] \in {target[c], Exhausted},
           \A r \in Reloads :
              \/ step'[r] = step[r] /\ asked'[r] = asked[r] /\ target'[r] = target[r]
              \/ step'[r] \in {"idle"} \cup Late
              \/ ReloadKnows(r)'
    PROVE  OnceInv'
<1>1. \A i \in DOMAIN fired : fired[i] \in Nat /\ now \in Nat
  BY BoundsAssumption DEF Inv, StoresTyped, CountsTyped
<1>2. FiresAscend'
  BY <1>1 DEF OnceInv, FiresAscend
<1>3. OnlyReloadsArm'
  BY DEF OnceInv, OnlyReloadsArm
<1>4. ASSUME NEW r \in Reloads PROVE ReloadKnows(r)'
  <2>1. CASE step'[r] = step[r] /\ asked'[r] = asked[r] /\ target'[r] = target[r]
    BY <2>1 DEF OnceInv, ReloadKnows
  <2>2. CASE step'[r] \in {"idle"} \cup Late
    BY <2>2 DEF ReloadKnows, Arming, Late
  <2> QED BY <2>1, <2>2
<1> QED BY <1>2, <1>3, <1>4 DEF OnceInv

\* The steps of the reload.
LEMMA OnceReload ==
    ASSUME OneArming, LockInv, OnceInv, NEW r \in Reloads, CallStep(r)
    PROVE  OnceInv'
<1>i. Inv /\ now \in Nat /\ now \in 0 .. MaxTime
  BY BoundsAssumption DEF LockInv, Inv, CountsTyped
<1>r. /\ r \in Calls /\ r \notin Unregisters /\ r \notin Disables /\ r \notin Enables /\ r \notin Registers
      /\ \A s \in Reloads : s = r
  BY KindsDisjoint DEF OneArming, Calls, Armings
<1>k. ReloadKnows(r) /\ FiresAscend /\ asked[r] \in Nat
  BY <1>r, <1>i, StepOfCall DEF OnceInv
<1>o. \A c \in Calls \ Reloads : c # r
  OBVIOUS
<1>1. ASSUME NEW s \in Steps, step'[r] = s, target'[r] = target[r], asked'[r] = asked[r],
             UNCHANGED <<fired, now, up>>, entries' \subseteq entries,
             \A d \in Calls \ {r} : step'[d] = step[d] /\ target'[d] = target[d],
             \/ s \in Late
             \/ step[r] = "list" /\ s = "lock"
             \/ step[r] = "persist" /\ s = "cancel"
             \/ step[r] = "cancel" /\ s \in {"schedule", "persist"}
             \/ step[r] = "schedule" /\ s = "clear"
      PROVE  OnceInv'
  <2>1. s \in Late \/ ReloadKnows(r)'
    BY <1>1, <1>k DEF ReloadKnows, Arming, Late
  <2> QED BY <1>1, <1>i, <1>r, <1>o, <2>1, OnceKept
<1>2. ASSUME Leave(r), UNCHANGED <<fired, now, up>>, entries' \subseteq entries PROVE OnceInv'
  <2>1. step'[r] = "done" /\ \A d \in Calls \ {r} : target'[d] = target[d]
    BY <1>2, <1>i, <1>r, OthersAloneLeaving DEF Leave, Goto, Inv, CallsSound, CallsTyped
  <2> QED BY <1>2, <1>i, <1>r, <1>o, <2>1, OnceKept DEF Late
<1>3. ASSUME NEW s, Continue(r, s)
      PROVE  /\ step'[r] = s /\ target'[r] = target[r] /\ asked'[r] = asked[r]
             /\ \A d \in Calls \ {r} : step'[d] = step[d] /\ target'[d] = target[d]
  <2>1. asked' = asked /\ UNCHANGED target /\ Goto(r, s) /\ seen' = seen
    BY <1>3 DEF Continue
  <2> QED BY <1>3, <1>i, <1>r, <2>1, SelfAfter, OthersAlone
<1>4. CASE Begin(r)
  <2>1. /\ step[r] = "begin" /\ step'[r] = "list" /\ asked'[r] = now /\ UNCHANGED <<target, fired, now, up, entries>>
        /\ \A d \in Calls \ {r} : step'[d] = step[d] /\ target'[d] = target[d]
    BY <1>4, <1>i, <1>r DEF Begin, Goto, FirstStep, Inv, CallsSound, CallsTyped, Armings
  <2>2. ReloadKnows(r)'
    BY <1>k, <2>1 DEF ReloadKnows, Arming, Late, FiresAscend
  <2> QED BY <1>i, <1>r, <1>o, <2>1, <2>2, OnceKept
<1>5. CASE List(r)
  BY <1>1, <1>2, <1>3, <1>5, <1>r DEF List, Steps
<1>6. CASE Lock(r)
  <2>1. UNCHANGED <<fired, now, up, entries>> /\ step[r] = "lock"
    BY <1>6 DEF Lock
  <2> DEFINE next == SkipMissed(row.pending, asked[r])
  <2>2. ASSUME Reloadable(row), NEW s \in {"cancel", "persist"}, Proceed(r, s, next) PROVE OnceInv'
    <3>1. row.pending \in Firing
      BY <1>i, <2>2, ExhaustedTyped DEF Reloadable, Inv, StoresTyped, RowsTyped, Pendings
    <3>2. next # Exhausted => next.at > asked[r]
      BY <1>k, <3>1, SkipMissedIsAhead
    <3> HIDE DEF next
    <3>3. /\ step'[r] = s /\ target'[r] = next /\ asked'[r] = asked[r]
          /\ \A d \in Calls \ {r} : step'[d] = step[d] /\ target'[d] = target[d]
      BY <1>i, <1>r, <2>2 DEF Proceed, Goto, Inv, CallsSound, CallsTyped
    <3>4. next # Exhausted => asked[r] < next.at
      <4>1. next # Exhausted => next.at \in Nat
        BY <1>k, <3>1, SkipMissedTyped DEF next, Pendings, Firing
      <4> QED BY <1>k, <3>2, <4>1
    <3>5. ReloadKnows(r)'
      BY <1>k, <2>1, <3>3, <3>4 DEF ReloadKnows, Arming, Late
    <3> QED BY <1>i, <1>r, <1>o, <2>1, <3>3, <3>5, OnceKept
  <2>3. Leave(r) \/ (Reloadable(row) /\ \E s \in {"cancel", "persist"} : Proceed(r, s, next))
    BY <1>6, <1>r DEF Lock
  <2> QED BY <1>2, <2>1, <2>2, <2>3
<1>7. CASE Persist(r)
  BY <1>1, <1>2, <1>3, <1>7, <1>r DEF Persist, Steps
<1>8. CASE Cancel(r)
  <2>1. step[r] = "cancel" /\ UNCHANGED <<fired, now, up>> /\ entries' \subseteq entries
    BY <1>8 DEF Cancel, EntriesWithout
  <2>2. Continue(r, "schedule") \/ Continue(r, "persist")
    BY <1>8, <1>r DEF Cancel
  <2> QED BY <1>1, <1>3, <2>1, <2>2 DEF Steps
<1>9. CASE Schedule(r)
  <2>1. step[r] = "schedule" /\ UNCHANGED <<fired, now, up>>
    BY <1>9 DEF Schedule
  <2>2. CASE up
    <3>1. /\ Continue(r, "store") /\ entries = {} /\ target[r] # Exhausted
          /\ entries' = entries \cup {[ref |-> r, pending |-> target[r]]}
      BY <1>9, <1>i, <1>k, <1>r, <2>2 DEF Schedule, ReloadKnows, Late, Inv, CallsSound, HasTarget
    <3>2. /\ step'[r] = "store"
          /\ \A d \in Calls \ {r} : step'[d] = step[d] /\ target'[d] = target[d]
      BY <1>3, <3>1
    <3>3. \A i \in DOMAIN fired : fired[i] < target[r].at
      <4>1. target[r].at \in Nat /\ asked[r] < target[r].at
        BY <1>i, <1>k, <1>r, <2>1, <3>1, StepOfCall DEF ReloadKnows, Pendings, Firing
      <4>2. \A i \in DOMAIN fired : fired[i] <= asked[r] /\ fired[i] \in Nat
        BY <1>k, <1>i, <2>1 DEF ReloadKnows, Arming, Inv, StoresTyped
      <4> QED BY <1>k, <4>1, <4>2
    <3>4. \A e \in entries' : e.pending = target[r]
      BY <3>1
    <3>5. FiresAscend'
      BY <1>k, <2>1, <3>3, <3>4 DEF FiresAscend
    <3>6. OnlyReloadsArm'
      BY <1>o, <3>2 DEF OnceInv, OnlyReloadsArm
    <3>7. \A s \in Reloads : ReloadKnows(s)'
      BY <1>r, <3>2 DEF ReloadKnows, Arming, Late
    <3> QED BY <2>1, <2>2, <3>5, <3>6, <3>7 DEF OnceInv
  <2>3. CASE ~up
    BY <1>1, <1>2, <1>3, <1>9, <2>1, <2>3 DEF Schedule, Steps
  <2> QED BY <2>2, <2>3
<1>10. CASE Clear(r) \/ Undo(r) \/ Delete(r) \/ MarkEnabled(r)
  BY <1>2, <1>10 DEF Clear, Undo, Delete, MarkEnabled, EntriesWithout
<1>11. CASE Store(r)
  BY <1>1, <1>2, <1>3, <1>11 DEF Store, Steps, Late
<1>12. CASE Create(r) \/ Relist(r)
  BY <1>12, <1>r DEF Create, Relist, LockInv, NeverCreates, Custody, Absentee
<1> QED BY <1>4, <1>5, <1>6, <1>7, <1>8, <1>9, <1>10, <1>11, <1>12 DEF CallStep

\* The steps of the calls that arm nothing, and failing accesses.
LEMMA OnceOthers ==
    ASSUME OneArming, LockInv, OnceInv, NEW c \in Calls,
           (c \notin Reloads /\ CallStep(c)) \/ AccessFails(c)
    PROVE  OnceInv'
<1>i. Inv /\ now \in Nat
  BY BoundsAssumption DEF LockInv, Inv, CountsTyped
<1>t. Reloads \subseteq Calls /\ step \in [Calls -> Steps] /\ asked \in [Calls -> Nat]
      /\ target \in [Calls -> Pendings]
  BY DEF Calls, Armings, Inv, LockInv, CallsSound, CallsTyped
<1>1. CASE c \notin Reloads /\ CallStep(c)
  <2>1. step[c] # "schedule" /\ c \notin Registers /\ c \notin Enables
    BY <1>1, <1>i DEF Inv, CallsSound, HasTarget, OnceInv, OnlyReloadsArm, OneArming
  <2>2. UNCHANGED <<fired, now, up>> /\ entries' \subseteq entries
    BY <1>1, <2>1 DEF CallStep, Begin, Create, List, Relist, Lock, MarkEnabled, Persist, Cancel, Schedule,
                Clear, Store, Undo, Delete, EntriesWithout
  <2>3. \A d \in Calls \ {c} : step'[d] = step[d] /\ asked'[d] = asked[d] /\ target'[d] = target[d]
    <3>1. /\ \/ step' = step \/ \E s : Goto(c, s)
          /\ \/ asked' = asked \/ \E a : asked' = [asked EXCEPT ![c] = a]
          /\ \/ target' = target \/ \E o : target' = [target EXCEPT ![c] = o]
      <4>1. Leave(c) => /\ \E s : Goto(c, s)
                        /\ \E a : asked' = [asked EXCEPT ![c] = a]
                        /\ \E o : target' = [target EXCEPT ![c] = o]
        BY DEF Leave
      <4>2. \A s : Continue(c, s) => Goto(c, s) /\ asked' = asked /\ target' = target
        BY DEF Continue
      <4>3. \A s, o : Proceed(c, s, o) => Goto(c, s) /\ asked' = asked /\ target' = [target EXCEPT ![c] = o]
        BY DEF Proceed
      <4> QED BY <1>1, <2>1, <4>1, <4>2, <4>3 DEF CallStep, Begin, Create, List, Relist, Lock,
                  MarkEnabled, Persist, Cancel, Schedule, Clear, Store, Undo, Delete
    <3> QED BY <1>t, <3>1 DEF Goto
  <2>4. target'[c] \in {target[c], Exhausted}
    <3>1. Leave(c) \/ (\E s : Proceed(c, s, Exhausted)) => target'[c] = Exhausted
      BY <1>t DEF Leave, Proceed
    <3>2. UNCHANGED target \/ (\E s : Continue(c, s)) => target'[c] = target[c]
      BY DEF Continue
    <3>3. step[c] # "create"
      BY DEF LockInv, NeverCreates
    <3> QED BY <1>1, <2>1, <3>1, <3>2, <3>3 DEF CallStep, Begin, Create, List, Relist, Lock,
                MarkEnabled, Persist, Cancel, Schedule, Clear, Store, Undo, Delete
  <2> QED BY <1>i, <1>t, <1>1, <2>2, <2>3, <2>4, OnceKept
<1>2. CASE AccessFails(c)
  <2>1. UNCHANGED <<fired, now, up, entries>>
    BY <1>2 DEF AccessFails
  <2>2. CASE Leave(c)
    <3>1. step'[c] = "done" /\ target'[c] = Exhausted
      BY <1>t, <2>2 DEF Leave, Goto
    <3>2. \A d \in Calls \ {c} : step'[d] = step[d] /\ asked'[d] = asked[d] /\ target'[d] = target[d]
      BY <1>t, <2>2 DEF Leave, Goto
    <3> QED BY <1>i, <1>t, <2>1, <3>1, <3>2, OnceKept DEF Late
  <2>3. ASSUME NEW s \in {"undo", "begin"}, Continue(c, s), s = "begin" => step[c] = "list" PROVE OnceInv'
    <3>1. step'[c] = s /\ UNCHANGED <<asked, target>>
      BY <1>t, <2>3 DEF Continue, Goto
    <3>2. \A d \in Calls \ {c} : step'[d] = step[d] /\ asked'[d] = asked[d] /\ target'[d] = target[d]
      BY <1>t, <2>3 DEF Continue, Goto
    <3>3. c \in Reloads /\ s = "begin" => ReloadKnows(c)'
      BY <2>1, <2>3, <3>1 DEF OnceInv, ReloadKnows, Arming, Late
    <3> QED BY <1>i, <1>t, <2>1, <2>3, <3>1, <3>2, <3>3, OnceKept DEF Late
  <2> QED BY <1>2, <2>2, <2>3 DEF AccessFails
<1> QED BY <1>1, <1>2

\* A fire: the occurrence is later than all that fired, the one after it later still.
LEMMA OnceFire ==
    ASSUME OneArming, LockInv, Single, OnceInv, Fire
    PROVE  OnceInv'
<1>r. /\ entries \subseteq EntriesTyped /\ fired \in Seq(Nat) /\ now \in Nat
      /\ UNCHANGED <<step, asked, target, now, up>>
  BY BoundsAssumption DEF LockInv, Inv, StoresTyped, CountsTyped, Fire, callVars
<1>1. PICK e \in entries :
        LET next == NextFutureFire(e.pending, now)
        IN  /\ e.pending.at <= now
            /\ entries' = (entries \ {e}) \cup
                   (IF next = Exhausted THEN {} ELSE {[e EXCEPT !.pending = next]})
            /\ fired' = Append(fired, e.pending.at)
  BY DEF Fire
<1> DEFINE next == NextFutureFire(e.pending, now)
<1>2. e \in EntriesTyped /\ e.pending \in Firing /\ e.pending.at \in Nat /\ entries = {e} /\ up
  BY <1>r DEF EntriesTyped, Firing, Single, Fire
<1>3. next # Exhausted => next.at > e.pending.at /\ next.at \in Nat
  BY <1>r, <1>2, NextFutureFireIsLater, NextFutureFireTyped DEF Pendings, Firing
<1>4. \A d \in entries' : d.pending = next /\ next # Exhausted
  BY <1>1, <1>2 DEF EntriesTyped
<1> HIDE DEF next
<1>5. PICK L \in Nat : DOMAIN fired = 1 .. L /\ L = Len(fired)
  BY <1>r
<1>6. DOMAIN fired' = 1 .. L + 1 /\ fired'[L + 1] = e.pending.at /\ \A i \in 1 .. L : fired'[i] = fired[i]
  BY <1>r, <1>1, <1>2, <1>5
<1>7. \A i \in 1 .. L : fired[i] \in Nat /\ fired[i] < e.pending.at
  BY <1>r, <1>2, <1>5 DEF OnceInv, FiresAscend
<1>8. \A i \in 1 .. L + 1 : fired'[i] \in Nat /\ fired'[i] <= e.pending.at
  BY <1>2, <1>5, <1>6, <1>7
<1>9. FiresAscend'
  <2>1. \A i \in DOMAIN fired' : fired'[i] <= now'
    BY <1>1, <1>2, <1>6, <1>8, <1>r
  <2>2. ASSUME NEW i \in DOMAIN fired', NEW j \in DOMAIN fired', i < j PROVE fired'[i] < fired'[j]
    <3>1. i \in 1 .. L
      BY <1>5, <1>6, <2>2
    <3>2. CASE j = L + 1
      BY <1>6, <1>7, <3>1, <3>2
    <3>3. CASE j \in 1 .. L
      BY <1>5, <1>6, <2>2, <3>1, <3>3 DEF OnceInv, FiresAscend
    <3> QED BY <1>5, <1>6, <3>2, <3>3
  <2>3. \A d \in entries' : \A i \in DOMAIN fired' : fired'[i] < d.pending.at
    BY <1>2, <1>3, <1>4, <1>6, <1>8
  <2> QED BY <2>1, <2>2, <2>3 DEF FiresAscend
<1>10. OnlyReloadsArm'
  BY <1>r DEF OnceInv, OnlyReloadsArm
<1>11. ASSUME NEW r \in Reloads PROVE ReloadKnows(r)'
  <2>1. step[r] \in {"idle"} \cup Late
    BY <1>2 DEF OnceInv, ReloadKnows
  <2> QED BY <1>r, <2>1 DEF ReloadKnows, Arming, Late
<1> QED BY <1>2, <1>r, <1>9, <1>10, <1>11 DEF OnceInv

\* The rest, and the Scheduler and the engine that start again.
LEMMA OnceEnvironment ==
    ASSUME OneArming, LockInv, OnceInv,
           \/ Advance \/ Check \/ Start \/ ListenerCrash \/ Crash \/ Tick \/ UNCHANGED vars
           \/ \E c \in Calls : Restart(c) \/ Reboot(c)
    PROVE  OnceInv'
<1>i. Inv /\ now \in Nat
  BY BoundsAssumption DEF LockInv, Inv, CountsTyped
<1>t. Reloads \subseteq Calls /\ Restores \subseteq Reloads /\ Boots \subseteq Reloads
      /\ step \in [Calls -> Steps]
  BY DEF Calls, Armings, Reloads, Inv, LockInv, CallsSound, CallsTyped
<1>1. CASE Advance \/ Check \/ Start \/ ListenerCrash \/ Crash \/ UNCHANGED vars
  <2>1. UNCHANGED <<fired, now, step, asked, target>> /\ entries' \subseteq entries
        /\ (up' = up \/ entries' = {})
    BY <1>1 DEF Advance, Check, Start, ListenerCrash, Crash, vars, callVars
  <2> QED BY <1>i, <2>1, OnceKept
<1>2. CASE Tick
  <2>1. UNCHANGED <<fired, up, entries, step, asked, target>> /\ now' = now + 1
    BY <1>2 DEF Tick, callVars
  <2> QED BY <1>i, <2>1, OnceKept
<1>3. ASSUME NEW c \in Calls, Restart(c) \/ Reboot(c) PROVE OnceInv'
  <2>1. entries' = {} /\ UNCHANGED <<fired, now>> /\ c \in Reloads
    BY <1>3, <1>t DEF Restart, Reboot, OnceInv
  <2>2. /\ \A d \in Calls \ {c} : \/ step'[d] = step[d] /\ asked'[d] = asked[d] /\ target'[d] = target[d]
                                  \/ step'[d] \in {"idle", "done"}
        /\ \A d \in Calls : target'[d] \in {target[d], Exhausted}
        /\ step'[c] = "begin"
    BY <1>3, <1>t DEF Restart, Reboot, Goto
  <2>3. ReloadKnows(c)'
    BY <2>1, <2>2 DEF ReloadKnows, Arming
  <2> QED BY <1>i, <1>t, <2>1, <2>2, <2>3, OnceKept DEF Late
<1> QED BY <1>1, <1>2, <1>3

LEMMA OnceStep ==
    OneArming /\ LockInv /\ Single /\ OnceInv /\ [Next]_vars => OnceInv'
BY OnceReload, OnceOthers, OnceFire, OnceEnvironment DEF Next

\* No occurrence of a cycle fires twice though the Scheduler or the engine stops
\* between a fire and the write of its advance, and whatever writes fail: the
\* reload skips what lies before its start. It is said of one reload; with two in
\* progress the older one's clock is stale.
THEOREM OccurrencesFireOnce == OneArming => (Spec => []EachOccurrenceOnce)
<1>1. Inv /\ OnceInv => EachOccurrenceOnce
  <2> SUFFICES ASSUME Inv, OnceInv, NEW i \in DOMAIN fired, NEW j \in DOMAIN fired, fired[i] = fired[j]
               PROVE  i = j
    BY DEF EachOccurrenceOnce
  <2>1. i \in Nat /\ j \in Nat /\ fired[i] \in Nat
    BY DEF Inv, StoresTyped
  <2> QED BY <2>1 DEF OnceInv, FiresAscend
<1> SUFFICES ASSUME OneArming PROVE Spec => []EachOccurrenceOnce
  OBVIOUS
<1>2. LockInv /\ [Next]_vars => LockInv'
  BY LockStep DEF OneArming
<1>3. LockInv /\ Single /\ OnceInv /\ [Next]_vars => OnceInv'
  BY OnceStep
<1>4. LockInv => Inv
  BY DEF LockInv
<1> QED BY <1>1, <1>2, <1>3, <1>4, LockInit, SingleInit, SingleStep, OnceInit, PTL DEF Spec

-----------------------------------------------------------------------------
(* R<n> starts at most n instances. Every occurrence the cycle ever speaks  *)
(* of is one of its own: as many intervals after the first as repetitions   *)
(* are used up. As no occurrence fires twice, those that fired are at most  *)
(* the ones used up before the occurrence that is armed.                    *)

\* A sum of intervals.
LEMMA Together ==
    ASSUME NEW m \in Nat, NEW n \in Nat
    PROVE  (m + n) * Interval = m * Interval + n * Interval
BY CycleAssumption

LEMMA Fewer ==
    ASSUME NEW m \in Nat, NEW n \in Nat, m * Interval < n * Interval
    PROVE  m < n
BY CycleAssumption

First == FirstFireAt(0)

OnCycle(o) ==
    o # Exhausted => /\ o.left \in Nat \ {0} /\ o.left <= Repetitions
                     /\ o.at = First + (Repetitions - o.left) * Interval

OccurrencesOnCycle ==
    /\ OnCycle(row.pending)
    /\ \A c \in Calls : OnCycle(target[c])
    /\ \A e \in entries : OnCycle(e.pending)
    /\ \A i \in DOMAIN advances : OnCycle(advances[i].pending)

\* Each fire is at least one interval later than the one before.
FiresFarApart == \A i \in DOMAIN fired : First + (i - 1) * Interval <= fired[i]

FiresCounted ==
    /\ \A e \in entries : Len(fired) + e.pending.left <= Repetitions
    /\ Len(fired) <= Repetitions
    /\ started + Len(mailbox) <= Len(fired)

CountInv == OccurrencesOnCycle /\ FiresFarApart /\ FiresCounted
Counted == Repetitions # Infinite => CountInv

LEMMA NoFewer ==
    ASSUME NEW m \in Nat, NEW n \in Nat, m <= n
    PROVE  m * Interval <= n * Interval
BY CycleAssumption

LEMMA CountsAreNat ==
    Repetitions # Infinite => Repetitions \in Nat \ {0} /\ First \in Nat /\ Infinite \notin Nat
BY CycleAssumption, NullsAssumption DEF First, FirstFireAt

\* Occurrences later is on the cycle still.
LEMMA AfterOnCycle ==
    ASSUME Repetitions # Infinite, NEW o \in Firing, OnCycle(o), NEW n \in Nat
    PROVE  OnCycle(After(o, n)) /\ (After(o, n) # Exhausted => After(o, n).left = o.left - n)
<1> SUFFICES ASSUME After(o, n) # Exhausted
             PROVE  OnCycle(After(o, n)) /\ After(o, n).left = o.left - n
  BY DEF OnCycle
<1>1. o # Exhausted /\ o.left \in Nat \ {0} /\ o.left <= Repetitions
      /\ o.at = First + (Repetitions - o.left) * Interval
  BY ExhaustedTyped DEF OnCycle
<1>2. Repetitions \in Nat /\ First \in Nat /\ o.left # Infinite
  BY <1>1, CountsAreNat
<1>3. o.left > n /\ After(o, n) = [at |-> o.at + n * Interval, left |-> o.left - n]
  BY <1>2 DEF After
<1>4. PICK k \in Nat : k = Repetitions - o.left
  BY <1>1, <1>2
<1>5. (k + n) * Interval = k * Interval + n * Interval /\ k * Interval \in Nat /\ n * Interval \in Nat
  BY Together, Product
<1>6. k + n = Repetitions - (o.left - n) /\ o.left - n \in Nat \ {0} /\ o.left - n <= Repetitions
  BY <1>1, <1>2, <1>3, <1>4
<1>7. o.at + n * Interval = First + (k + n) * Interval
  BY <1>1, <1>2, <1>4, <1>5
<1> QED BY <1>3, <1>6, <1>7 DEF OnCycle

LEMMA SkipMissedOnCycle ==
    ASSUME Repetitions # Infinite, NEW o \in Firing, OnCycle(o), NEW time \in Nat
    PROVE  /\ OnCycle(SkipMissed(o, time))
           /\ SkipMissed(o, time) # Exhausted => SkipMissed(o, time).left <= o.left
<1>1. o.at \in Nat /\ o.left \in Nat
  BY ExhaustedTyped DEF Firing, OnCycle
<1>2. CASE o.at > time
  BY <1>1, <1>2 DEF SkipMissed
<1>3. CASE ~(o.at > time)
  <2>1. time - o.at \in Nat
    BY <1>1, <1>3
  <2>2. PICK n \in Nat : n = (time - o.at) \div Interval + 1
    BY <2>1, Quotient
  <2>3. SkipMissed(o, time) = After(o, n)
    BY <1>3, <2>2 DEF SkipMissed
  <2>4. OnCycle(After(o, n)) /\ (After(o, n) # Exhausted => After(o, n).left = o.left - n)
    BY AfterOnCycle
  <2> QED BY <1>1, <2>3, <2>4
<1> QED BY <1>2, <1>3

LEMMA NextFutureFireOnCycle ==
    ASSUME Repetitions # Infinite, NEW o \in Firing, OnCycle(o), NEW time \in Nat
    PROVE  /\ OnCycle(NextFutureFire(o, time))
           /\ NextFutureFire(o, time) # Exhausted => NextFutureFire(o, time).left < o.left
<1>1. OnCycle(After(o, 1)) /\ (After(o, 1) # Exhausted => After(o, 1).left = o.left - 1) /\ o.left \in Nat
  BY AfterOnCycle, ExhaustedTyped DEF OnCycle
<1>2. CASE After(o, 1) = Exhausted
  BY <1>2, <1>1 DEF NextFutureFire
<1>3. CASE After(o, 1) # Exhausted
  <2>1. After(o, 1) \in Firing
    BY <1>3, AfterTyped DEF Pendings
  <2>2. NextFutureFire(o, time) = SkipMissed(After(o, 1), time)
    BY <1>3 DEF NextFutureFire
  <2>3. PICK p \in Firing : p = After(o, 1)
    BY <2>1
  <2>4. OnCycle(SkipMissed(p, time)) /\ (SkipMissed(p, time) # Exhausted => SkipMissed(p, time).left <= p.left)
    BY <1>1, <2>3, SkipMissedOnCycle
  <2>5. SkipMissed(p, time) # Exhausted => SkipMissed(p, time).left \in Nat
    BY <2>4 DEF OnCycle
  <2> QED BY <1>1, <1>3, <2>2, <2>3, <2>4, <2>5
<1> QED BY <1>2, <1>3

\* It holds at the start.
LEMMA CountInit == Init => Counted
<1> SUFFICES ASSUME Init, Repetitions # Infinite PROVE CountInv
  BY DEF Counted
<1>1. Repetitions \in Nat \ {0} /\ First \in Nat
  BY CountsAreNat
<1>2. OnCycle(FirstFuture(0))
  <2> DEFINE o == [at |-> First, left |-> Repetitions]
  <2>1. o \in Firing /\ o.left = Repetitions /\ o.at = First
    BY <1>1 DEF Firing, Counts
  <2>2. OnCycle(o)
    <3>1. (Repetitions - o.left) * Interval = 0
      BY <1>1, <2>1, CycleAssumption
    <3> QED BY <1>1, <2>1, <3>1 DEF OnCycle
  <2>3. FirstFuture(0) = SkipMissed(o, 0)
    BY DEF FirstFuture, First
  <2> HIDE DEF o
  <2> QED BY <2>1, <2>2, <2>3, SkipMissedOnCycle
<1>3. InitialRow \in RowsTyped /\ (InitialRow.pending = FirstFuture(0) \/ InitialRow.pending = Exhausted)
  BY FirstFutureTyped DEF InitialRow, NoRow, RowsTyped, Refs, Pendings
<1>4. row.pending = InitialRow.pending
  BY <1>3 DEF Init, RowsTyped
<1>5. OnCycle(row.pending) /\ OnCycle(Exhausted)
  BY <1>2, <1>3, <1>4 DEF OnCycle
<1>6. \A e \in entries : e.pending = row.pending
  BY DEF Init
<1>7. fired = <<>> /\ mailbox = <<>> /\ advances = <<>> /\ started = 0 /\ \A c \in Calls : target[c] = Exhausted
  BY DEF Init
<1>8. DOMAIN fired = {} /\ DOMAIN advances = {} /\ Len(fired) = 0 /\ Len(mailbox) = 0
  BY <1>7
<1>9. \A e \in entries : Len(fired) + e.pending.left <= Repetitions
  <2>1. ASSUME NEW e \in entries PROVE e.pending.left \in Nat /\ e.pending.left <= Repetitions
    BY <1>1, <1>5, <1>6 DEF OnCycle, Exhausted
  <2> QED BY <1>1, <1>8, <2>1
<1> QED BY <1>1, <1>5, <1>6, <1>7, <1>8, <1>9 DEF CountInv, OccurrencesOnCycle, FiresFarApart, FiresCounted

\* A step after which nothing fires that did not, and which speaks of no
\* occurrence that is not of the cycle.
LEMMA CountKept ==
    ASSUME Inv, CountInv, Repetitions # Infinite, fired' = fired, entries' \subseteq entries,
           row'.pending = row.pending \/ OnCycle(row.pending)',
           \A c \in Calls : target'[c] = target[c] \/ OnCycle(target'[c]),
           advances' = advances \/ advances' = <<>> \/ (advances # <<>> /\ advances' = Tail(advances)),
           \/ UNCHANGED <<started, mailbox>>
           \/ started' = started /\ mailbox' = <<>>
           \/ started' \in {started, started + 1} /\ mailbox # <<>> /\ mailbox' = Tail(mailbox)
    PROVE  CountInv'
<1>1. /\ advances \in Seq(AdvancesTyped) /\ mailbox \in Seq(Nat) /\ fired \in Seq(Nat) /\ started \in Nat
      /\ Repetitions \in Nat
  BY CountsAreNat DEF Inv, StoresTyped, CountsTyped
<1>2. \A i \in DOMAIN advances' : OnCycle(advances'[i].pending)
  <2>1. CASE advances' = <<>>
    BY <2>1
  <2>2. CASE advances # <<>> /\ advances' = Tail(advances)
    <3>1. \A i \in DOMAIN advances' : i + 1 \in DOMAIN advances /\ advances'[i] = advances[i + 1]
      BY <1>1, <2>2
    <3> QED BY <3>1 DEF CountInv, OccurrencesOnCycle
  <2> QED BY <2>1, <2>2 DEF CountInv, OccurrencesOnCycle
<1>3. OccurrencesOnCycle'
  BY <1>2 DEF CountInv, OccurrencesOnCycle, OnCycle, First
<1>4. started' + Len(mailbox') <= Len(fired')
  <2>1. Len(fired) \in Nat /\ Len(mailbox) \in Nat /\ started + Len(mailbox) <= Len(fired)
    BY <1>1 DEF CountInv, FiresCounted
  <2>2. CASE mailbox' = <<>> /\ started' = started
    BY <1>1, <2>1, <2>2
  <2>3. CASE mailbox # <<>> /\ mailbox' = Tail(mailbox) /\ started' \in {started, started + 1}
    <3>1. Len(Tail(mailbox)) = Len(mailbox) - 1 /\ Len(mailbox) \in Nat \ {0}
      BY <1>1, <2>3
    <3>0. Len(mailbox') = Len(Tail(mailbox))
      BY <2>3
    <3>2. PICK m \in Nat : m = Len(mailbox) - 1 /\ Len(mailbox) = m + 1 /\ Len(mailbox') = m
      BY <3>0, <3>1
    <3>3. started' \in Nat /\ started' <= started + 1 /\ Len(fired') = Len(fired)
      BY <1>1, <2>3
    <3> QED BY <1>1, <2>1, <3>2, <3>3
  <2> QED BY <2>1, <2>2, <2>3
<1>5. FiresFarApart' /\ FiresCounted'
  BY <1>4 DEF CountInv, FiresFarApart, FiresCounted
<1> QED BY <1>3, <1>5 DEF CountInv

\* The end of a cycle is on every cycle.
LEMMA ExhaustedOnCycle == OnCycle(Exhausted)
BY DEF OnCycle

\* What is armed behind all that fired has no more left than fired before it.
LEMMA BehindAllFires ==
    ASSUME Inv, CountInv, Repetitions # Infinite, NEW o \in Firing, OnCycle(o),
           \A i \in DOMAIN fired : fired[i] < o.at
    PROVE  Len(fired) + o.left <= Repetitions
<1>1. /\ Repetitions \in Nat /\ First \in Nat /\ fired \in Seq(Nat)
      /\ o.left \in Nat \ {0} /\ o.left <= Repetitions /\ o.at = First + (Repetitions - o.left) * Interval
  BY CountsAreNat, ExhaustedTyped DEF Inv, StoresTyped, OnCycle
<1>2. PICK L \in Nat : L = Len(fired) /\ DOMAIN fired = 1 .. L
  BY <1>1
<1>3. PICK k \in Nat : k = Repetitions - o.left
  BY <1>1
<1>4. CASE L = 0
  BY <1>1, <1>2, <1>4
<1>5. CASE L # 0
  <2>1. PICK m \in Nat : m = L - 1
    BY <1>5
  <2>2. L \in DOMAIN fired /\ fired[L] \in Nat /\ fired[L] < o.at /\ First + m * Interval <= fired[L]
    BY <1>1, <1>2, <1>5, <2>1 DEF CountInv, FiresFarApart
  <2> DEFINE mi == m * Interval
             ki == k * Interval
  <2>3. mi \in Nat /\ ki \in Nat
    BY Product
  <2>4. First + mi <= fired[L] /\ o.at = First + ki
    BY <1>1, <1>3, <2>2
  <2> HIDE DEF mi, ki
  <2>5. First \in Nat /\ fired[L] \in Nat /\ fired[L] < o.at
    BY <1>1, <2>2
  <2>6. mi < ki
    BY <2>3, <2>4, <2>5
  <2>7. m < k
    BY <2>6, Fewer DEF mi, ki
  <2> QED BY <1>1, <1>2, <1>3, <2>1, <2>7
<1> QED BY <1>4, <1>5

\* The steps of the calls.
LEMMA CountCalls ==
    ASSUME OneArming, LockInv, OnceInv, CountInv, Repetitions # Infinite, NEW c \in Calls,
           CallStep(c) \/ AccessFails(c)
    PROVE  CountInv'
<1>i. /\ Inv /\ row \in RowsTyped /\ step[c] # "create" /\ c \notin Registers /\ c \notin Enables
      /\ asked[c] \in Nat /\ target[c] \in Pendings /\ target \in [Calls -> Pendings]
  BY StepOfCall DEF LockInv, Inv, StoresTyped, CallsSound, CallsTyped, NeverCreates, OneArming
<1>1. UNCHANGED <<fired, advances, started, mailbox>>
  BY DEF CallStep, AccessFails, Begin, Create, List, Relist, Lock, MarkEnabled, Persist, Cancel, Schedule,
         Clear, Store, Undo, Delete
<1>2. row'.pending = row.pending \/ OnCycle(row.pending)'
  <2>1. row' = row \/ (\E x : row' = [row EXCEPT !.enabled = x]) \/ (\E x : row' = [row EXCEPT !.ref = x])
        \/ (Persist(c) /\ row' = PersistedRow(c)) \/ row' = NoRow
    BY <1>i DEF CallStep, AccessFails, Begin, Create, List, Relist, Lock, MarkEnabled, Persist, Cancel,
                Schedule, Clear, Store, Undo, Delete
  <2>2. CASE row' = PersistedRow(c)
    <3>1. row'.pending = row.pending \/ row'.pending = target[c]
      BY <1>i, <2>2 DEF PersistedRow, RowsTyped
    <3> QED BY <3>1 DEF CountInv, OccurrencesOnCycle, OnCycle, First
  <2>3. CASE row' = NoRow
    BY <2>3, ExhaustedOnCycle DEF NoRow
  <2>4. ASSUME NEW x, row' = [row EXCEPT !.enabled = x] \/ row' = [row EXCEPT !.ref = x]
        PROVE  row'.pending = row.pending
    BY <1>i, <2>4 DEF RowsTyped
  <2>5. CASE row' = row
    BY <2>5
  <2>6. CASE (\E x : row' = [row EXCEPT !.enabled = x]) \/ (\E x : row' = [row EXCEPT !.ref = x])
    <3>1. row'.pending = row.pending
      BY <2>4, <2>6
    <3> QED BY <3>1
  <2> QED BY <2>1, <2>2, <2>3, <2>5, <2>6
<1>3. \A d \in Calls : target'[d] = target[d] \/ OnCycle(target'[d])
  <2>1. Leave(c) => \A d \in Calls : target'[d] = target[d] \/ target'[d] = Exhausted
    BY <1>i DEF Leave
  <2>2. \A s : Continue(c, s) => target' = target
    BY DEF Continue
  <2>3. \A s, o : Proceed(c, s, o) => \A d \in Calls : target'[d] = target[d] \/ target'[d] = o
    BY <1>i DEF Proceed
  <2>4. Reloadable(row) => OnCycle(SkipMissed(row.pending, asked[c]))
    <3>1. Reloadable(row) => row.pending \in Firing
      BY <1>i, ExhaustedTyped DEF Reloadable, RowsTyped, Pendings
    <3> QED BY <1>i, <3>1, SkipMissedOnCycle DEF CountInv, OccurrencesOnCycle
  <2>5. CASE Lock(c)
    <3>1. \/ Leave(c)
          \/ \E s : Proceed(c, s, Exhausted)
          \/ Reloadable(row) /\ \E s : Proceed(c, s, SkipMissed(row.pending, asked[c]))
      BY <1>i, <2>5 DEF Lock
    <3> QED BY <2>1, <2>3, <2>4, <3>1, ExhaustedOnCycle
  <2>6. CASE ~Lock(c)
    <3>1. Leave(c) \/ (\E s : Continue(c, s)) \/ UNCHANGED target
      BY <1>i, <2>6 DEF CallStep, AccessFails, Begin, Create, List, Relist, MarkEnabled, Persist, Cancel,
                        Schedule, Clear, Store, Undo, Delete
    <3> QED BY <2>1, <2>2, <3>1, ExhaustedOnCycle
  <2> QED BY <2>5, <2>6
<1>4. CASE entries' \subseteq entries
  BY <1>i, <1>1, <1>2, <1>3, <1>4, CountKept
<1>5. CASE ~(entries' \subseteq entries)
  <2>1. Schedule(c) /\ up /\ step[c] = "schedule" /\ entries' = entries \cup {[ref |-> c, pending |-> target[c]]}
    BY <1>5 DEF CallStep, AccessFails, Begin, Create, List, Relist, Lock, MarkEnabled, Persist, Cancel,
                Schedule, Clear, Store, Undo, Delete, EntriesWithout
  <2>2. target[c] # Exhausted /\ c \in Reloads
    BY <1>i, <2>1 DEF Inv, CallsSound, HasTarget, OnceInv, OnlyReloadsArm
  <2>3. PICK o \in Firing : o = target[c]
    BY <1>i, <2>2 DEF Pendings
  <2>4. entries = {} /\ \A i \in DOMAIN fired : fired[i] < o.at
    <3>1. entries = {} /\ asked[c] < o.at /\ \A i \in DOMAIN fired : fired[i] <= asked[c]
      BY <2>1, <2>2, <2>3 DEF OnceInv, ReloadKnows, Arming, Late
    <3>2. o.at \in Nat /\ \A i \in DOMAIN fired : fired[i] \in Nat
      BY <1>i, <2>3 DEF Firing, Inv, StoresTyped
    <3> QED BY <1>i, <3>1, <3>2
  <2>5. OnCycle(o) /\ Len(fired) + o.left <= Repetitions
    BY <1>i, <2>3, <2>4, BehindAllFires DEF CountInv, OccurrencesOnCycle
  <2>6. \A e \in entries' : e.pending = o
    BY <2>1, <2>3, <2>4
  <2>7. row' = row /\ target' = target
    BY <2>1 DEF Schedule, Continue
  <2>8. OccurrencesOnCycle'
    BY <1>1, <2>5, <2>6, <2>7 DEF CountInv, OccurrencesOnCycle, OnCycle, First
  <2>9. FiresCounted' /\ FiresFarApart'
    BY <1>1, <2>5, <2>6 DEF CountInv, FiresCounted, FiresFarApart
  <2> QED BY <2>8, <2>9 DEF CountInv
<1> QED BY <1>4, <1>5

\* A fire uses up one repetition.
LEMMA CountFire ==
    ASSUME LockInv, Single, CountInv, Repetitions # Infinite, Fire
    PROVE  CountInv'
<1>r. /\ Repetitions \in Nat /\ First \in Nat
      /\ entries \subseteq EntriesTyped /\ fired \in Seq(Nat) /\ mailbox \in Seq(Nat)
      /\ advances \in Seq(AdvancesTyped) /\ now \in Nat /\ started \in Nat
      /\ UNCHANGED <<row, target, started>>
  BY CountsAreNat, BoundsAssumption DEF LockInv, Inv, StoresTyped, CountsTyped, Fire, callVars
<1>1. PICK e \in entries :
        LET next == NextFutureFire(e.pending, now)
        IN  /\ e.pending.at <= now
            /\ entries' = (entries \ {e}) \cup
                   (IF next = Exhausted THEN {} ELSE {[e EXCEPT !.pending = next]})
            /\ advances' = Append(advances, [e EXCEPT !.pending = next])
            /\ mailbox' = Append(mailbox, e.pending.at)
            /\ fired' = Append(fired, e.pending.at)
  BY DEF Fire
<1> DEFINE next == NextFutureFire(e.pending, now)
           n == [e EXCEPT !.pending = next]
<1>2. e \in EntriesTyped /\ e.pending \in Firing /\ e.pending.at \in Nat /\ entries = {e}
  BY <1>r DEF EntriesTyped, Firing, Single
<1>3. OnCycle(e.pending) /\ e.pending.left \in Nat \ {0} /\ e.pending.left <= Repetitions
      /\ e.pending.at = First + (Repetitions - e.pending.left) * Interval
      /\ Len(fired) + e.pending.left <= Repetitions
  BY <1>2, ExhaustedTyped DEF CountInv, OccurrencesOnCycle, FiresCounted, OnCycle
<1>4. OnCycle(next) /\ (next # Exhausted => next.left < e.pending.left /\ next.left \in Nat)
  <2>1. OnCycle(next) /\ (next # Exhausted => next.left < e.pending.left)
    BY <1>2, <1>3, <1>r, NextFutureFireOnCycle
  <2> QED BY <2>1 DEF OnCycle
<1>5. next \in Pendings
  BY <1>2, <1>r, NextFutureFireTyped
<1>6. n \in AdvancesTyped /\ n.pending = next
  BY <1>2, <1>5 DEF EntriesTyped, AdvancesTyped
<1>7. advances' = Append(advances, n) /\ \A d \in entries' : d = n /\ next # Exhausted
  BY <1>1, <1>2
<1> HIDE DEF next, n
<1>8. PICK L \in Nat : L = Len(fired) /\ DOMAIN fired = 1 .. L
  BY <1>r
<1>9. Len(fired') = L + 1 /\ DOMAIN fired' = 1 .. L + 1 /\ fired'[L + 1] = e.pending.at
      /\ \A i \in 1 .. L : fired'[i] = fired[i]
  BY <1>r, <1>1, <1>2, <1>8
<1>10. \A i \in DOMAIN advances' : OnCycle(advances'[i].pending)
  <2>1. \A i \in DOMAIN advances' : advances'[i] = n \/ (i \in DOMAIN advances /\ advances'[i] = advances[i])
    BY <1>r, <1>6, <1>7
  <2> QED BY <1>4, <1>6, <2>1 DEF CountInv, OccurrencesOnCycle
<1>11. OccurrencesOnCycle'
  BY <1>r, <1>4, <1>6, <1>7, <1>10 DEF CountInv, OccurrencesOnCycle, OnCycle, First
<1>12. FiresFarApart'
  <2>1. PICK k \in Nat : k = Repetitions - e.pending.left
    BY <1>3, <1>r
  <2>2. L <= k
    BY <1>3, <1>8, <1>r, <2>1
  <2>3. L * Interval <= k * Interval /\ L * Interval \in Nat /\ k * Interval \in Nat
    BY <2>2, NoFewer, Product
  <2>4. First + L * Interval <= e.pending.at
    BY <1>3, <1>r, <2>1, <2>3
  <2>5. First' + (L + 1 - 1) * Interval <= fired'[L + 1]
    <3>1. L + 1 - 1 = L /\ First' = First
      BY DEF First
    <3> QED BY <1>9, <2>4, <3>1
  <2>6. \A i \in 1 .. L + 1 : i = L + 1 \/ i \in 1 .. L
    OBVIOUS
  <2> QED BY <1>8, <1>9, <2>5, <2>6 DEF CountInv, FiresFarApart, First
<1>13. FiresCounted'
  <2>1. ASSUME NEW d \in entries' PROVE L + 1 + d.pending.left <= Repetitions
    <3>1. d.pending = next /\ next.left \in Nat /\ next.left < e.pending.left
      BY <1>4, <1>6, <1>7
    <3>2. L + e.pending.left <= Repetitions
      BY <1>3, <1>8
    <3>3. L + 1 + next.left <= Repetitions
      BY <1>3, <1>r, <3>1, <3>2
    <3> QED BY <3>1, <3>3
  <2>2. L + 1 <= Repetitions
    BY <1>3, <1>8, <1>r
  <2>3. Len(mailbox') = Len(mailbox) + 1 /\ Len(mailbox) \in Nat
    BY <1>1, <1>2, <1>r
  <2>4. started' + Len(mailbox') <= L + 1
    BY <1>8, <1>r, <2>3 DEF CountInv, FiresCounted
  <2> QED BY <1>9, <2>1, <2>2, <2>4 DEF FiresCounted
<1> QED BY <1>11, <1>12, <1>13 DEF CountInv

\* Everything else.
LEMMA CountEnvironment ==
    ASSUME LockInv, CountInv, Repetitions # Infinite,
           \/ Advance \/ Check \/ Start \/ ListenerCrash \/ Crash \/ Tick \/ UNCHANGED vars
           \/ \E c \in Calls : Restart(c) \/ Reboot(c)
    PROVE  CountInv'
<1>i. Inv /\ row \in RowsTyped /\ advances \in Seq(AdvancesTyped)
  BY DEF LockInv, Inv, StoresTyped
<1>1. CASE Advance
  <2>1. advances # <<>> /\ UNCHANGED <<fired, entries, target, started, mailbox>> /\ advances' = Tail(advances)
    BY <1>1 DEF Advance, callVars
  <2>2. 1 \in DOMAIN advances /\ Head(advances) = advances[1]
    BY <1>i, <2>1
  <2>3. row' = row \/ row' = [row EXCEPT !.pending = Head(advances).pending]
    BY <1>1 DEF Advance
  <2>4. row'.pending = row.pending \/ row'.pending = advances[1].pending
    BY <1>i, <2>2, <2>3 DEF RowsTyped
  <2>5. row'.pending = row.pending \/ OnCycle(row.pending)'
    BY <2>2, <2>4 DEF CountInv, OccurrencesOnCycle, OnCycle, First
  <2> QED BY <1>i, <2>1, <2>5, CountKept
<1>2. CASE Check
  <2>1. /\ UNCHANGED <<row, fired, entries, advances, target, started>> /\ mailbox # <<>>
        /\ mailbox' = mailbox \/ mailbox' = Tail(mailbox)
    BY <1>2 DEF Check, callVars
  <2> QED BY <1>i, <2>1, CountKept
<1>3. CASE Start
  <2>1. /\ UNCHANGED <<row, fired, entries, advances, target>> /\ mailbox # <<>>
        /\ mailbox' = Tail(mailbox) /\ started' \in {started, started + 1}
    BY <1>3, <1>i DEF Start, callVars, Inv, StoresTyped
  <2> QED BY <1>i, <2>1, CountKept
<1>4. CASE ListenerCrash
  BY <1>4, <1>i, CountKept DEF ListenerCrash, callVars
<1>5. CASE Crash
  BY <1>5, <1>i, CountKept DEF Crash, callVars
<1>6. CASE Tick \/ UNCHANGED vars
  BY <1>6, <1>i, CountKept DEF Tick, vars, callVars
<1>7. ASSUME NEW c \in Calls, Restart(c) PROVE CountInv'
  BY <1>7, <1>i, CountKept DEF Restart
<1>8. ASSUME NEW c \in Calls, Reboot(c) PROVE CountInv'
  BY <1>8, <1>i, CountKept, ExhaustedOnCycle DEF Reboot
<1> QED BY <1>1, <1>2, <1>3, <1>4, <1>5, <1>6, <1>7, <1>8

LEMMA CountStep ==
    OneArming /\ LockInv /\ Single /\ OnceInv /\ Counted /\ [Next]_vars => Counted'
<1> SUFFICES ASSUME OneArming, LockInv, Single, OnceInv, CountInv, [Next]_vars, Repetitions # Infinite
             PROVE  CountInv'
  BY DEF Counted
<1> QED BY CountCalls, CountFire, CountEnvironment DEF Next

\* A cycle of R<n> starts at most n process instances, however long the
\* Scheduler or the engine was down and however many of its writes failed: the
\* occurrences it slept through count as used up. Said of one reload, as above.
THEOREM RepetitionsBound == OneArming => (Spec => []StartsWithinRepetitions)
<1>1. LockInv /\ Counted => StartsWithinRepetitions
  <2> SUFFICES ASSUME LockInv, CountInv, Repetitions # Infinite PROVE started <= Repetitions
    BY DEF Counted, StartsWithinRepetitions
  <2>1. Repetitions \in Nat /\ started \in Nat /\ Len(mailbox) \in Nat /\ Len(fired) \in Nat
    BY CountsAreNat DEF LockInv, Inv, StoresTyped, CountsTyped
  <2>2. started + Len(mailbox) <= Len(fired) /\ Len(fired) <= Repetitions
    BY DEF CountInv, FiresCounted
  <2> QED BY <2>1, <2>2
<1> SUFFICES ASSUME OneArming PROVE Spec => []StartsWithinRepetitions
  OBVIOUS
<1>2. LockInv /\ [Next]_vars => LockInv'
  BY LockStep DEF OneArming
<1>3. LockInv /\ Single /\ OnceInv /\ [Next]_vars => OnceInv'
  BY OnceStep
<1>4. LockInv /\ Single /\ OnceInv /\ Counted /\ [Next]_vars => Counted'
  BY CountStep
<1> QED BY <1>1, <1>2, <1>3, <1>4, LockInit, SingleInit, SingleStep, OnceInit, CountInit, PTL DEF Spec
=============================================================================
