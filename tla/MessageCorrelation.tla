------------------------- MODULE MessageCorrelation -------------------------
(***************************************************************************)
(* BPMN message correlation on one node, for one (message name,            *)
(* correlation value) key: the in-memory registry of waiting handlers      *)
(* (Events.MessageSubscriptions), the publisher (Events.MessagePublisher), *)
(* the durable buffer of unmatched messages with its sweeper               *)
(* (Persistence.MessagePersistenceAdapter, Events.PendingSweeper) and the  *)
(* cancel marks a process instance sets (Events.CancelledFlowNodeInstances)*)
(*                                                                         *)
(* Nothing here runs under a lock. Every handler, every publisher, the     *)
(* sweeper and every cancelling process instance is an actor of its own,   *)
(* and each atomic access to an ETS table or to a database row is one      *)
(* step, so that all of their interleavings are behaviours of the model.   *)
(* Keys never interact: registry, buffer and cleanup are all looked up by  *)
(* (name, correlation), so one key is modelled.                            *)
(***************************************************************************)
EXTENDS Naturals, Sequences

CONSTANTS
    Catchers,          \* catch events and receive tasks: one message, then done
    Boundaries,        \* non-interrupting boundary events: register again after a fire
    EspStarts,         \* event subprocess message starts: never claimed
    Messages,          \* published messages; each is published by an actor of its own
    NoMessage,
    MaxRegistrations,  \* bound on the registrations of one boundary event
    DrainAttempts,     \* @drain_attempts
    KeepRows,          \* :pending_messages_keep_after_transition
    MaxFaults          \* bound on failing database writes

Handlers == Catchers \cup Boundaries       \* handler Tasks, claimed before delivery
Waiters  == Handlers \cup EspStarts

ASSUME WaitersDisjoint ==
    /\ Catchers \cap Boundaries = {}
    /\ Handlers \cap EspStarts = {}
ASSUME NoMessageAssumption == NoMessage \notin Messages
ASSUME BoundsAssumption ==
    /\ MaxRegistrations \in Nat \ {0}
    /\ DrainAttempts \in Nat \ {0}
    /\ MaxFaults \in Nat
    /\ KeepRows \in BOOLEAN

\* A subscription is named by its waiter and the count of its registrations
\* (the code draws a random id).
Subscriptions == [waiter : Waiters, number : 1 .. MaxRegistrations]

VARIABLES
    \* the registry and the cancel marks (ETS tables)
    registry,    \* the subscriptions present
    marked,      \* waiters with a cancel mark
    released,    \* waiters whose cancelling process instance has swept the registry
    \* the waiters
    alive,
    wpc,         \* where each waiter is
    number,      \* its current registration
    attempts,    \* attempts its drain has left
    row,         \* the pending row its drain found
    inbox,       \* its mailbox
    \* the publishers, one per message
    ppc,
    snapshot,    \* subscriptions it looked up
    tierOne,     \* one-shot subscriptions it has yet to claim
    espTier,     \* event subprocess starts it found
    claimed,     \* claimed, not yet sent to
    orphans,     \* pending rows it has read and will expire
    \* the durable buffer and its sweeper
    published,   \* messages in the order of published_at
    rowState,    \* state of each message's row
    overdue,     \* rows whose expires_at has passed
    sweeping,    \* rows the sweeper has read and will expire
    faults,
    \* what the outside sees
    sent,        \* <<message, subscription>> for every delivery sent
    started      \* messages that started a new process instance

registryVars  == <<registry, marked, released>>
waiterVars    == <<alive, wpc, number, attempts, row>>
publisherVars == <<ppc, snapshot, tierOne, espTier, claimed, orphans>>
bufferVars    == <<published, rowState, overdue, sweeping>>
vars == <<registryVars, waiterVars, inbox, publisherVars, bufferVars, faults, sent, started>>

WaiterSteps == {"idle", "insert", "recheck", "find", "claim", "mark", "send",
                "reinsert", "park", "waiting", "done"}
PublisherSteps == {"idle", "lookup", "split", "claim", "send", "esp", "start",
                   "resolve", "cancel", "done"}
RowStates == {"none", "pending", "delivered", "expired", "gone"}

RegistryTyped ==
    /\ registry \subseteq Subscriptions
    /\ marked \subseteq Handlers
    /\ released \subseteq marked

WaitersTyped ==
    /\ alive \subseteq Waiters
    /\ wpc \in [Waiters -> WaiterSteps]
    /\ number \in [Waiters -> 0 .. MaxRegistrations]
    /\ attempts \in [Waiters -> 0 .. DrainAttempts]
    /\ row \in [Waiters -> Messages \cup {NoMessage}]

InboxTyped == inbox \in [Waiters -> Seq(Messages)]

PublishersTyped ==
    /\ ppc \in [Messages -> PublisherSteps]
    /\ snapshot \in [Messages -> SUBSET Subscriptions]
    /\ tierOne \in [Messages -> SUBSET Subscriptions]
    /\ espTier \in [Messages -> SUBSET Subscriptions]
    /\ claimed \in [Messages -> SUBSET Subscriptions]
    /\ orphans \in [Messages -> SUBSET Messages]

BufferTyped ==
    /\ published \in Seq(Messages)
    /\ rowState \in [Messages -> RowStates]
    /\ overdue \subseteq Messages
    /\ sweeping \subseteq Messages

OutcomeTyped ==
    /\ faults \in 0 .. MaxFaults
    /\ sent \subseteq Messages \X Subscriptions
    /\ started \subseteq Messages

TypeOK ==
    /\ RegistryTyped /\ WaitersTyped /\ InboxTyped
    /\ PublishersTyped /\ BufferTyped /\ OutcomeTyped

Init ==
    /\ registry = {} /\ marked = {} /\ released = {}
    /\ alive = Waiters
    /\ wpc = [w \in Waiters |-> "idle"]
    /\ number = [w \in Waiters |-> 0]
    /\ attempts = [w \in Waiters |-> 0]
    /\ row = [w \in Waiters |-> NoMessage]
    /\ inbox = [w \in Waiters |-> <<>>]
    /\ ppc = [m \in Messages |-> "idle"]
    /\ snapshot = [m \in Messages |-> {}]
    /\ tierOne = [m \in Messages |-> {}]
    /\ espTier = [m \in Messages |-> {}]
    /\ claimed = [m \in Messages |-> {}]
    /\ orphans = [m \in Messages |-> {}]
    /\ published = <<>>
    /\ rowState = [m \in Messages |-> "none"]
    /\ overdue = {} /\ sweeping = {}
    /\ faults = 0
    /\ sent = {} /\ started = {}

-----------------------------------------------------------------------------
(* Shared by the actors.                                                   *)

Subscription(w) == [waiter |-> w, number |-> number[w]]

Goto(w, step) == wpc' = [wpc EXCEPT ![w] = step]

\* Process.alive?(via_pid) and not cancelled?(flow_node_instance_id)
Deliverable(s) == s.waiter \in alive /\ s.waiter \notin marked

\* Mutated forms of operators below, each a plausible bug.
ClaimWinsAlways(s) == TRUE
AfterFailedMarkForgets(w) == "park"
EspStepFallsThrough(starts) == "start"
ReleaseBeforeMark(w) ==
    /\ w \in Handlers \ released /\ wpc[w] # "done"
    /\ released' = released \cup {w}
    /\ registry' = {s \in registry : s.waiter # w}
    /\ UNCHANGED <<marked, waiterVars, inbox, publisherVars, bufferVars, faults,
                   sent, started>>

\* claim/1: an atomic select_delete; only the caller that removed the
\* subscription has it.
ClaimWins(s) == s \in registry

\* send/2: a message to a dead process vanishes, and still counts as sent.
Deliver(m, subs) ==
    /\ sent' = sent \cup {<<m, s>> : s \in subs}
    /\ inbox' = [w \in Waiters |->
                   IF w \in alive /\ \E s \in subs : s.waiter = w
                   THEN Append(inbox[w], m) ELSE inbox[w]]

\* mark_delivered is conditional on the row being pending.
Markable(m) == rowState[m] = "pending"

PendingRows == {m \in Messages : rowState[m] = "pending"}

Before(m, k) == \E i, j \in DOMAIN published :
                    i < j /\ published[i] = m /\ published[j] = k

\* find_pending_messages: the oldest pending row inside its TTL.
OldestPending ==
    {m \in PendingRows \ overdue : \A k \in PendingRows \ overdue : ~Before(k, m)}

\* transition_pending_message(record, :mark_expired): the update has no
\* condition on the row's state, the delete that replaces it when rows are not
\* kept has one.
ExpireRow(m) ==
    rowState' = IF KeepRows THEN [rowState EXCEPT ![m] = "expired"]
                ELSE IF rowState[m] = "pending" THEN [rowState EXCEPT ![m] = "gone"]
                ELSE rowState

-----------------------------------------------------------------------------
(* A waiter registers, and drains at most one pending message.             *)

Register(w) ==
    /\ w \in alive /\ wpc[w] = "idle" /\ number[w] < MaxRegistrations
    /\ number' = [number EXCEPT ![w] = @ + 1]
    /\ Goto(w, IF w \in marked THEN "park" ELSE "insert")
    /\ UNCHANGED <<registryVars, alive, attempts, row, inbox, publisherVars,
                   bufferVars, faults, sent, started>>

Insert(w) ==
    /\ w \in alive /\ wpc[w] = "insert"
    /\ registry' = registry \cup {Subscription(w)}
    /\ Goto(w, "recheck")
    /\ UNCHANGED <<marked, released, alive, number, attempts, row, inbox,
                   publisherVars, bufferVars, faults, sent, started>>

\* The mark may have landed between the check in Register and the insert.
Recheck(w) ==
    /\ w \in alive /\ wpc[w] = "recheck"
    /\ IF w \in marked
       THEN /\ registry' = registry \ {Subscription(w)}
            /\ Goto(w, "park")
            /\ UNCHANGED attempts
       ELSE /\ Goto(w, "find")
            /\ attempts' = [attempts EXCEPT ![w] = DrainAttempts]
            /\ UNCHANGED registry
    /\ UNCHANGED <<marked, released, alive, number, row, inbox, publisherVars,
                   bufferVars, faults, sent, started>>

FindPending(w) ==
    /\ w \in alive /\ wpc[w] = "find"
    /\ \/ /\ OldestPending = {}
          /\ Goto(w, "park")
          /\ UNCHANGED row
       \/ \E m \in OldestPending :
            /\ row' = [row EXCEPT ![w] = m]
            /\ Goto(w, IF w \in EspStarts THEN "mark" ELSE "claim")
    /\ UNCHANGED <<registryVars, alive, number, attempts, inbox, publisherVars,
                   bufferVars, faults, sent, started>>

\* The drain takes its own subscription out of the registry first, so that no
\* publisher can deliver a second message to it; whoever removes it has it.
ClaimOwn(w) ==
    /\ w \in alive /\ wpc[w] = "claim"
    /\ Goto(w, IF ClaimWins(Subscription(w)) THEN "mark" ELSE "park")
    /\ registry' = registry \ {Subscription(w)}
    /\ UNCHANGED <<marked, released, alive, number, attempts, row, inbox,
                   publisherVars, bufferVars, faults, sent, started>>

\* Where a drain goes when its row could not be marked.
AfterFailedMark(w) == IF w \in EspStarts THEN "park" ELSE "reinsert"

MarkDelivered(w) ==
    /\ w \in alive /\ wpc[w] = "mark"
    /\ IF Markable(row[w])
       THEN /\ rowState' = [rowState EXCEPT ![row[w]] =
                              IF KeepRows THEN "delivered" ELSE "gone"]
            /\ Goto(w, "send")
       ELSE /\ Goto(w, AfterFailedMark(w))
            /\ UNCHANGED rowState
    /\ UNCHANGED <<registryVars, alive, number, attempts, row, inbox, publisherVars,
                   published, overdue, sweeping, faults, sent, started>>

\* The update fails: the database is gone for the three attempts, or the first
\* attempt committed, its answer was lost, and the retry finds the row taken.
MarkFails(w) ==
    /\ w \in alive /\ wpc[w] = "mark" /\ faults < MaxFaults
    /\ faults' = faults + 1
    /\ \/ UNCHANGED rowState
       \/ /\ Markable(row[w])
          /\ rowState' = [rowState EXCEPT ![row[w]] =
                            IF KeepRows THEN "delivered" ELSE "gone"]
    /\ Goto(w, AfterFailedMark(w))
    /\ UNCHANGED <<registryVars, alive, number, attempts, row, inbox, publisherVars,
                   published, overdue, sweeping, sent, started>>

SendDrained(w) ==
    /\ w \in alive /\ wpc[w] = "send"
    /\ Deliver(row[w], {Subscription(w)})
    /\ row' = [row EXCEPT ![w] = NoMessage]
    /\ attempts' = [attempts EXCEPT ![w] = 0]
    /\ Goto(w, "park")
    /\ UNCHANGED <<registryVars, alive, number, publisherVars,
                   bufferVars, faults, started>>

RetriesLeft(w) == attempts[w] > 1

Reinsert(w) ==
    /\ w \in alive /\ wpc[w] = "reinsert"
    /\ registry' = registry \cup {Subscription(w)}
    /\ IF RetriesLeft(w)
       THEN Goto(w, "find") /\ attempts' = [attempts EXCEPT ![w] = @ - 1]
       ELSE Goto(w, "park") /\ UNCHANGED attempts
    /\ UNCHANGED <<marked, released, alive, number, row, inbox, publisherVars,
                   bufferVars, faults, sent, started>>

\* The handler persists that it waits; when it cannot, it unregisters and fails.
Park(w) ==
    /\ w \in alive /\ wpc[w] = "park"
    /\ \/ /\ Goto(w, "waiting")
          /\ UNCHANGED <<registry, faults>>
       \/ /\ w \in Handlers /\ faults < MaxFaults
          /\ faults' = faults + 1
          /\ registry' = registry \ {Subscription(w)}
          /\ Goto(w, "done")
    /\ UNCHANGED <<marked, released, alive, number, attempts, row, inbox,
                   publisherVars, bufferVars, sent, started>>

\* The receive of a waiting handler. A catch event is done; a non-interrupting
\* boundary event fires and registers again.
Receive(w) ==
    /\ w \in alive \cap Handlers /\ wpc[w] = "waiting" /\ inbox[w] # <<>>
    /\ inbox' = [inbox EXCEPT ![w] = Tail(@)]
    /\ registry' = registry \ {Subscription(w)}
    /\ Goto(w, IF w \in Boundaries THEN "idle" ELSE "done")
    /\ UNCHANGED <<marked, released, alive, number, attempts, row, publisherVars,
                   bufferVars, faults, sent, started>>

-----------------------------------------------------------------------------
(* A process instance cancels a handler: mark, then unregister. The Task   *)
(* is killed before (release_handler's callers) or still running (the      *)
(* loser of an event-based gateway), and its process can die at any time.  *)

Mark(w) ==
    /\ w \in Handlers \ marked /\ wpc[w] # "done"
    /\ marked' = marked \cup {w}
    /\ UNCHANGED <<registry, released, waiterVars, inbox, publisherVars,
                   bufferVars, faults, sent, started>>

Release(w) ==
    /\ w \in marked \ released
    /\ released' = released \cup {w}
    /\ registry' = {s \in registry : s.waiter # w}
    /\ UNCHANGED <<marked, waiterVars, inbox, publisherVars, bufferVars, faults,
                   sent, started>>

\* A handler that has finished is no longer there to die or to be cancelled.
Die(w) ==
    /\ w \in alive /\ wpc[w] \notin {"idle", "done"}
    /\ alive' = alive \ {w}
    /\ UNCHANGED <<registryVars, wpc, number, attempts, row, inbox, publisherVars,
                   bufferVars, faults, sent, started>>

-----------------------------------------------------------------------------
(* publish_message, run by the caller's process.                           *)

Publish(m) ==
    /\ ppc[m] = "idle"
    /\ ppc' = [ppc EXCEPT ![m] = "lookup"]
    /\ published' = Append(published, m)
    /\ UNCHANGED <<registryVars, waiterVars, inbox, snapshot, tierOne, espTier, claimed,
                   orphans, rowState, overdue, sweeping, faults, sent, started>>

Lookup(m) ==
    /\ ppc[m] = "lookup"
    /\ ppc' = [ppc EXCEPT ![m] = "split"]
    /\ snapshot' = [snapshot EXCEPT ![m] = registry]
    /\ UNCHANGED <<registryVars, waiterVars, inbox, tierOne, espTier, claimed,
                   orphans, bufferVars, faults, sent, started>>

\* Where the publisher goes while it has subscriptions left to claim, and after.
ClaimStep(toClaim, won) ==
    IF toClaim # {} THEN "claim" ELSE IF won # {} THEN "send" ELSE "esp"

\* Dead and cancelled waiters are pruned; the others are split into tiers.
Split(m) ==
    /\ ppc[m] = "split"
    /\ LET live == {s \in snapshot[m] : Deliverable(s)}
           oneShot == {s \in live : s.waiter \in Handlers}
       IN  /\ registry' = registry \ (snapshot[m] \ live)
           /\ tierOne' = [tierOne EXCEPT ![m] = oneShot]
           /\ espTier' = [espTier EXCEPT ![m] = live \ oneShot]
           /\ ppc' = [ppc EXCEPT ![m] = ClaimStep(oneShot, {})]
    /\ snapshot' = [snapshot EXCEPT ![m] = {}]
    /\ UNCHANGED <<marked, released, waiterVars, inbox, claimed, orphans,
                   bufferVars, faults, sent, started>>

\* Every one-shot subscription is claimed before the first delivery is sent.
ClaimOne(m) ==
    /\ ppc[m] = "claim"
    /\ \E s \in tierOne[m] :
         LET won == IF ClaimWins(s) THEN claimed[m] \cup {s} ELSE claimed[m]
             rest == tierOne[m] \ {s}
         IN  /\ registry' = registry \ {s}
             /\ claimed' = [claimed EXCEPT ![m] = won]
             /\ tierOne' = [tierOne EXCEPT ![m] = rest]
             /\ ppc' = [ppc EXCEPT ![m] = ClaimStep(rest, won)]
    /\ UNCHANGED <<marked, released, waiterVars, inbox, snapshot, espTier, orphans,
                   bufferVars, faults, sent, started>>

SendOne(m) ==
    /\ ppc[m] = "send"
    /\ \E s \in claimed[m] :
         /\ Deliver(m, {s})
         /\ claimed' = [claimed EXCEPT ![m] = @ \ {s}]
         /\ ppc' = [ppc EXCEPT ![m] = IF claimed[m] = {s} THEN "resolve" ELSE "send"]
    /\ UNCHANGED <<registryVars, waiterVars, snapshot, tierOne, espTier, orphans,
                   bufferVars, faults, started>>

\* Tier 2, reached only when tier 1 delivered nothing. Not claimed: the
\* subscription may have been removed since the lookup.
EspStep(starts) == IF starts = {} THEN "start" ELSE "resolve"

SendEspStarts(m) ==
    /\ ppc[m] = "esp"
    /\ Deliver(m, espTier[m])
    /\ ppc' = [ppc EXCEPT ![m] = EspStep(espTier[m])]
    /\ espTier' = [espTier EXCEPT ![m] = {}]
    /\ UNCHANGED <<registryVars, waiterVars, snapshot, tierOne, claimed,
                   orphans, bufferVars, faults, started>>

\* Tier 3: the message start handler starts process instances, or has none to
\* start (which processes are deployed and enabled is not modelled).
StartProcesses(m) ==
    /\ ppc[m] = "start"
    /\ started' \in {started, started \cup {m}}
    /\ ppc' = [ppc EXCEPT ![m] = "resolve"]
    /\ UNCHANGED <<registryVars, waiterVars, inbox, snapshot, tierOne, espTier,
                   claimed, orphans, bufferVars, faults, sent>>

HasRecipients(m) == m \in started \/ \E s \in Subscriptions : <<m, s>> \in sent

\* With recipients the publisher reads the pending rows of the key, to expire
\* them one by one; with none it buffers its own message. A failing insert is
\* logged and ignored.
ResolvePending(m) ==
    /\ ppc[m] = "resolve"
    /\ \/ /\ HasRecipients(m)
          /\ orphans' = [orphans EXCEPT ![m] = PendingRows]
          /\ ppc' = [ppc EXCEPT ![m] = IF PendingRows = {} THEN "done" ELSE "cancel"]
          /\ UNCHANGED <<rowState, faults>>
       \/ /\ ~HasRecipients(m)
          /\ \/ /\ rowState' = [rowState EXCEPT ![m] = "pending"]
                /\ UNCHANGED faults
             \/ /\ faults < MaxFaults
                /\ faults' = faults + 1
                /\ UNCHANGED rowState
          /\ ppc' = [ppc EXCEPT ![m] = "done"]
          /\ UNCHANGED orphans
    /\ UNCHANGED <<registryVars, waiterVars, inbox, snapshot, tierOne, espTier,
                   claimed, published, overdue, sweeping, sent, started>>

CancelOrphan(m) ==
    /\ ppc[m] = "cancel"
    /\ \E k \in orphans[m] :
         /\ ExpireRow(k)
         /\ orphans' = [orphans EXCEPT ![m] = @ \ {k}]
         /\ ppc' = [ppc EXCEPT ![m] = IF orphans[m] = {k} THEN "done" ELSE "cancel"]
    /\ UNCHANGED <<registryVars, waiterVars, inbox, snapshot, tierOne, espTier,
                   claimed, published, overdue, sweeping, faults, sent, started>>

-----------------------------------------------------------------------------
(* Time and the sweeper.                                                   *)

\* A row's TTL passes. All rows have the same TTL, so the oldest goes first.
PassTtl ==
    /\ \E m \in OldestPending : overdue' = overdue \cup {m}
    /\ UNCHANGED <<registryVars, waiterVars, inbox, publisherVars, published,
                   rowState, sweeping, faults, sent, started>>

SweepRead ==
    /\ sweeping = {} /\ PendingRows \cap overdue # {}
    /\ sweeping' = PendingRows \cap overdue
    /\ UNCHANGED <<registryVars, waiterVars, inbox, publisherVars, published,
                   rowState, overdue, faults, sent, started>>

SweepOne ==
    /\ \E m \in sweeping : ExpireRow(m) /\ sweeping' = sweeping \ {m}
    /\ UNCHANGED <<registryVars, waiterVars, inbox, publisherVars, published,
                   overdue, faults, sent, started>>

-----------------------------------------------------------------------------
Waiter(w) ==
    \/ Register(w) \/ Insert(w) \/ Recheck(w) \/ FindPending(w) \/ ClaimOwn(w)
    \/ MarkDelivered(w) \/ MarkFails(w) \/ SendDrained(w) \/ Reinsert(w)
    \/ Park(w) \/ Receive(w)

Publisher(m) ==
    \/ Publish(m) \/ Lookup(m) \/ Split(m) \/ ClaimOne(m) \/ SendOne(m)
    \/ SendEspStarts(m) \/ StartProcesses(m) \/ ResolvePending(m) \/ CancelOrphan(m)

Cancel(w) == Mark(w) \/ Release(w) \/ Die(w)

Sweeper == SweepRead \/ SweepOne

Next ==
    \/ \E w \in Waiters : Waiter(w) \/ Cancel(w)
    \/ \E m \in Messages : Publisher(m)
    \/ PassTtl \/ Sweeper

Spec == Init /\ [][Next]_vars

-----------------------------------------------------------------------------
(* Properties.                                                             *)

\* The messages a subscription has been sent, and those a publisher or its own
\* drain will still send it.
Received(s) == {m \in Messages : <<m, s>> \in sent}
Coming(s) ==
    {m \in Messages : s \in claimed[m]}
        \cup IF wpc[s.waiter] = "send" /\ Subscription(s.waiter) = s
             THEN {row[s.waiter]} ELSE {}

\* A one-shot subscription takes at most one message, whoever races for it: two
\* publishers, or a publisher and the subscription's own drain
\* (MessageSubscriptions.claim/1).
OneMessagePerSubscription ==
    \A s \in Subscriptions :
        s.waiter \in Handlers =>
            \A m, k \in Received(s) \cup Coming(s) : m = k

\* A handler that waits has a message, or is about to be sent one, or can still
\* be found in the registry: no race of claims, prunes and re-insertions leaves
\* a live, uncancelled handler waiting for a message that cannot reach it.
NoDeafWaiter ==
    \A w \in (alive \cap Handlers) \ marked :
        wpc[w] = "waiting" /\ inbox[w] = <<>> =>
            \/ Subscription(w) \in registry
            \/ Coming(Subscription(w)) # {}

\* The message is in the buffer, or a drain has taken its row and not yet sent it.
HeldNow(m) ==
    \/ rowState[m] = "pending"
    \/ \E w \in Waiters : wpc[w] = "send" /\ row[w] = m

Delivery == INSTANCE MessageDelivery WITH
    OneShot <- {s \in Subscriptions : s.waiter \in Handlers},
    taken   <- sent,
    held    <- [m \in Messages |-> IF HeldNow(m) THEN "held"
                                   ELSE IF rowState[m] = "none" THEN "no" ELSE "over"]

\* The actors together keep the promise of MessageDelivery: the three tiers of a
\* publication exclude one another, a buffered message reaches one subscription
\* and a one-shot subscription takes one message.
DeliveryKept == Delivery!Spec

\* stamp_pending_cancel's comment: a gateway loser whose handler is still entering
\* takes no message once it is marked and its subscriptions are removed.
CancelledTakesNoPending ==
    [][\A w \in released : wpc[w] = "claim" => wpc'[w] # "mark"]_vars
=============================================================================
