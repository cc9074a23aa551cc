---------------------- MODULE MessageCorrelation_proofs ----------------------
(***************************************************************************)
(* What is proved of MessageCorrelation for every set of waiters and       *)
(* messages and every bound: its types, that a one-shot subscription takes *)
(* one message, who hears what, and, in the second half, that registry,    *)
(* claims, rows and the sweeper together implement MessageDelivery.        *)
(***************************************************************************)
EXTENDS MessageCorrelation, TLAPS

\* Beside its type: a waiter past its first registration has a subscription,
\* and a drain that works on a row has one.
WaiterSound ==
    \A w \in Waiters :
        /\ wpc[w] # "idle" => number[w] >= 1
        /\ wpc[w] \in {"claim", "mark", "send"} => row[w] \in Messages

Typed == TypeOK /\ WaiterSound

\* A waiter that has registered names a subscription.
LEMMA SubscriptionTyped ==
    ASSUME WaitersTyped, WaiterSound, NEW w \in Waiters, wpc[w] # "idle"
    PROVE  Subscription(w) \in Subscriptions
BY BoundsAssumption DEF WaitersTyped, WaiterSound, Subscription, Subscriptions

\* A part of the state that a step leaves alone keeps its type.
LEMMA RegistryUnchanged == RegistryTyped /\ UNCHANGED registryVars => RegistryTyped'
BY DEF RegistryTyped, registryVars

LEMMA WaitersUnchanged ==
    WaitersTyped /\ WaiterSound /\ UNCHANGED waiterVars => WaitersTyped' /\ WaiterSound'
BY DEF WaitersTyped, WaiterSound, waiterVars

LEMMA InboxUnchanged == InboxTyped /\ UNCHANGED inbox => InboxTyped'
BY DEF InboxTyped

LEMMA PublishersUnchanged == PublishersTyped /\ UNCHANGED publisherVars => PublishersTyped'
BY DEF PublishersTyped, publisherVars

LEMMA BufferUnchanged == BufferTyped /\ UNCHANGED bufferVars => BufferTyped'
BY DEF BufferTyped, bufferVars

LEMMA OutcomeUnchanged == OutcomeTyped /\ UNCHANGED <<faults, sent, started>> => OutcomeTyped'
BY DEF OutcomeTyped

\* A delivery is well typed.
LEMMA DeliverTyped ==
    ASSUME InboxTyped, OutcomeTyped, NEW m \in Messages, NEW subs \in SUBSET Subscriptions,
           Deliver(m, subs)
    PROVE  InboxTyped' /\ sent' \subseteq Messages \X Subscriptions
<1>1. InboxTyped'
  BY DEF InboxTyped, Deliver
<1>2. \A s \in subs : <<m, s>> \in Messages \X Subscriptions
  OBVIOUS
<1>3. sent' \subseteq Messages \X Subscriptions
  BY <1>2 DEF OutcomeTyped, Deliver
<1> QED BY <1>1, <1>3

LEMMA TypedInit == Init => Typed
<1> SUFFICES ASSUME Init PROVE Typed
  OBVIOUS
<1> USE BoundsAssumption DEF Init
<1>1. RegistryTyped
  BY DEF RegistryTyped
<1>2. WaitersTyped /\ WaiterSound
  BY DEF WaitersTyped, WaiterSound, WaiterSteps
<1>3. InboxTyped
  BY DEF InboxTyped
<1>4. PublishersTyped
  BY DEF PublishersTyped, PublisherSteps
<1>5. BufferTyped
  BY DEF BufferTyped, RowStates
<1>6. OutcomeTyped
  BY DEF OutcomeTyped
<1> QED BY <1>1, <1>2, <1>3, <1>4, <1>5, <1>6 DEF Typed, TypeOK

LEMMA TypedStep == Typed /\ [Next]_vars => Typed'
<1> SUFFICES ASSUME Typed, [Next]_vars PROVE Typed'
  OBVIOUS
<1> USE WaitersDisjoint, NoMessageAssumption, BoundsAssumption
<1>a. /\ RegistryTyped /\ WaitersTyped /\ WaiterSound /\ InboxTyped
      /\ PublishersTyped /\ BufferTyped /\ OutcomeTyped
  BY DEF Typed, TypeOK
<1>1. ASSUME NEW w \in Waiters, Register(w) PROVE Typed'
  <2>1. RegistryTyped'
    BY <1>a, <1>1, RegistryUnchanged DEF Register
  <2>2. WaitersTyped' /\ WaiterSound'
    BY <1>a, <1>1 DEF Register, WaitersTyped, WaiterSteps, WaiterSound, Goto
  <2>3. InboxTyped'
    BY <1>a, <1>1, InboxUnchanged DEF Register
  <2>4. PublishersTyped'
    BY <1>a, <1>1, PublishersUnchanged DEF Register
  <2>5. BufferTyped'
    BY <1>a, <1>1, BufferUnchanged DEF Register
  <2>6. OutcomeTyped'
    BY <1>a, <1>1, OutcomeUnchanged DEF Register
  <2> QED BY <2>1, <2>2, <2>3, <2>4, <2>5, <2>6 DEF Typed, TypeOK
<1>2. ASSUME NEW w \in Waiters, Insert(w) PROVE Typed'
  <2>0. Subscription(w) \in Subscriptions
    BY <1>a, <1>2, SubscriptionTyped DEF Insert
  <2>1. RegistryTyped'
    BY <1>a, <1>2, <2>0 DEF Insert, RegistryTyped
  <2>2. WaitersTyped' /\ WaiterSound'
    BY <1>a, <1>2 DEF Insert, WaitersTyped, WaiterSteps, WaiterSound, Goto
  <2>3. InboxTyped'
    BY <1>a, <1>2, InboxUnchanged DEF Insert
  <2>4. PublishersTyped'
    BY <1>a, <1>2, PublishersUnchanged DEF Insert
  <2>5. BufferTyped'
    BY <1>a, <1>2, BufferUnchanged DEF Insert
  <2>6. OutcomeTyped'
    BY <1>a, <1>2, OutcomeUnchanged DEF Insert
  <2> QED BY <2>1, <2>2, <2>3, <2>4, <2>5, <2>6 DEF Typed, TypeOK
<1>3. ASSUME NEW w \in Waiters, Recheck(w) PROVE Typed'
  <2>0. Subscription(w) \in Subscriptions
    BY <1>a, <1>3, SubscriptionTyped DEF Recheck
  <2>1. RegistryTyped'
    BY <1>a, <1>3, <2>0 DEF Recheck, RegistryTyped
  <2>2. WaitersTyped' /\ WaiterSound'
    BY <1>a, <1>3 DEF Recheck, WaitersTyped, WaiterSteps, WaiterSound, Goto
  <2>3. InboxTyped'
    BY <1>a, <1>3, InboxUnchanged DEF Recheck
  <2>4. PublishersTyped'
    BY <1>a, <1>3, PublishersUnchanged DEF Recheck
  <2>5. BufferTyped'
    BY <1>a, <1>3, BufferUnchanged DEF Recheck
  <2>6. OutcomeTyped'
    BY <1>a, <1>3, OutcomeUnchanged DEF Recheck
  <2> QED BY <2>1, <2>2, <2>3, <2>4, <2>5, <2>6 DEF Typed, TypeOK
<1>4. ASSUME NEW w \in Waiters, FindPending(w) PROVE Typed'
  <2>0. Subscription(w) \in Subscriptions
    BY <1>a, <1>4, SubscriptionTyped DEF FindPending
  <2>1. RegistryTyped'
    BY <1>a, <1>4, RegistryUnchanged DEF FindPending
  <2>2. WaitersTyped' /\ WaiterSound'
    BY <1>a, <1>4 DEF FindPending, OldestPending, PendingRows, WaitersTyped, WaiterSteps, WaiterSound, Goto
  <2>3. InboxTyped'
    BY <1>a, <1>4, InboxUnchanged DEF FindPending
  <2>4. PublishersTyped'
    BY <1>a, <1>4, PublishersUnchanged DEF FindPending
  <2>5. BufferTyped'
    BY <1>a, <1>4, BufferUnchanged DEF FindPending
  <2>6. OutcomeTyped'
    BY <1>a, <1>4, OutcomeUnchanged DEF FindPending
  <2> QED BY <2>1, <2>2, <2>3, <2>4, <2>5, <2>6 DEF Typed, TypeOK
<1>5. ASSUME NEW w \in Waiters, ClaimOwn(w) PROVE Typed'
  <2>0. Subscription(w) \in Subscriptions
    BY <1>a, <1>5, SubscriptionTyped DEF ClaimOwn
  <2>1. RegistryTyped'
    BY <1>a, <1>5, <2>0 DEF ClaimOwn, ClaimWins, RegistryTyped
  <2>2. WaitersTyped' /\ WaiterSound'
    BY <1>a, <1>5 DEF ClaimOwn, ClaimWins, WaitersTyped, WaiterSteps, WaiterSound, Goto
  <2>3. InboxTyped'
    BY <1>a, <1>5, InboxUnchanged DEF ClaimOwn
  <2>4. PublishersTyped'
    BY <1>a, <1>5, PublishersUnchanged DEF ClaimOwn
  <2>5. BufferTyped'
    BY <1>a, <1>5, BufferUnchanged DEF ClaimOwn
  <2>6. OutcomeTyped'
    BY <1>a, <1>5, OutcomeUnchanged DEF ClaimOwn
  <2> QED BY <2>1, <2>2, <2>3, <2>4, <2>5, <2>6 DEF Typed, TypeOK
<1>6. ASSUME NEW w \in Waiters, MarkDelivered(w) PROVE Typed'
  <2>0. Subscription(w) \in Subscriptions
    BY <1>a, <1>6, SubscriptionTyped DEF MarkDelivered
  <2>1. RegistryTyped'
    BY <1>a, <1>6, RegistryUnchanged DEF MarkDelivered
  <2>2. WaitersTyped' /\ WaiterSound'
    BY <1>a, <1>6 DEF MarkDelivered, Markable, AfterFailedMark, WaitersTyped, WaiterSteps, WaiterSound, Goto
  <2>3. InboxTyped'
    BY <1>a, <1>6, InboxUnchanged DEF MarkDelivered
  <2>4. PublishersTyped'
    BY <1>a, <1>6, PublishersUnchanged DEF MarkDelivered
  <2>5. BufferTyped'
    BY <1>a, <1>6 DEF MarkDelivered, Markable, AfterFailedMark, BufferTyped, RowStates
  <2>6. OutcomeTyped'
    BY <1>a, <1>6, OutcomeUnchanged DEF MarkDelivered
  <2> QED BY <2>1, <2>2, <2>3, <2>4, <2>5, <2>6 DEF Typed, TypeOK
<1>7. ASSUME NEW w \in Waiters, MarkFails(w) PROVE Typed'
  <2>0. Subscription(w) \in Subscriptions
    BY <1>a, <1>7, SubscriptionTyped DEF MarkFails
  <2>1. RegistryTyped'
    BY <1>a, <1>7, RegistryUnchanged DEF MarkFails
  <2>2. WaitersTyped' /\ WaiterSound'
    BY <1>a, <1>7 DEF MarkFails, Markable, AfterFailedMark, WaitersTyped, WaiterSteps, WaiterSound, Goto
  <2>3. InboxTyped'
    BY <1>a, <1>7, InboxUnchanged DEF MarkFails
  <2>4. PublishersTyped'
    BY <1>a, <1>7, PublishersUnchanged DEF MarkFails
  <2>5. BufferTyped'
    BY <1>a, <1>7 DEF MarkFails, Markable, AfterFailedMark, BufferTyped, RowStates
  <2>6. OutcomeTyped'
    BY <1>a, <1>7, <2>0 DEF MarkFails, Markable, AfterFailedMark, OutcomeTyped
  <2> QED BY <2>1, <2>2, <2>3, <2>4, <2>5, <2>6 DEF Typed, TypeOK
<1>8. ASSUME NEW w \in Waiters, SendDrained(w) PROVE Typed'
  <2>0. Subscription(w) \in Subscriptions
    BY <1>a, <1>8, SubscriptionTyped DEF SendDrained
  <2>1. RegistryTyped'
    BY <1>a, <1>8, RegistryUnchanged DEF SendDrained
  <2>2. WaitersTyped' /\ WaiterSound'
    BY <1>a, <1>8 DEF SendDrained, Deliver, WaitersTyped, WaiterSteps, WaiterSound, Goto
  <2>3. InboxTyped'
    <3>1. row[w] \in Messages /\ {Subscription(w)} \subseteq Subscriptions
      BY <1>a, <1>8, <2>0 DEF SendDrained, WaiterSound
    <3> QED BY <1>a, <1>8, <3>1, DeliverTyped DEF SendDrained, OutcomeTyped
  <2>4. PublishersTyped'
    BY <1>a, <1>8, PublishersUnchanged DEF SendDrained
  <2>5. BufferTyped'
    BY <1>a, <1>8, BufferUnchanged DEF SendDrained
  <2>6. OutcomeTyped'
    <3>1. row[w] \in Messages /\ {Subscription(w)} \subseteq Subscriptions
      BY <1>a, <1>8, <2>0 DEF SendDrained, WaiterSound
    <3> QED BY <1>a, <1>8, <3>1, DeliverTyped DEF SendDrained, OutcomeTyped
  <2> QED BY <2>1, <2>2, <2>3, <2>4, <2>5, <2>6 DEF Typed, TypeOK
<1>9. ASSUME NEW w \in Waiters, Reinsert(w) PROVE Typed'
  <2>0. Subscription(w) \in Subscriptions
    BY <1>a, <1>9, SubscriptionTyped DEF Reinsert
  <2>1. RegistryTyped'
    BY <1>a, <1>9, <2>0 DEF Reinsert, RetriesLeft, RegistryTyped
  <2>2. WaitersTyped' /\ WaiterSound'
    BY <1>a, <1>9 DEF Reinsert, RetriesLeft, WaitersTyped, WaiterSteps, WaiterSound, Goto
  <2>3. InboxTyped'
    BY <1>a, <1>9, InboxUnchanged DEF Reinsert
  <2>4. PublishersTyped'
    BY <1>a, <1>9, PublishersUnchanged DEF Reinsert
  <2>5. BufferTyped'
    BY <1>a, <1>9, BufferUnchanged DEF Reinsert
  <2>6. OutcomeTyped'
    BY <1>a, <1>9, OutcomeUnchanged DEF Reinsert
  <2> QED BY <2>1, <2>2, <2>3, <2>4, <2>5, <2>6 DEF Typed, TypeOK
<1>10. ASSUME NEW w \in Waiters, Park(w) PROVE Typed'
  <2>0. Subscription(w) \in Subscriptions
    BY <1>a, <1>10, SubscriptionTyped DEF Park
  <2>1. RegistryTyped'
    BY <1>a, <1>10, <2>0 DEF Park, RegistryTyped
  <2>2. WaitersTyped' /\ WaiterSound'
    BY <1>a, <1>10 DEF Park, WaitersTyped, WaiterSteps, WaiterSound, Goto
  <2>3. InboxTyped'
    BY <1>a, <1>10, InboxUnchanged DEF Park
  <2>4. PublishersTyped'
    BY <1>a, <1>10, PublishersUnchanged DEF Park
  <2>5. BufferTyped'
    BY <1>a, <1>10, BufferUnchanged DEF Park
  <2>6. OutcomeTyped'
    BY <1>a, <1>10, <2>0 DEF Park, OutcomeTyped
  <2> QED BY <2>1, <2>2, <2>3, <2>4, <2>5, <2>6 DEF Typed, TypeOK
<1>11. ASSUME NEW w \in Waiters, Receive(w) PROVE Typed'
  <2>0. Subscription(w) \in Subscriptions
    BY <1>a, <1>11, SubscriptionTyped DEF Receive
  <2>1. RegistryTyped'
    BY <1>a, <1>11, <2>0 DEF Receive, RegistryTyped
  <2>2. WaitersTyped' /\ WaiterSound'
    BY <1>a, <1>11 DEF Receive, WaitersTyped, WaiterSteps, WaiterSound, Goto
  <2>3. InboxTyped'
    BY <1>a, <1>11 DEF Receive, InboxTyped
  <2>4. PublishersTyped'
    BY <1>a, <1>11, PublishersUnchanged DEF Receive
  <2>5. BufferTyped'
    BY <1>a, <1>11, BufferUnchanged DEF Receive
  <2>6. OutcomeTyped'
    BY <1>a, <1>11, OutcomeUnchanged DEF Receive
  <2> QED BY <2>1, <2>2, <2>3, <2>4, <2>5, <2>6 DEF Typed, TypeOK
<1>12. ASSUME NEW w \in Waiters, Mark(w) PROVE Typed'
  <2>1. RegistryTyped'
    BY <1>a, <1>12 DEF Mark, RegistryTyped
  <2>2. WaitersTyped' /\ WaiterSound'
    BY <1>a, <1>12, WaitersUnchanged DEF Mark
  <2>3. InboxTyped'
    BY <1>a, <1>12, InboxUnchanged DEF Mark
  <2>4. PublishersTyped'
    BY <1>a, <1>12, PublishersUnchanged DEF Mark
  <2>5. BufferTyped'
    BY <1>a, <1>12, BufferUnchanged DEF Mark
  <2>6. OutcomeTyped'
    BY <1>a, <1>12, OutcomeUnchanged DEF Mark
  <2> QED BY <2>1, <2>2, <2>3, <2>4, <2>5, <2>6 DEF Typed, TypeOK
<1>13. ASSUME NEW w \in Waiters, Release(w) PROVE Typed'
  <2>1. RegistryTyped'
    BY <1>a, <1>13 DEF Release, RegistryTyped
  <2>2. WaitersTyped' /\ WaiterSound'
    BY <1>a, <1>13, WaitersUnchanged DEF Release
  <2>3. InboxTyped'
    BY <1>a, <1>13, InboxUnchanged DEF Release
  <2>4. PublishersTyped'
    BY <1>a, <1>13, PublishersUnchanged DEF Release
  <2>5. BufferTyped'
    BY <1>a, <1>13, BufferUnchanged DEF Release
  <2>6. OutcomeTyped'
    BY <1>a, <1>13, OutcomeUnchanged DEF Release
  <2> QED BY <2>1, <2>2, <2>3, <2>4, <2>5, <2>6 DEF Typed, TypeOK
<1>14. ASSUME NEW w \in Waiters, Die(w) PROVE Typed'
  <2>1. RegistryTyped'
    BY <1>a, <1>14, RegistryUnchanged DEF Die
  <2>2. WaitersTyped' /\ WaiterSound'
    BY <1>a, <1>14 DEF Die, WaitersTyped, WaiterSteps, WaiterSound, Goto
  <2>3. InboxTyped'
    BY <1>a, <1>14, InboxUnchanged DEF Die
  <2>4. PublishersTyped'
    BY <1>a, <1>14, PublishersUnchanged DEF Die
  <2>5. BufferTyped'
    BY <1>a, <1>14, BufferUnchanged DEF Die
  <2>6. OutcomeTyped'
    BY <1>a, <1>14, OutcomeUnchanged DEF Die
  <2> QED BY <2>1, <2>2, <2>3, <2>4, <2>5, <2>6 DEF Typed, TypeOK
<1>15. ASSUME NEW m \in Messages, Publish(m) PROVE Typed'
  <2>1. RegistryTyped'
    BY <1>a, <1>15, RegistryUnchanged DEF Publish
  <2>2. WaitersTyped' /\ WaiterSound'
    BY <1>a, <1>15, WaitersUnchanged DEF Publish
  <2>3. InboxTyped'
    BY <1>a, <1>15, InboxUnchanged DEF Publish
  <2>4. PublishersTyped'
    BY <1>a, <1>15 DEF Publish, PublishersTyped, PublisherSteps
  <2>5. BufferTyped'
    BY <1>a, <1>15 DEF Publish, BufferTyped, RowStates
  <2>6. OutcomeTyped'
    BY <1>a, <1>15, OutcomeUnchanged DEF Publish
  <2> QED BY <2>1, <2>2, <2>3, <2>4, <2>5, <2>6 DEF Typed, TypeOK
<1>16. ASSUME NEW m \in Messages, Lookup(m) PROVE Typed'
  <2>1. RegistryTyped'
    BY <1>a, <1>16, RegistryUnchanged DEF Lookup
  <2>2. WaitersTyped' /\ WaiterSound'
    BY <1>a, <1>16, WaitersUnchanged DEF Lookup
  <2>3. InboxTyped'
    BY <1>a, <1>16, InboxUnchanged DEF Lookup
  <2>4. PublishersTyped'
    BY <1>a, <1>16 DEF Lookup, RegistryTyped, PublishersTyped, PublisherSteps
  <2>5. BufferTyped'
    BY <1>a, <1>16, BufferUnchanged DEF Lookup
  <2>6. OutcomeTyped'
    BY <1>a, <1>16, OutcomeUnchanged DEF Lookup
  <2> QED BY <2>1, <2>2, <2>3, <2>4, <2>5, <2>6 DEF Typed, TypeOK
<1>17. ASSUME NEW m \in Messages, Split(m) PROVE Typed'
  <2>1. RegistryTyped'
    BY <1>a, <1>17 DEF Split, Deliverable, ClaimStep, RegistryTyped
  <2>2. WaitersTyped' /\ WaiterSound'
    BY <1>a, <1>17, WaitersUnchanged DEF Split
  <2>3. InboxTyped'
    BY <1>a, <1>17, InboxUnchanged DEF Split
  <2>4. PublishersTyped'
    BY <1>a, <1>17 DEF Split, Deliverable, ClaimStep, PublishersTyped, PublisherSteps
  <2>5. BufferTyped'
    BY <1>a, <1>17, BufferUnchanged DEF Split
  <2>6. OutcomeTyped'
    BY <1>a, <1>17, OutcomeUnchanged DEF Split
  <2> QED BY <2>1, <2>2, <2>3, <2>4, <2>5, <2>6 DEF Typed, TypeOK
<1>18. ASSUME NEW m \in Messages, ClaimOne(m) PROVE Typed'
  <2>1. RegistryTyped'
    BY <1>a, <1>18 DEF ClaimOne, ClaimWins, ClaimStep, RegistryTyped
  <2>2. WaitersTyped' /\ WaiterSound'
    BY <1>a, <1>18, WaitersUnchanged DEF ClaimOne
  <2>3. InboxTyped'
    BY <1>a, <1>18, InboxUnchanged DEF ClaimOne
  <2>4. PublishersTyped'
    BY <1>a, <1>18 DEF ClaimOne, ClaimWins, ClaimStep, PublishersTyped, PublisherSteps
  <2>5. BufferTyped'
    BY <1>a, <1>18, BufferUnchanged DEF ClaimOne
  <2>6. OutcomeTyped'
    BY <1>a, <1>18, OutcomeUnchanged DEF ClaimOne
  <2> QED BY <2>1, <2>2, <2>3, <2>4, <2>5, <2>6 DEF Typed, TypeOK
<1>19. ASSUME NEW m \in Messages, SendOne(m) PROVE Typed'
  <2>1. RegistryTyped'
    BY <1>a, <1>19, RegistryUnchanged DEF SendOne
  <2>2. WaitersTyped' /\ WaiterSound'
    BY <1>a, <1>19, WaitersUnchanged DEF SendOne
  <2>3. InboxTyped'
    BY <1>a, <1>19 DEF SendOne, Deliver, InboxTyped
  <2>4. PublishersTyped'
    BY <1>a, <1>19 DEF SendOne, Deliver, PublishersTyped, PublisherSteps
  <2>5. BufferTyped'
    BY <1>a, <1>19, BufferUnchanged DEF SendOne
  <2>6. OutcomeTyped'
    <3>1. PICK s \in claimed[m] : Deliver(m, {s})
      BY <1>19 DEF SendOne
    <3>2. {s} \subseteq Subscriptions
      BY <1>a DEF PublishersTyped
    <3> QED BY <1>a, <1>19, <3>1, <3>2, DeliverTyped DEF SendOne, OutcomeTyped
  <2> QED BY <2>1, <2>2, <2>3, <2>4, <2>5, <2>6 DEF Typed, TypeOK
<1>20. ASSUME NEW m \in Messages, SendEspStarts(m) PROVE Typed'
  <2>1. RegistryTyped'
    BY <1>a, <1>20, RegistryUnchanged DEF SendEspStarts
  <2>2. WaitersTyped' /\ WaiterSound'
    BY <1>a, <1>20, WaitersUnchanged DEF SendEspStarts
  <2>3. InboxTyped'
    BY <1>a, <1>20 DEF SendEspStarts, Deliver, EspStep, InboxTyped
  <2>4. PublishersTyped'
    BY <1>a, <1>20 DEF SendEspStarts, Deliver, EspStep, PublishersTyped, PublisherSteps
  <2>5. BufferTyped'
    BY <1>a, <1>20, BufferUnchanged DEF SendEspStarts
  <2>6. OutcomeTyped'
    <3>1. espTier[m] \subseteq Subscriptions
      BY <1>a DEF PublishersTyped
    <3> QED BY <1>a, <1>20, <3>1, DeliverTyped DEF SendEspStarts, OutcomeTyped
  <2> QED BY <2>1, <2>2, <2>3, <2>4, <2>5, <2>6 DEF Typed, TypeOK
<1>21. ASSUME NEW m \in Messages, StartProcesses(m) PROVE Typed'
  <2>1. RegistryTyped'
    BY <1>a, <1>21, RegistryUnchanged DEF StartProcesses
  <2>2. WaitersTyped' /\ WaiterSound'
    BY <1>a, <1>21, WaitersUnchanged DEF StartProcesses
  <2>3. InboxTyped'
    BY <1>a, <1>21, InboxUnchanged DEF StartProcesses
  <2>4. PublishersTyped'
    BY <1>a, <1>21 DEF StartProcesses, PublishersTyped, PublisherSteps
  <2>5. BufferTyped'
    BY <1>a, <1>21, BufferUnchanged DEF StartProcesses
  <2>6. OutcomeTyped'
    BY <1>a, <1>21 DEF StartProcesses, OutcomeTyped
  <2> QED BY <2>1, <2>2, <2>3, <2>4, <2>5, <2>6 DEF Typed, TypeOK
<1>22. ASSUME NEW m \in Messages, ResolvePending(m) PROVE Typed'
  <2>1. RegistryTyped'
    BY <1>a, <1>22, RegistryUnchanged DEF ResolvePending
  <2>2. WaitersTyped' /\ WaiterSound'
    BY <1>a, <1>22, WaitersUnchanged DEF ResolvePending
  <2>3. InboxTyped'
    BY <1>a, <1>22, InboxUnchanged DEF ResolvePending
  <2>4. PublishersTyped'
    BY <1>a, <1>22 DEF ResolvePending, PendingRows, PublishersTyped, PublisherSteps
  <2>5. BufferTyped'
    BY <1>a, <1>22 DEF ResolvePending, PendingRows, BufferTyped, RowStates
  <2>6. OutcomeTyped'
    BY <1>a, <1>22 DEF ResolvePending, PendingRows, OutcomeTyped
  <2> QED BY <2>1, <2>2, <2>3, <2>4, <2>5, <2>6 DEF Typed, TypeOK
<1>23. ASSUME NEW m \in Messages, CancelOrphan(m) PROVE Typed'
  <2>1. RegistryTyped'
    BY <1>a, <1>23, RegistryUnchanged DEF CancelOrphan
  <2>2. WaitersTyped' /\ WaiterSound'
    BY <1>a, <1>23, WaitersUnchanged DEF CancelOrphan
  <2>3. InboxTyped'
    BY <1>a, <1>23, InboxUnchanged DEF CancelOrphan
  <2>4. PublishersTyped'
    BY <1>a, <1>23 DEF CancelOrphan, ExpireRow, PublishersTyped, PublisherSteps
  <2>5. BufferTyped'
    BY <1>a, <1>23 DEF CancelOrphan, ExpireRow, BufferTyped, RowStates
  <2>6. OutcomeTyped'
    BY <1>a, <1>23, OutcomeUnchanged DEF CancelOrphan
  <2> QED BY <2>1, <2>2, <2>3, <2>4, <2>5, <2>6 DEF Typed, TypeOK
<1>24. ASSUME PassTtl PROVE Typed'
  <2>1. RegistryTyped'
    BY <1>a, <1>24, RegistryUnchanged DEF PassTtl
  <2>2. WaitersTyped' /\ WaiterSound'
    BY <1>a, <1>24, WaitersUnchanged DEF PassTtl
  <2>3. InboxTyped'
    BY <1>a, <1>24, InboxUnchanged DEF PassTtl
  <2>4. PublishersTyped'
    BY <1>a, <1>24, PublishersUnchanged DEF PassTtl
  <2>5. BufferTyped'
    BY <1>a, <1>24 DEF PassTtl, OldestPending, PendingRows, BufferTyped, RowStates
  <2>6. OutcomeTyped'
    BY <1>a, <1>24, OutcomeUnchanged DEF PassTtl
  <2> QED BY <2>1, <2>2, <2>3, <2>4, <2>5, <2>6 DEF Typed, TypeOK
<1>25. ASSUME SweepRead PROVE Typed'
  <2>1. RegistryTyped'
    BY <1>a, <1>25, RegistryUnchanged DEF SweepRead
  <2>2. WaitersTyped' /\ WaiterSound'
    BY <1>a, <1>25, WaitersUnchanged DEF SweepRead
  <2>3. InboxTyped'
    BY <1>a, <1>25, InboxUnchanged DEF SweepRead
  <2>4. PublishersTyped'
    BY <1>a, <1>25, PublishersUnchanged DEF SweepRead
  <2>5. BufferTyped'
    BY <1>a, <1>25 DEF SweepRead, PendingRows, BufferTyped, RowStates
  <2>6. OutcomeTyped'
    BY <1>a, <1>25, OutcomeUnchanged DEF SweepRead
  <2> QED BY <2>1, <2>2, <2>3, <2>4, <2>5, <2>6 DEF Typed, TypeOK
<1>26. ASSUME SweepOne PROVE Typed'
  <2>1. RegistryTyped'
    BY <1>a, <1>26, RegistryUnchanged DEF SweepOne
  <2>2. WaitersTyped' /\ WaiterSound'
    BY <1>a, <1>26, WaitersUnchanged DEF SweepOne
  <2>3. InboxTyped'
    BY <1>a, <1>26, InboxUnchanged DEF SweepOne
  <2>4. PublishersTyped'
    BY <1>a, <1>26, PublishersUnchanged DEF SweepOne
  <2>5. BufferTyped'
    BY <1>a, <1>26 DEF SweepOne, ExpireRow, BufferTyped, RowStates
  <2>6. OutcomeTyped'
    BY <1>a, <1>26, OutcomeUnchanged DEF SweepOne
  <2> QED BY <2>1, <2>2, <2>3, <2>4, <2>5, <2>6 DEF Typed, TypeOK
<1>27. CASE UNCHANGED vars
  BY <1>a, <1>27, RegistryUnchanged, WaitersUnchanged, InboxUnchanged, PublishersUnchanged,
     BufferUnchanged, OutcomeUnchanged DEF vars, Typed, TypeOK
<1> QED
  BY <1>1, <1>2, <1>3, <1>4, <1>5, <1>6, <1>7, <1>8, <1>9, <1>10,
     <1>11, <1>12, <1>13, <1>14, <1>15, <1>16, <1>17, <1>18, <1>19, <1>20,
     <1>21, <1>22, <1>23, <1>24, <1>25, <1>26, <1>27
  DEF Next, Waiter, Publisher, Cancel, Sweeper

\* Type correctness: every state the actors reach is well typed.
THEOREM TypeCorrect == Spec => []TypeOK
<1>1. Typed => TypeOK
  BY DEF Typed
<1> QED BY <1>1, TypedInit, TypedStep, PTL DEF Spec

-----------------------------------------------------------------------------
(* Exclusive possession. At any time a one-shot subscription is in one     *)
(* place: not yet inserted, in the registry, held by its own drain, held   *)
(* by one publisher that claimed it, or spent on one message.              *)

HandlerSubscriptions == {s \in Subscriptions : s.waiter \in Handlers}

NotInserted(s) ==
    \/ s.number > number[s.waiter]
    \/ s.number = number[s.waiter] /\ wpc[s.waiter] = "insert"

DrainHolds(s) ==
    /\ s.number = number[s.waiter]
    /\ wpc[s.waiter] \in {"mark", "send", "reinsert"}

PublisherHolds(s) == \E m \in Messages : s \in claimed[m]

Spent(s) == \E m \in Messages : <<m, s>> \in sent

Possession(s) ==
    /\ s \in registry =>
         ~NotInserted(s) /\ ~DrainHolds(s) /\ ~PublisherHolds(s) /\ ~Spent(s)
    /\ DrainHolds(s) => ~PublisherHolds(s) /\ ~Spent(s)
    /\ PublisherHolds(s) => ~NotInserted(s) /\ ~Spent(s)
    /\ Spent(s) => ~NotInserted(s)
    /\ \A m, k \in Messages : s \in claimed[m] /\ s \in claimed[k] => m = k
    /\ \A m, k \in Messages : <<m, s>> \in sent /\ <<k, s>> \in sent => m = k

\* The publishers keep the tiers apart.
TiersSound ==
    \A m \in Messages :
        /\ tierOne[m] \subseteq HandlerSubscriptions
        /\ claimed[m] \subseteq HandlerSubscriptions
        /\ espTier[m] \cap HandlerSubscriptions = {}

Exclusive == TiersSound /\ \A s \in HandlerSubscriptions : Possession(s)

LEMMA CurrentSubscription ==
    ASSUME NEW s \in Subscriptions, NEW w
    PROVE  s = Subscription(w) <=> s.waiter = w /\ s.number = number[w]
BY DEF Subscription, Subscriptions

LEMMA ExclusiveInit == Init => Exclusive
BY DEF Init, Exclusive, TiersSound, Possession, NotInserted, DrainHolds, PublisherHolds,
       Spent, HandlerSubscriptions, Subscriptions, Handlers, Waiters

LEMMA TiersStep == Typed /\ TiersSound /\ [Next]_vars => TiersSound'
<1> SUFFICES ASSUME Typed, TiersSound, [Next]_vars PROVE TiersSound'
  OBVIOUS
<1>a. PublishersTyped /\ RegistryTyped
  BY DEF Typed, TypeOK
<1> USE DEF TiersSound
<1>1. ASSUME UNCHANGED <<tierOne, espTier, claimed>> PROVE TiersSound'
  BY <1>1 DEF HandlerSubscriptions, Subscriptions
<1>2. ASSUME NEW m \in Messages, Split(m) PROVE TiersSound'
  BY <1>a, <1>2 DEF Split, PublishersTyped, HandlerSubscriptions
<1>3. ASSUME NEW m \in Messages, ClaimOne(m) PROVE TiersSound'
  BY <1>a, <1>3 DEF ClaimOne, PublishersTyped
<1>4. ASSUME NEW m \in Messages, SendOne(m) PROVE TiersSound'
  BY <1>a, <1>4 DEF SendOne, PublishersTyped
<1>5. ASSUME NEW m \in Messages, SendEspStarts(m) PROVE TiersSound'
  BY <1>a, <1>5 DEF SendEspStarts, PublishersTyped
<1>6. ASSUME NEW w \in Waiters, Waiter(w) \/ Cancel(w) PROVE TiersSound'
  BY <1>1, <1>6 DEF Waiter, Cancel, publisherVars, Register, Insert, Recheck, FindPending,
     ClaimOwn, MarkDelivered, MarkFails, SendDrained, Reinsert, Park, Receive, Mark,
     Release, Die
<1>7. ASSUME NEW m \in Messages,
             \/ Publish(m) \/ Lookup(m) \/ StartProcesses(m) \/ ResolvePending(m)
             \/ CancelOrphan(m)
      PROVE  TiersSound'
  BY <1>1, <1>7 DEF Publish, Lookup, StartProcesses, ResolvePending, CancelOrphan
<1>8. ASSUME PassTtl \/ Sweeper \/ UNCHANGED vars PROVE TiersSound'
  BY <1>1, <1>8 DEF PassTtl, Sweeper, SweepRead, SweepOne, vars, publisherVars
<1> QED
  BY <1>2, <1>3, <1>4, <1>5, <1>6, <1>7, <1>8 DEF Next, Publisher

LEMMA ExclusiveStep == Typed /\ Exclusive /\ [Next]_vars => Exclusive'
<1> SUFFICES ASSUME Typed, Exclusive, [Next]_vars, NEW s \in HandlerSubscriptions
             PROVE  Possession(s)'
  BY TiersStep DEF Exclusive, HandlerSubscriptions, Subscriptions
<1>a. /\ PublishersTyped /\ RegistryTyped /\ WaitersTyped /\ WaiterSound
      /\ Possession(s) /\ TiersSound
  BY DEF Typed, TypeOK, Exclusive
<1>b. /\ s \in Subscriptions /\ s.waiter \in Handlers /\ s.waiter \in Waiters
      /\ s.number \in Nat
  BY DEF HandlerSubscriptions, Subscriptions, Waiters
<1>c. \A w : s = Subscription(w) <=> s.waiter = w /\ s.number = number[w]
  BY <1>b, CurrentSubscription
<1> USE WaitersDisjoint DEF Possession, NotInserted, DrainHolds, PublisherHolds, Spent
<1>1. ASSUME UNCHANGED <<registry, wpc, number, claimed, sent>> PROVE Possession(s)'
  BY <1>a, <1>1
<1>2. ASSUME NEW w \in Waiters, Register(w) PROVE Possession(s)'
  BY <1>a, <1>b, <1>c, <1>2 DEF Register, Goto, WaitersTyped, registryVars, publisherVars
<1>3. ASSUME NEW w \in Waiters, Insert(w) PROVE Possession(s)'
  BY <1>a, <1>b, <1>c, <1>3 DEF Insert, Goto, WaitersTyped, publisherVars
<1>4. ASSUME NEW w \in Waiters, Recheck(w) PROVE Possession(s)'
  BY <1>a, <1>b, <1>c, <1>4 DEF Recheck, Goto, WaitersTyped, publisherVars
<1>5. ASSUME NEW w \in Waiters, FindPending(w) PROVE Possession(s)'
  <2>1. UNCHANGED <<registry, number, claimed, sent>>
    BY <1>5 DEF FindPending, registryVars, publisherVars
  <2>2. s.waiter = w => wpc'[w] \in {"park", "claim"}
    BY <1>a, <1>b, <1>5 DEF FindPending, Goto, WaitersTyped
  <2>3. s.waiter # w => wpc'[s.waiter] = wpc[s.waiter]
    <3>1. PICK step : wpc' = [wpc EXCEPT ![w] = step]
      BY <1>5 DEF FindPending, Goto
    <3> QED BY <1>a, <1>b, <3>1 DEF WaitersTyped
  <2>4. s.waiter = w => wpc[w] = "find"
    BY <1>5 DEF FindPending
  <2> QED BY <1>a, <2>1, <2>2, <2>3, <2>4
<1>6. ASSUME NEW w \in Waiters, ClaimOwn(w) PROVE Possession(s)'
  <2>1. UNCHANGED <<number, claimed, sent>> /\ wpc[w] = "claim"
    BY <1>6 DEF ClaimOwn, publisherVars
  <2>2. registry' = registry \ {Subscription(w)}
    BY <1>6 DEF ClaimOwn
  <2>3. s.waiter # w => wpc'[s.waiter] = wpc[s.waiter]
    BY <1>a, <1>6 DEF ClaimOwn, Goto, WaitersTyped
  <2>4. wpc'[w] = IF Subscription(w) \in registry THEN "mark" ELSE "park"
    BY <1>a, <1>6 DEF ClaimOwn, ClaimWins, Goto, WaitersTyped
  <2>5. CASE s = Subscription(w)
    BY <1>a, <1>c, <2>1, <2>2, <2>4, <2>5
  <2>6. CASE s # Subscription(w)
    BY <1>a, <1>c, <2>1, <2>2, <2>3, <2>4, <2>6
  <2> QED BY <2>5, <2>6
<1>7. ASSUME NEW w \in Waiters, MarkDelivered(w) PROVE Possession(s)'
  BY <1>a, <1>b, <1>c, <1>7 DEF MarkDelivered, Markable, AfterFailedMark, Goto, WaitersTyped, registryVars, publisherVars
<1>8. ASSUME NEW w \in Waiters, MarkFails(w) PROVE Possession(s)'
  BY <1>a, <1>b, <1>c, <1>8 DEF MarkFails, Markable, AfterFailedMark, Goto, WaitersTyped, registryVars, publisherVars
<1>9. ASSUME NEW w \in Waiters, SendDrained(w) PROVE Possession(s)'
  <2>1. UNCHANGED <<registry, number, claimed>> /\ wpc[w] = "send"
    BY <1>9 DEF SendDrained, registryVars, publisherVars
  <2>2. \A k : <<k, s>> \in sent' <=> <<k, s>> \in sent \/ (k = row[w] /\ s = Subscription(w))
    BY <1>9 DEF SendDrained, Deliver
  <2>3. wpc'[w] = "park" /\ (s.waiter # w => wpc'[s.waiter] = wpc[s.waiter])
    BY <1>a, <1>9 DEF SendDrained, Goto, WaitersTyped
  <2>4. CASE s = Subscription(w)
    <3>1. s.waiter = w /\ s.number = number[w]
      BY <1>c, <2>4
    <3>2. DrainHolds(s)
      BY <2>1, <3>1
    <3>3. ~PublisherHolds(s)' /\ ~Spent(s) /\ s \notin registry'
      BY <1>a, <2>1, <3>2
    <3>4. ~NotInserted(s)' /\ ~DrainHolds(s)'
      BY <1>a, <1>b, <2>1, <2>3, <3>1 DEF WaitersTyped
    <3>5. \A k, l \in Messages : <<k, s>> \in sent' /\ <<l, s>> \in sent' => k = l
      BY <2>2, <3>3
    <3> QED BY <1>a, <3>3, <3>4, <3>5
  <2>5. CASE s # Subscription(w)
    BY <1>a, <1>c, <2>1, <2>2, <2>3, <2>5
  <2> QED BY <2>4, <2>5
<1>10. ASSUME NEW w \in Waiters, Reinsert(w) PROVE Possession(s)'
  BY <1>a, <1>b, <1>c, <1>10 DEF Reinsert, RetriesLeft, Goto, WaitersTyped, publisherVars
<1>11. ASSUME NEW w \in Waiters, Park(w) PROVE Possession(s)'
  BY <1>a, <1>b, <1>c, <1>11 DEF Park, Goto, WaitersTyped, publisherVars
<1>12. ASSUME NEW w \in Waiters, Receive(w) PROVE Possession(s)'
  BY <1>a, <1>b, <1>c, <1>12 DEF Receive, Goto, WaitersTyped, publisherVars
<1>13. ASSUME NEW w \in Waiters, Release(w) PROVE Possession(s)'
  BY <1>a, <1>b, <1>c, <1>13 DEF Release, Goto, WaitersTyped, waiterVars, publisherVars
<1>14. ASSUME NEW m \in Messages, Split(m) PROVE Possession(s)'
  BY <1>a, <1>b, <1>c, <1>14 DEF Split, Deliverable, ClaimStep, waiterVars
<1>15. ASSUME NEW m \in Messages, ClaimOne(m) PROVE Possession(s)'
  BY <1>a, <1>b, <1>c, <1>15 DEF ClaimOne, ClaimWins, ClaimStep, waiterVars
<1>16. ASSUME NEW m \in Messages, SendOne(m) PROVE Possession(s)'
  <2>1. UNCHANGED <<registry, wpc, number>>
    BY <1>16 DEF SendOne, registryVars, waiterVars
  <2>2. PICK t \in claimed[m] :
          Deliver(m, {t}) /\ claimed' = [claimed EXCEPT ![m] = @ \ {t}]
    BY <1>16 DEF SendOne
  <2>3. \A k : <<k, s>> \in sent' <=> <<k, s>> \in sent \/ (k = m /\ s = t)
    BY <2>2 DEF Deliver
  <2>4. \A k \in Messages : s \in claimed'[k] <=> s \in claimed[k] /\ (k = m => s # t)
    BY <1>a, <2>2 DEF PublishersTyped
  <2>5. CASE s = t
    BY <1>a, <2>1, <2>2, <2>3, <2>4, <2>5
  <2>6. CASE s # t
    BY <1>a, <2>1, <2>3, <2>4, <2>6
  <2> QED BY <2>5, <2>6
<1>17. ASSUME NEW m \in Messages, SendEspStarts(m) PROVE Possession(s)'
  <2>1. UNCHANGED <<registry, wpc, number, claimed>>
    BY <1>17 DEF SendEspStarts, registryVars, waiterVars
  <2>2. s \notin espTier[m]
    BY <1>a DEF TiersSound
  <2>3. \A k : <<k, s>> \in sent' <=> <<k, s>> \in sent
    BY <1>17, <2>2 DEF SendEspStarts, Deliver
  <2> QED BY <1>a, <2>1, <2>3
<1>18. ASSUME NEW w \in Waiters, Mark(w) \/ Die(w) PROVE Possession(s)'
  BY <1>1, <1>18 DEF Mark, Die, waiterVars, publisherVars, registryVars
<1>19. ASSUME NEW m \in Messages,
             \/ Publish(m) \/ Lookup(m) \/ StartProcesses(m)
             \/ ResolvePending(m) \/ CancelOrphan(m)
      PROVE  Possession(s)'
  BY <1>1, <1>19 DEF Publish, Lookup, StartProcesses, ResolvePending, CancelOrphan, waiterVars, registryVars
<1>20. CASE PassTtl \/ Sweeper \/ UNCHANGED vars
  BY <1>1, <1>20 DEF PassTtl, Sweeper, SweepRead, SweepOne, vars, waiterVars, publisherVars,
     registryVars
<1> QED
  BY <1>1, <1>2, <1>3, <1>4, <1>5, <1>6, <1>7, <1>8, <1>9, <1>10,
     <1>11, <1>12, <1>13, <1>14, <1>15, <1>16, <1>17, <1>18, <1>19, <1>20
  DEF Next, Waiter, Publisher, Cancel

\* Whoever races for it, a handler's subscription takes at most one message.
THEOREM OneMessage == Spec => []OneMessagePerSubscription
<1>1. ASSUME Exclusive PROVE OneMessagePerSubscription
  <2> SUFFICES ASSUME NEW s \in Subscriptions, s.waiter \in Handlers,
                      NEW m \in Received(s) \cup Coming(s),
                      NEW k \in Received(s) \cup Coming(s)
               PROVE  m = k
    BY DEF OneMessagePerSubscription
  <2>1. Possession(s)
    BY <1>1 DEF Exclusive, HandlerSubscriptions
  <2>2. s = Subscription(s.waiter) <=> s.number = number[s.waiter]
    BY CurrentSubscription
  <2> QED BY <2>1, <2>2 DEF Possession, DrainHolds, PublisherHolds, Spent, Received, Coming
<1>2. Init => Typed /\ Exclusive
  BY TypedInit, ExclusiveInit
<1>3. Typed /\ Exclusive /\ [Next]_vars => Typed' /\ Exclusive'
  BY TypedStep, ExclusiveStep
<1> QED BY <1>1, <1>2, <1>3, PTL DEF Spec

-----------------------------------------------------------------------------
(* Nobody waits deaf. From its insert on, unless its own drain has taken   *)
(* the subscription out, a live, unmarked handler can be reached: by the   *)
(* registry, by the publisher that claimed the subscription, or because a  *)
(* message is in its mailbox already.                                      *)

Listening == {"recheck", "find", "claim", "park", "waiting"}

Reachable(w) ==
    \/ Subscription(w) \in registry
    \/ PublisherHolds(Subscription(w))
    \/ inbox[w] # <<>>

Heard ==
    \A w \in (alive \cap Handlers) \ marked : wpc[w] \in Listening => Reachable(w)

\* A delivery is in the mailbox of every live waiter it is for, and takes nothing
\* out of another's.
LEMMA DeliverFills ==
    ASSUME InboxTyped, NEW m \in Messages, NEW subs, Deliver(m, subs), NEW w \in Waiters
    PROVE  /\ inbox[w] # <<>> => inbox'[w] # <<>>
           /\ w \in alive /\ (\E s \in subs : s.waiter = w) => inbox'[w] # <<>>
<1>1. inbox[w] \in Seq(Messages) /\ inbox'[w] =
        IF w \in alive /\ \E s \in subs : s.waiter = w THEN Append(inbox[w], m) ELSE inbox[w]
  BY DEF InboxTyped, Deliver
<1>2. Append(inbox[w], m) # <<>>
  BY <1>1
<1> QED BY <1>1, <1>2

\* A step of another actor that takes no subscription of this waiter out of the
\* registry, except into the hands of a publisher, and leaves its mailbox filled.
LEMMA ReachableKept ==
    ASSUME NEW w, Reachable(w), UNCHANGED number,
           Subscription(w) \in registry =>
               Subscription(w) \in registry' \/ PublisherHolds(Subscription(w))',
           PublisherHolds(Subscription(w)) =>
               PublisherHolds(Subscription(w))' \/ inbox'[w] # <<>>,
           inbox[w] # <<>> => inbox'[w] # <<>>
    PROVE  Reachable(w)'
BY DEF Reachable, Subscription

LEMMA HeardInit == Init => Heard
BY DEF Init, Heard, Listening, Waiters, Handlers

LEMMA HeardStep == Typed /\ Heard /\ [Next]_vars => Heard'
<1> SUFFICES ASSUME Typed, Heard, [Next]_vars,
                    NEW h \in Handlers, (h \in alive)', (h \notin marked)',
                    (wpc[h] \in Listening)'
             PROVE  Reachable(h)'
  BY DEF Heard
<1>a. /\ RegistryTyped /\ WaitersTyped /\ WaiterSound /\ InboxTyped /\ PublishersTyped
      /\ h \in Waiters
  BY DEF Typed, TypeOK, Waiters
<1>b. h \in alive /\ h \notin marked => (wpc[h] \in Listening => Reachable(h))
  BY DEF Heard
<1>c. \A w : Subscription(w) = Subscription(h) <=> w = h
  BY DEF Subscription
<1>d. h \in alive /\ h \notin marked
  BY <1>a DEF Next, Waiter, Cancel, Publisher, Sweeper, Register, Insert, Recheck, FindPending,
     ClaimOwn, MarkDelivered, MarkFails, SendDrained, Reinsert, Park, Receive, Mark, Release,
     Die, Publish, Lookup, Split, ClaimOne, SendOne, SendEspStarts, StartProcesses,
     ResolvePending, CancelOrphan, PassTtl, SweepRead, SweepOne, vars, registryVars, waiterVars
<1>1. ASSUME wpc'[h] = wpc[h], UNCHANGED <<registry, number, claimed, inbox>>
      PROVE  Reachable(h)'
  BY <1>b, <1>d, <1>1 DEF Reachable, PublisherHolds, Subscription
<1>2. ASSUME NEW w \in Waiters, Register(w) PROVE Reachable(h)'
  <2>1. w # h
    BY <1>a, <1>d, <1>2 DEF Register, Goto, WaitersTyped, Listening
  <2>2. number'[h] = number[h] /\ wpc'[h] = wpc[h]
    BY <1>a, <1>2, <2>1 DEF Register, Goto, WaitersTyped
  <2> QED BY <1>b, <1>d, <1>2, <2>2
        DEF Register, Reachable, PublisherHolds, Subscription, registryVars, publisherVars
<1>3. ASSUME NEW w \in Waiters, Insert(w) PROVE Reachable(h)'
  <2>1. CASE w = h
    BY <1>3, <2>1 DEF Insert, Reachable, Subscription
  <2>2. CASE w # h
    BY <1>a, <1>b, <1>d, <1>3, <2>2
    DEF Insert, Goto, WaitersTyped, Reachable, PublisherHolds, Subscription, publisherVars
  <2> QED BY <2>1, <2>2
<1>4. ASSUME NEW w \in Waiters, Recheck(w) PROVE Reachable(h)'
  <2>1. wpc[h] \in Listening
    BY <1>a, <1>4 DEF Recheck, Goto, WaitersTyped, Listening
  <2>2. Subscription(h) \in registry => Subscription(h) \in registry'
    BY <1>c, <1>d, <1>4 DEF Recheck
  <2> QED BY <1>b, <1>d, <1>4, <2>1, <2>2, ReachableKept DEF Recheck, PublisherHolds, Subscription, publisherVars
<1>5. ASSUME NEW w \in Waiters, FindPending(w) PROVE Reachable(h)'
  <2>1. wpc[h] \in Listening
    BY <1>a, <1>5 DEF FindPending, Goto, WaitersTyped, Listening
  <2> QED BY <1>b, <1>d, <1>5, <2>1
          DEF FindPending, Reachable, PublisherHolds, Subscription, registryVars, publisherVars
<1>6. ASSUME NEW w \in Waiters, ClaimOwn(w) PROVE Reachable(h)'
  <2>1. wpc[h] \in Listening
    BY <1>a, <1>6 DEF ClaimOwn, Goto, WaitersTyped, Listening
  <2>2. Subscription(h) \in registry => Subscription(h) \in registry'
    BY <1>a, <1>c, <1>6 DEF ClaimOwn, ClaimWins, Goto, WaitersTyped, Listening
  <2> QED BY <1>b, <1>d, <1>6, <2>1, <2>2, ReachableKept DEF ClaimOwn, PublisherHolds, Subscription, publisherVars
<1>7. ASSUME NEW w \in Waiters, MarkDelivered(w) \/ MarkFails(w) PROVE Reachable(h)'
  <2>1. wpc'[h] = wpc[h]
    BY <1>a, <1>7, WaitersDisjoint
    DEF MarkDelivered, MarkFails, AfterFailedMark, Goto, WaitersTyped, Listening
  <2> QED BY <1>1, <1>7, <2>1 DEF MarkDelivered, MarkFails, registryVars, publisherVars
<1>8. ASSUME NEW w \in Waiters, SendDrained(w) PROVE Reachable(h)'
  <2>1. row[w] \in Messages /\ Deliver(row[w], {Subscription(w)})
    BY <1>a, <1>8 DEF SendDrained, WaiterSound
  <2>2. CASE w = h
    <3>1. \E s \in {Subscription(w)} : s.waiter = h
      BY <2>2 DEF Subscription
    <3> QED BY <1>a, <1>d, <2>1, <3>1, DeliverFills DEF Reachable
  <2>3. CASE w # h
    <3>1. wpc'[h] = wpc[h]
      BY <1>a, <1>8, <2>3 DEF SendDrained, Goto, WaitersTyped
    <3>2. inbox[h] # <<>> => inbox'[h] # <<>>
      BY <1>a, <2>1, DeliverFills
    <3> QED BY <1>b, <1>d, <1>8, <3>1, <3>2
        DEF SendDrained, Reachable, PublisherHolds, Subscription, registryVars, publisherVars
  <2> QED BY <2>2, <2>3
<1>9. ASSUME NEW w \in Waiters, Reinsert(w) PROVE Reachable(h)'
  <2>1. CASE w = h
    BY <1>9, <2>1 DEF Reinsert, Reachable, Subscription
  <2>2. CASE w # h
    BY <1>a, <1>b, <1>d, <1>9, <2>2
    DEF Reinsert, Goto, WaitersTyped, Reachable, PublisherHolds, Subscription, publisherVars
  <2> QED BY <2>1, <2>2
<1>10. ASSUME NEW w \in Waiters, Park(w) PROVE Reachable(h)'
  <2>1. wpc[h] \in Listening
    BY <1>a, <1>10 DEF Park, Goto, WaitersTyped, Listening
  <2>2. Subscription(h) \in registry => Subscription(h) \in registry'
    BY <1>a, <1>c, <1>10 DEF Park, Goto, WaitersTyped, Listening
  <2> QED BY <1>b, <1>d, <1>10, <2>1, <2>2, ReachableKept DEF Park, PublisherHolds, Subscription, publisherVars
<1>11. ASSUME NEW w \in Waiters, Receive(w) PROVE Reachable(h)'
  <2>1. w # h
    BY <1>a, <1>11 DEF Receive, Goto, WaitersTyped, Listening
  <2>2. wpc'[h] = wpc[h] /\ inbox'[h] = inbox[h]
    BY <1>a, <1>11, <2>1 DEF Receive, Goto, WaitersTyped, InboxTyped
  <2>3. Subscription(h) \in registry => Subscription(h) \in registry'
    BY <1>c, <1>11, <2>1 DEF Receive
  <2> QED BY <1>b, <1>d, <1>11, <2>2, <2>3, ReachableKept DEF Receive, PublisherHolds, Subscription, publisherVars
<1>12. ASSUME NEW w \in Waiters, Release(w) PROVE Reachable(h)'
  <2>1. Subscription(h) \in registry => Subscription(h) \in registry'
    BY <1>d, <1>12 DEF Release, Subscription
  <2> QED BY <1>b, <1>d, <1>12, <2>1, ReachableKept
          DEF Release, PublisherHolds, Subscription, waiterVars, publisherVars
<1>13. ASSUME NEW m \in Messages, Split(m) PROVE Reachable(h)'
  <2>1. Deliverable(Subscription(h))
    BY <1>d DEF Deliverable, Subscription
  <2>2. Subscription(h) \in registry => Subscription(h) \in registry'
    BY <1>13, <2>1 DEF Split
  <2> QED BY <1>b, <1>d, <1>13, <2>2, ReachableKept
          DEF Split, PublisherHolds, Subscription, waiterVars
<1>14. ASSUME NEW m \in Messages, ClaimOne(m) PROVE Reachable(h)'
  <2>1. PICK s \in tierOne[m] :
          /\ registry' = registry \ {s}
          /\ claimed' = [claimed EXCEPT ![m] =
                           IF ClaimWins(s) THEN claimed[m] \cup {s} ELSE claimed[m]]
    BY <1>14 DEF ClaimOne
  <2>2. Subscription(h) \in registry =>
          Subscription(h) \in registry' \/ Subscription(h) \in claimed'[m]
    BY <1>a, <2>1 DEF ClaimWins, PublishersTyped
  <2>3. \A k \in Messages : claimed[k] \subseteq claimed'[k]
    BY <1>a, <2>1 DEF PublishersTyped
  <2> QED BY <1>b, <1>d, <1>14, <2>2, <2>3, ReachableKept
          DEF ClaimOne, PublisherHolds, Subscription, waiterVars
<1>15. ASSUME NEW m \in Messages, SendOne(m) PROVE Reachable(h)'
  <2>1. PICK s \in claimed[m] :
          Deliver(m, {s}) /\ claimed' = [claimed EXCEPT ![m] = @ \ {s}]
    BY <1>15 DEF SendOne
  <2>2. inbox[h] # <<>> => inbox'[h] # <<>>
    BY <1>a, <2>1, DeliverFills
  <2>3. s = Subscription(h) => inbox'[h] # <<>>
    <3>1. s = Subscription(h) => \E t \in {s} : t.waiter = h
      BY DEF Subscription
    <3> QED BY <1>a, <1>d, <2>1, <3>1, DeliverFills
  <2>4. PublisherHolds(Subscription(h)) =>
          PublisherHolds(Subscription(h))' \/ inbox'[h] # <<>>
    BY <1>a, <1>15, <2>1, <2>3 DEF SendOne, PublisherHolds, PublishersTyped, Subscription, waiterVars
  <2> QED BY <1>b, <1>d, <1>15, <2>2, <2>4, ReachableKept
          DEF SendOne, Subscription, waiterVars, registryVars
<1>16. ASSUME NEW m \in Messages, SendEspStarts(m) PROVE Reachable(h)'
  <2>1. inbox[h] # <<>> => inbox'[h] # <<>>
    BY <1>a, <1>16, DeliverFills DEF SendEspStarts
  <2> QED BY <1>b, <1>d, <1>16, <2>1, ReachableKept
          DEF SendEspStarts, PublisherHolds, Subscription, waiterVars, registryVars
<1>17. ASSUME NEW w \in Waiters, Mark(w) \/ Die(w) PROVE Reachable(h)'
  BY <1>1, <1>17 DEF Mark, Die, waiterVars, publisherVars, registryVars
<1>18. ASSUME NEW m \in Messages,
             \/ Publish(m) \/ Lookup(m) \/ StartProcesses(m)
             \/ ResolvePending(m) \/ CancelOrphan(m)
      PROVE  Reachable(h)'
  BY <1>1, <1>18 DEF Publish, Lookup, StartProcesses, ResolvePending, CancelOrphan, waiterVars,
     registryVars
<1>19. CASE PassTtl \/ Sweeper \/ UNCHANGED vars
  BY <1>1, <1>19 DEF PassTtl, Sweeper, SweepRead, SweepOne, vars, waiterVars, publisherVars,
     registryVars
<1> QED
  BY <1>2, <1>3, <1>4, <1>5, <1>6, <1>7, <1>8, <1>9, <1>10, <1>11, <1>12, <1>13, <1>14,
     <1>15, <1>16, <1>17, <1>18, <1>19
  DEF Next, Waiter, Publisher, Cancel

\* A live, uncancelled handler that waits with an empty mailbox can be reached by the
\* next publisher, or a publisher that claimed its subscription is about to send.
THEOREM WaitersReachable == Spec => []NoDeafWaiter
<1>1. ASSUME Typed, Heard PROVE NoDeafWaiter
  <2> SUFFICES ASSUME NEW w \in (alive \cap Handlers) \ marked, wpc[w] = "waiting",
                      inbox[w] = <<>>, Subscription(w) \notin registry
               PROVE  Coming(Subscription(w)) # {}
    BY DEF NoDeafWaiter
  <2>1. PublisherHolds(Subscription(w))
    BY <1>1 DEF Heard, Listening, Reachable
  <2> QED BY <2>1 DEF PublisherHolds, Coming
<1>2. Init => Typed /\ Heard
  BY TypedInit, HeardInit
<1>3. Typed /\ Heard /\ [Next]_vars => Typed' /\ Heard'
  BY TypedStep, HeardStep
<1> QED BY <1>1, <1>2, <1>3, PTL DEF Spec

-----------------------------------------------------------------------------
(* The promise of MessageDelivery.                                         *)

(* How far a message is. Until its publisher has decided, it has no row,   *)
(* started nothing and has been sent to handlers at most.                  *)

Untold == {"idle", "lookup", "split", "claim", "esp", "start"}
Undecided == Untold \cup {"send"}

Stage(m) ==
    /\ ppc[m] \in Undecided \cup {"resolve"} => rowState[m] = "none"
    /\ ppc[m] \in Undecided => m \notin started
    /\ ppc[m] \in Untold => \A s \in Subscriptions : <<m, s>> \notin sent
    /\ ppc[m] = "send" => \A s \in Subscriptions : <<m, s>> \in sent => s \in HandlerSubscriptions
    /\ \A k \in orphans[m] : rowState[k] # "none"
    /\ m \in sweeping => rowState[m] # "none"

\* A drain works on a row there is, and alone has the row it has marked.
Drains ==
    \A v \in Waiters :
        /\ wpc[v] \in {"claim", "mark"} => rowState[row[v]] # "none"
        /\ wpc[v] = "send" => rowState[row[v]] \notin {"none", "pending"}
        /\ \A w \in Waiters :
             wpc[v] = "send" /\ wpc[w] = "send" /\ row[v] = row[w] => v = w

Staged == Drains /\ \A m \in Messages : Stage(m)

Sound == Typed /\ Exclusive /\ Staged

LEMMA StagedInit == Init => Staged
BY NoMessageAssumption DEF Init, Staged, Stage, Drains, Untold, Undecided

\* Rows come from their own publisher only, and no row goes away.
LEMMA RowsStay ==
    ASSUME Typed, NEW m \in Messages, rowState[m] # "none", [Next]_vars
    PROVE  rowState'[m] # "none"
<1>a. BufferTyped /\ WaitersTyped /\ WaiterSound
  BY DEF Typed, TypeOK
<1>1. CASE UNCHANGED rowState
  BY <1>1
<1>2. ASSUME NEW w \in Waiters, MarkDelivered(w) \/ MarkFails(w) PROVE rowState'[m] # "none"
  BY <1>a, <1>2 DEF MarkDelivered, MarkFails, BufferTyped
<1>3. ASSUME NEW k \in Messages, ExpireRow(k) PROVE rowState'[m] # "none"
  BY <1>a, <1>3 DEF ExpireRow, BufferTyped
<1>4. ASSUME NEW k \in Messages, ResolvePending(k) PROVE rowState'[m] # "none"
  BY <1>a, <1>4 DEF ResolvePending, BufferTyped
<1>5. ASSUME NEW k \in Messages, CancelOrphan(k) PROVE rowState'[m] # "none"
  <2>1. orphans[k] \subseteq Messages
    BY DEF Typed, TypeOK, PublishersTyped
  <2> QED BY <1>3, <1>5, <2>1 DEF CancelOrphan
<1>6. ASSUME SweepOne PROVE rowState'[m] # "none"
  BY <1>a, <1>3, <1>6 DEF SweepOne, BufferTyped
<1> QED
  BY <1>1, <1>2, <1>4, <1>5, <1>6
  DEF Next, Waiter, Cancel, Publisher, Sweeper, Register, Insert, Recheck, FindPending,
      ClaimOwn, SendDrained, Reinsert, Park, Receive, Mark, Release, Die, Publish, Lookup,
      Split, ClaimOne, SendOne, SendEspStarts, StartProcesses, PassTtl, SweepRead, vars,
      bufferVars

\* A row that was taken or expired is never pending again.
LEMMA RowsOver ==
    ASSUME Typed, Staged, NEW m \in Messages, rowState[m] \notin {"none", "pending"},
           [Next]_vars
    PROVE  rowState'[m] \notin {"none", "pending"}
<1>a. BufferTyped /\ WaitersTyped /\ WaiterSound /\ Stage(m)
  BY DEF Typed, TypeOK, Staged
<1>1. CASE UNCHANGED rowState
  BY <1>1
<1>2. ASSUME NEW w \in Waiters, MarkDelivered(w) \/ MarkFails(w)
      PROVE  rowState'[m] \notin {"none", "pending"}
  BY <1>a, <1>2 DEF MarkDelivered, MarkFails, BufferTyped
<1>3. ASSUME NEW k \in Messages, ExpireRow(k) PROVE rowState'[m] \notin {"none", "pending"}
  BY <1>a, <1>3 DEF ExpireRow, BufferTyped
<1>4. ASSUME NEW k \in Messages, ResolvePending(k)
      PROVE  rowState'[m] \notin {"none", "pending"}
  <2>1. k # m
    BY <1>a, <1>4 DEF ResolvePending, Stage
  <2> QED BY <1>a, <1>4, <2>1 DEF ResolvePending, BufferTyped
<1>5. ASSUME NEW k \in Messages, CancelOrphan(k)
      PROVE  rowState'[m] \notin {"none", "pending"}
  <2>1. orphans[k] \subseteq Messages
    BY DEF Typed, TypeOK, PublishersTyped
  <2> QED BY <1>3, <1>5, <2>1 DEF CancelOrphan
<1>6. ASSUME SweepOne PROVE rowState'[m] \notin {"none", "pending"}
  BY <1>a, <1>3, <1>6 DEF SweepOne, BufferTyped
<1> QED
  BY <1>1, <1>2, <1>4, <1>5, <1>6
  DEF Next, Waiter, Cancel, Publisher, Sweeper, Register, Insert, Recheck, FindPending,
      ClaimOwn, SendDrained, Reinsert, Park, Receive, Mark, Release, Die, Publish, Lookup,
      Split, ClaimOne, SendOne, SendEspStarts, StartProcesses, PassTtl, SweepRead, vars,
      bufferVars

LEMMA DrainsStep == Typed /\ Staged /\ [Next]_vars => Drains'
<1> SUFFICES ASSUME Typed, Staged, [Next]_vars PROVE Drains'
  OBVIOUS
<1>a. WaitersTyped /\ WaiterSound /\ BufferTyped /\ Drains
  BY DEF Typed, TypeOK, Staged
<1>b. \A m \in Messages : rowState[m] # "none" => rowState'[m] # "none"
  BY RowsStay
<1>c. \A m \in Messages :
        rowState[m] \notin {"none", "pending"} => rowState'[m] \notin {"none", "pending"}
  BY RowsOver
<1>d. \A v \in Waiters : wpc[v] \in {"claim", "mark", "send"} => row[v] \in Messages
  BY <1>a DEF WaiterSound
<1>1. ASSUME UNCHANGED <<wpc, row>> PROVE Drains'
  BY <1>a, <1>b, <1>c, <1>d, <1>1 DEF Drains
<1>2. ASSUME NEW w \in Waiters, NEW step, Goto(w, step), UNCHANGED row,
             step \notin {"claim", "mark", "send"}
      PROVE  Drains'
  <2>1. \A v \in Waiters : wpc'[v] = IF v = w THEN step ELSE wpc[v]
    BY <1>a, <1>2 DEF Goto, WaitersTyped
  <2> QED BY <1>a, <1>b, <1>c, <1>d, <1>2, <2>1 DEF Drains
<1>3. ASSUME NEW w \in Waiters, FindPending(w) PROVE Drains'
  <2>1. CASE OldestPending = {} /\ Goto(w, "park") /\ UNCHANGED row
    BY <1>2, <2>1
  <2>2. ASSUME NEW m \in OldestPending, row' = [row EXCEPT ![w] = m],
               Goto(w, IF w \in EspStarts THEN "mark" ELSE "claim")
        PROVE  Drains'
    <3>1. \A v \in Waiters : row'[v] = IF v = w THEN m ELSE row[v]
      BY <1>a, <2>2 DEF WaitersTyped
    <3>2. \A v \in Waiters : v # w => wpc'[v] = wpc[v]
      BY <1>a, <2>2 DEF Goto, WaitersTyped
    <3>3. wpc'[w] # "send"
      BY <1>a, <2>2 DEF Goto, WaitersTyped
    <3>4. m \in Messages /\ rowState[m] # "none"
      BY <2>2 DEF OldestPending, PendingRows
    <3> QED BY <1>a, <1>b, <1>c, <1>d, <3>1, <3>2, <3>3, <3>4 DEF Drains
  <2> QED BY <1>3, <2>1, <2>2 DEF FindPending
<1>4. ASSUME NEW w \in Waiters, ClaimOwn(w) PROVE Drains'
  <2>1. \A v \in Waiters : v # w => wpc'[v] = wpc[v]
    BY <1>a, <1>4 DEF ClaimOwn, Goto, WaitersTyped
  <2>2. wpc[w] = "claim" /\ wpc'[w] \in {"mark", "park"} /\ UNCHANGED row
    BY <1>a, <1>4 DEF ClaimOwn, Goto, WaitersTyped
  <2> QED BY <1>a, <1>b, <1>c, <1>d, <2>1, <2>2 DEF Drains
<1>5. ASSUME NEW w \in Waiters, MarkDelivered(w) PROVE Drains'
  <2>1. CASE Markable(row[w])
    <3>1. rowState[row[w]] = "pending" /\ row[w] \in Messages
      BY <1>d, <1>5, <2>1 DEF MarkDelivered, Markable
    <3>2. rowState'[row[w]] \in {"delivered", "gone"}
      BY <1>a, <1>5, <2>1, <3>1 DEF MarkDelivered, BufferTyped
    <3>3. \A v \in Waiters : wpc'[v] = IF v = w THEN "send" ELSE wpc[v]
      BY <1>a, <1>5, <2>1 DEF MarkDelivered, Goto, WaitersTyped
    <3>4. UNCHANGED row
      BY <1>5 DEF MarkDelivered
    <3>5. \A v \in Waiters : wpc[v] = "send" => row[v] # row[w]
      BY <1>a, <3>1 DEF Drains
    <3> QED BY <1>a, <1>b, <1>c, <1>d, <3>2, <3>3, <3>4, <3>5 DEF Drains
  <2>2. CASE ~Markable(row[w])
    BY <1>2, <1>5, <2>2 DEF MarkDelivered, AfterFailedMark
  <2> QED BY <2>1, <2>2
<1>6. ASSUME NEW w \in Waiters, MarkFails(w) PROVE Drains'
  BY <1>2, <1>6 DEF MarkFails, AfterFailedMark
<1>7. ASSUME NEW w \in Waiters, SendDrained(w) PROVE Drains'
  <2>1. \A v \in Waiters : wpc'[v] = IF v = w THEN "park" ELSE wpc[v]
    BY <1>a, <1>7 DEF SendDrained, Goto, WaitersTyped
  <2>2. \A v \in Waiters : v # w => row'[v] = row[v]
    BY <1>a, <1>7 DEF SendDrained, WaitersTyped
  <2> QED BY <1>a, <1>b, <1>c, <1>d, <2>1, <2>2 DEF Drains
<1>8. ASSUME NEW w \in Waiters,
             \/ Register(w) \/ Insert(w) \/ Recheck(w) \/ Reinsert(w) \/ Park(w) \/ Receive(w)
      PROVE  Drains'
  BY <1>2, <1>8 DEF Register, Insert, Recheck, Reinsert, Park, Receive
<1>9. ASSUME NEW w \in Waiters, Cancel(w) PROVE Drains'
  BY <1>1, <1>9 DEF Cancel, Mark, Release, Die, waiterVars
<1>10. ASSUME NEW m \in Messages, Publisher(m) PROVE Drains'
  BY <1>1, <1>10 DEF Publisher, Publish, Lookup, Split, ClaimOne, SendOne, SendEspStarts,
     StartProcesses, ResolvePending, CancelOrphan, waiterVars
<1>11. CASE PassTtl \/ Sweeper \/ UNCHANGED vars
  BY <1>1, <1>11 DEF PassTtl, Sweeper, SweepRead, SweepOne, vars, waiterVars
<1> QED
  BY <1>3, <1>4, <1>5, <1>6, <1>7, <1>8, <1>9, <1>10, <1>11 DEF Next, Waiter

\* What another actor does to a message that has no row: nothing.
LEMMA StageKept ==
    ASSUME Typed, Staged, [Next]_vars, NEW m \in Messages,
           ppc'[m] = ppc[m], orphans'[m] = orphans[m],
           rowState[m] = "none" => rowState'[m] = "none" /\ (m \in sweeping' => m \in sweeping)
                                   /\ \A s \in Subscriptions :
                                        <<m, s>> \in sent' => <<m, s>> \in sent,
           m \in started' => m \in started
    PROVE  Stage(m)'
<1>1. Stage(m) /\ orphans[m] \subseteq Messages
  BY DEF Staged, Typed, TypeOK, PublishersTyped
<1>2. \A k \in Messages : rowState[k] # "none" => rowState'[k] # "none"
  BY RowsStay
<1>3. HandlerSubscriptions' = HandlerSubscriptions
  BY DEF HandlerSubscriptions
<1> QED BY <1>1, <1>2, <1>3 DEF Stage, Untold, Undecided

LEMMA StageStep == Typed /\ Exclusive /\ Staged /\ [Next]_vars => \A m \in Messages : Stage(m)'
<1> SUFFICES ASSUME Typed, Exclusive, Staged, [Next]_vars, NEW m \in Messages
             PROVE  Stage(m)'
  OBVIOUS
<1>a. /\ WaitersTyped /\ WaiterSound /\ BufferTyped /\ PublishersTyped /\ OutcomeTyped
      /\ Drains /\ Stage(m) /\ TiersSound
  BY DEF Typed, TypeOK, Staged, Exclusive
<1>b. HandlerSubscriptions' = HandlerSubscriptions
  BY DEF HandlerSubscriptions
<1>c. \A k \in Messages : rowState[k] # "none" => rowState'[k] # "none"
  BY RowsStay
<1>1. ASSUME UNCHANGED <<ppc, orphans, rowState, sweeping, sent, started>> PROVE Stage(m)'
  BY <1>1, StageKept
<1>2. ASSUME NEW w \in Waiters, MarkDelivered(w) \/ MarkFails(w) PROVE Stage(m)'
  <2>1. rowState[m] = "none" => rowState'[m] = "none"
    BY <1>a, <1>2 DEF MarkDelivered, MarkFails, Markable, BufferTyped, Drains
  <2> QED BY <1>2, <2>1, StageKept DEF MarkDelivered, MarkFails, publisherVars
<1>3. ASSUME NEW w \in Waiters, SendDrained(w) PROVE Stage(m)'
  <2>1. rowState[row[w]] # "none"
    BY <1>a, <1>3 DEF SendDrained, Drains
  <2>2. rowState[m] = "none" => \A s : <<m, s>> \in sent' => <<m, s>> \in sent
    BY <1>3, <2>1 DEF SendDrained, Deliver
  <2> QED BY <1>3, <2>2, StageKept DEF SendDrained, publisherVars, bufferVars
<1>4. ASSUME NEW w \in Waiters,
             \/ Register(w) \/ Insert(w) \/ Recheck(w) \/ FindPending(w) \/ ClaimOwn(w)
             \/ Reinsert(w) \/ Park(w) \/ Receive(w) \/ Cancel(w)
      PROVE  Stage(m)'
  BY <1>1, <1>4 DEF Register, Insert, Recheck, FindPending, ClaimOwn, Reinsert, Park, Receive,
     Cancel, Mark, Release, Die, publisherVars, bufferVars
<1>5. ASSUME NEW k \in Messages, Publish(k) \/ Lookup(k) PROVE Stage(m)'
  <2>1. \/ ppc'[m] = ppc[m]
        \/ ppc[m] \in Untold /\ ppc'[m] \in {"lookup", "split"}
    BY <1>a, <1>5 DEF Publish, Lookup, PublishersTyped, Untold
  <2>2. UNCHANGED <<orphans, rowState, sweeping, sent, started>>
    BY <1>5 DEF Publish, Lookup, bufferVars
  <2> QED BY <1>a, <1>b, <2>1, <2>2 DEF Stage, Untold, Undecided
<1>6. ASSUME NEW k \in Messages, Split(k) PROVE Stage(m)'
  <2>1. ppc'[m] = ppc[m] \/ (ppc[m] \in Untold /\ ppc'[m] \in {"claim", "esp"})
    <3>1. PICK oneShot : ppc' = [ppc EXCEPT ![k] = ClaimStep(oneShot, {})]
      BY <1>6 DEF Split
    <3>2. ppc[k] = "split" /\ ClaimStep(oneShot, {}) \in {"claim", "esp"}
      BY <1>6 DEF Split, ClaimStep
    <3> QED BY <1>a, <3>1, <3>2 DEF PublishersTyped, Untold
  <2>2. UNCHANGED <<orphans, rowState, sweeping, sent, started>>
    BY <1>6 DEF Split, bufferVars
  <2> QED BY <1>a, <1>b, <2>1, <2>2 DEF Stage, Untold, Undecided
<1>7. ASSUME NEW k \in Messages, ClaimOne(k) PROVE Stage(m)'
  <2>1. ppc'[m] = ppc[m] \/ (ppc[m] \in Untold /\ ppc'[m] \in {"claim", "send", "esp"})
    <3>1. PICK rest, won : ppc' = [ppc EXCEPT ![k] = ClaimStep(rest, won)]
      BY <1>7 DEF ClaimOne
    <3>2. ppc[k] = "claim" /\ ClaimStep(rest, won) \in {"claim", "send", "esp"}
      BY <1>7 DEF ClaimOne, ClaimStep
    <3> QED BY <1>a, <3>1, <3>2 DEF PublishersTyped, Untold
  <2>2. UNCHANGED <<orphans, rowState, sweeping, sent, started>>
    BY <1>7 DEF ClaimOne, bufferVars
  <2> QED BY <1>a, <1>b, <2>1, <2>2 DEF Stage, Untold, Undecided
<1>8. ASSUME NEW k \in Messages, SendOne(k) PROVE Stage(m)'
  <2>1. PICK t \in claimed[k] : Deliver(k, {t})
    BY <1>8 DEF SendOne
  <2>2. UNCHANGED <<orphans, rowState, sweeping, started>> /\ ppc[k] = "send"
    BY <1>8 DEF SendOne, bufferVars
  <2>3. \A s : <<m, s>> \in sent' => <<m, s>> \in sent \/ (m = k /\ s \in HandlerSubscriptions)
    BY <1>a, <2>1 DEF Deliver, TiersSound
  <2>4. IF m = k THEN ppc'[m] \in {"send", "resolve"} ELSE ppc'[m] = ppc[m]
    BY <1>a, <1>8 DEF SendOne, PublishersTyped
  <2> QED BY <1>a, <1>b, <2>2, <2>3, <2>4 DEF Stage, Untold, Undecided
<1>9. ASSUME NEW k \in Messages, SendEspStarts(k) PROVE Stage(m)'
  <2>1. UNCHANGED <<orphans, rowState, sweeping, started>> /\ ppc[k] = "esp"
    BY <1>9 DEF SendEspStarts, bufferVars
  <2>2. \A s : <<m, s>> \in sent' => <<m, s>> \in sent \/ (m = k /\ s \in espTier[k])
    BY <1>9 DEF SendEspStarts, Deliver
  <2>3. IF m = k THEN ppc'[m] = IF espTier[k] = {} THEN "start" ELSE "resolve"
        ELSE ppc'[m] = ppc[m]
    BY <1>a, <1>9 DEF SendEspStarts, EspStep, PublishersTyped
  <2> QED BY <1>a, <1>b, <2>1, <2>2, <2>3 DEF Stage, Untold, Undecided
<1>10. ASSUME NEW k \in Messages, StartProcesses(k) PROVE Stage(m)'
  <2>1. UNCHANGED <<orphans, rowState, sweeping, sent>> /\ ppc[k] = "start"
    BY <1>10 DEF StartProcesses, bufferVars
  <2>2. m \in started' => m \in started \/ m = k
    BY <1>10 DEF StartProcesses
  <2>3. ppc'[m] = IF m = k THEN "resolve" ELSE ppc[m]
    BY <1>a, <1>10 DEF StartProcesses, PublishersTyped
  <2> QED BY <1>a, <1>b, <2>1, <2>2, <2>3 DEF Stage, Untold, Undecided
<1>11. ASSUME NEW k \in Messages, ResolvePending(k) PROVE Stage(m)'
  <2>1. UNCHANGED <<sweeping, sent, started>> /\ ppc[k] = "resolve"
    BY <1>11 DEF ResolvePending
  <2>2. CASE m = k
    <3>1. ppc'[m] \in {"done", "cancel"}
      BY <1>a, <1>11, <2>2 DEF ResolvePending, PublishersTyped
    <3>2. \A l \in orphans'[m] : rowState'[l] # "none"
      <4>1. \A l \in orphans'[m] : l \in Messages /\ rowState[l] # "none"
        BY <1>a, <1>11, <2>2 DEF ResolvePending, PublishersTyped, PendingRows, Stage
      <4> QED BY <1>c, <4>1
    <3> QED BY <1>a, <1>c, <2>1, <3>1, <3>2 DEF Stage, Untold, Undecided
  <2>3. CASE m # k
    <3>1. ppc'[m] = ppc[m] /\ orphans'[m] = orphans[m] /\ rowState'[m] = rowState[m]
      BY <1>a, <1>11, <2>3 DEF ResolvePending, PublishersTyped, BufferTyped
    <3> QED BY <2>1, <3>1, StageKept
  <2> QED BY <2>2, <2>3
<1>12. ASSUME NEW k \in Messages, CancelOrphan(k) PROVE Stage(m)'
  <2>1. PICK l \in orphans[k] : ExpireRow(l) /\ orphans' = [orphans EXCEPT ![k] = @ \ {l}]
    BY <1>12 DEF CancelOrphan
  <2>2. UNCHANGED <<sweeping, sent, started>> /\ ppc[k] = "cancel"
    BY <1>12 DEF CancelOrphan
  <2>3. rowState[l] # "none" /\ l \in Messages
    BY <1>a, <2>1 DEF Staged, Stage, PublishersTyped
  <2>4. rowState[m] = "none" => rowState'[m] = "none"
    BY <1>a, <2>1, <2>3 DEF ExpireRow, BufferTyped
  <2>5. IF m = k THEN ppc'[m] \in {"done", "cancel"} ELSE ppc'[m] = ppc[m]
    BY <1>a, <1>12 DEF CancelOrphan, PublishersTyped
  <2>6. orphans'[m] \subseteq orphans[m] /\ orphans[m] \subseteq Messages
    BY <1>a, <2>1 DEF PublishersTyped
  <2> QED BY <1>a, <1>b, <1>c, <2>2, <2>4, <2>5, <2>6 DEF Stage, Untold, Undecided
<1>13. ASSUME SweepOne PROVE Stage(m)'
  <2>1. PICK l \in sweeping : ExpireRow(l) /\ sweeping' = sweeping \ {l}
    BY <1>13 DEF SweepOne
  <2>2. rowState[l] # "none"
    BY <1>a, <2>1 DEF Staged, Stage, BufferTyped
  <2>3. rowState[m] = "none" => rowState'[m] = "none"
    BY <1>a, <2>1, <2>2 DEF ExpireRow, BufferTyped
  <2> QED BY <1>13, <2>1, <2>3, StageKept DEF SweepOne, publisherVars
<1>14. CASE SweepRead
  <2>1. rowState[m] = "none" => m \notin sweeping'
    BY <1>14 DEF SweepRead, PendingRows
  <2> QED BY <1>14, <2>1, StageKept DEF SweepRead, publisherVars
<1>15. CASE PassTtl \/ UNCHANGED vars
  BY <1>1, <1>15 DEF PassTtl, vars, publisherVars, bufferVars
<1> QED
  BY <1>2, <1>3, <1>4, <1>5, <1>6, <1>7, <1>8, <1>9, <1>10, <1>11, <1>12, <1>13, <1>14,
     <1>15
  DEF Next, Waiter, Publisher, Sweeper

LEMMA SoundInit == Init => Sound
BY TypedInit, ExclusiveInit, StagedInit DEF Sound

LEMMA SoundStep == Sound /\ [Next]_vars => Sound'
BY TypedStep, ExclusiveStep, DrainsStep, StageStep DEF Sound, Staged

-----------------------------------------------------------------------------
(* The refinement.                                                         *)

\* What MessageDelivery calls held.
Holding == [m \in Messages |-> IF HeldNow(m) THEN "held"
                               ELSE IF rowState[m] = "none" THEN "no" ELSE "over"]

LEMMA HoldingAt ==
    ASSUME NEW m \in Messages
    PROVE  /\ Holding[m] = "held" <=> HeldNow(m)
           /\ Holding[m] = "no" <=> ~HeldNow(m) /\ rowState[m] = "none"
BY DEF Holding

\* The parts of the state that nothing but holding a message is read from.
LEMMA HoldingUnchanged ==
    ASSUME \A m \in Messages : HeldNow(m)' <=> HeldNow(m),
           \A m \in Messages : rowState'[m] = "none" <=> rowState[m] = "none"
    PROVE  UNCHANGED Holding
BY DEF Holding

\* One message is no longer held; nothing else changes.
LEMMA HoldingEnds ==
    ASSUME NEW m \in Messages, ~HeldNow(m)', rowState'[m] # "none",
           \A k \in Messages \ {m} : HeldNow(k)' <=> HeldNow(k),
           \A k \in Messages \ {m} : rowState'[k] = "none" <=> rowState[k] = "none"
    PROVE  Holding' = [Holding EXCEPT ![m] = "over"]
BY DEF Holding

\* A drain that goes from a step at which it held no row to another such step, on
\* whatever row, holds what it held.
LEMMA HeldByOthers ==
    ASSUME UNCHANGED rowState, NEW w \in Waiters, wpc[w] # "send", wpc'[w] # "send",
           \A v \in Waiters \ {w} : wpc'[v] = wpc[v] /\ row'[v] = row[v],
           NEW m \in Messages
    PROVE  HeldNow(m)' <=> HeldNow(m)
BY DEF HeldNow

LEMMA SomeoneElseMoves ==
    ASSUME Sound, NEW w \in Waiters, NEW step, Goto(w, step)
    PROVE  wpc'[w] = step /\ \A v \in Waiters \ {w} : wpc'[v] = wpc[v]
BY DEF Sound, Typed, TypeOK, WaitersTyped, Goto

\* A message without a row is not held.
LEMMA NoRowNotHeld ==
    ASSUME Sound, NEW m \in Messages, rowState[m] = "none"
    PROVE  Holding[m] = "no"
<1>1. ~HeldNow(m)
  BY DEF HeldNow, Sound, Staged, Drains
<1> QED BY <1>1, HoldingAt

Abstractly == [Delivery!Next]_(Delivery!vars)

LEMMA Stutter ==
    ASSUME UNCHANGED <<sent, started, Holding>> PROVE Abstractly
BY DEF Abstractly, Delivery!vars, Holding

LEMMA Moves ==
    ASSUME NEW m \in Messages,
           \/ \E s \in Subscriptions :
                Delivery!DeliverDirectly(m, s) \/ Delivery!DeliverHeld(m, s)
           \/ Delivery!DeliverToEspStarts(m, espTier[m]) /\ espTier[m] \subseteq Subscriptions
                /\ espTier[m] \cap HandlerSubscriptions = {}
           \/ Delivery!StartProcesses(m) \/ Delivery!Hold(m) \/ Delivery!Drop(m)
    PROVE  Abstractly
<1>1. espTier[m] \subseteq Subscriptions /\ espTier[m] \cap HandlerSubscriptions = {} =>
        espTier[m] \in SUBSET (Subscriptions \ {s \in Subscriptions : s.waiter \in Handlers})
  BY DEF HandlerSubscriptions
<1> QED BY <1>1 DEF Abstractly, Delivery!Next

LEMMA InitRefines == Init => Delivery!Init
<1> SUFFICES ASSUME Init PROVE Delivery!Init
  OBVIOUS
<1>1. \A m \in Messages : ~HeldNow(m) /\ rowState[m] = "none"
  BY DEF Init, HeldNow
<1> QED BY <1>1 DEF Init, Delivery!Init

\* Drains and rows: taking a row holds the message, sending it delivers the held
\* message, and a failing mark or an expiry drops it.
LEMMA DrainRefines ==
    ASSUME Sound, NEW w \in Waiters, Waiter(w)
    PROVE  Abstractly
<1>a. /\ WaitersTyped /\ WaiterSound /\ BufferTyped /\ Drains
      /\ \A s \in HandlerSubscriptions : Possession(s)
      /\ \A m \in Messages : Stage(m)
  BY DEF Sound, Typed, TypeOK, Staged, Exclusive
<1>1. ASSUME NEW step, Goto(w, step), step # "send", wpc[w] # "send",
             \A v \in Waiters \ {w} : row'[v] = row[v],
             UNCHANGED <<rowState, sent, started>>
      PROVE  Abstractly
  <2>1. wpc'[w] = step /\ \A v \in Waiters \ {w} : wpc'[v] = wpc[v]
    BY <1>1, SomeoneElseMoves
  <2>2. \A m \in Messages : HeldNow(m)' <=> HeldNow(m)
    BY <1>1, <2>1, HeldByOthers
  <2> QED BY <1>1, <2>2, HoldingUnchanged, Stutter
<1>2. ASSUME Register(w) \/ Insert(w) \/ Recheck(w) \/ ClaimOwn(w) \/ Reinsert(w) \/ Park(w)
             \/ Receive(w)
      PROVE  Abstractly
  BY <1>1, <1>2 DEF Register, Insert, Recheck, ClaimOwn, Reinsert, Park, Receive, bufferVars
<1>3. ASSUME FindPending(w) PROVE Abstractly
  <2>1. \A v \in Waiters \ {w} : row'[v] = row[v]
    BY <1>a, <1>3 DEF FindPending, WaitersTyped
  <2>2. PICK step : Goto(w, step) /\ step # "send"
    BY <1>3 DEF FindPending
  <2> QED BY <1>1, <1>3, <2>1, <2>2 DEF FindPending, bufferVars
<1>4. ASSUME MarkDelivered(w) PROVE Abstractly
  <2>1. CASE Markable(row[w])
    <3>1. row[w] \in Messages /\ rowState[row[w]] = "pending" /\ wpc[w] = "mark"
      BY <1>a, <1>4, <2>1 DEF MarkDelivered, Markable, WaiterSound
    <3>2. wpc'[w] = "send" /\ \A v \in Waiters \ {w} : wpc'[v] = wpc[v]
      BY <1>4, <2>1, SomeoneElseMoves DEF MarkDelivered
    <3>3. UNCHANGED <<row, sent, started>>
      BY <1>4 DEF MarkDelivered
    <3>4. /\ rowState'[row[w]] \notin {"none", "pending"}
          /\ \A m \in Messages \ {row[w]} : rowState'[m] = rowState[m]
      BY <1>a, <1>4, <2>1, <3>1 DEF MarkDelivered, BufferTyped
    <3>5. \A m \in Messages : HeldNow(m)' <=> HeldNow(m)
      BY <3>1, <3>2, <3>3, <3>4 DEF HeldNow
    <3>6. \A m \in Messages : rowState'[m] = "none" <=> rowState[m] = "none"
      BY <3>1, <3>4
    <3> QED BY <3>3, <3>5, <3>6, HoldingUnchanged, Stutter
  <2>2. CASE ~Markable(row[w])
    BY <1>1, <1>4, <2>2 DEF MarkDelivered, AfterFailedMark
  <2> QED BY <2>1, <2>2
<1>5. ASSUME MarkFails(w) PROVE Abstractly
  <2>1. CASE UNCHANGED rowState
    BY <1>1, <1>5, <2>1 DEF MarkFails, AfterFailedMark
  <2>2. CASE rowState' # rowState
    <3>0. PICK m \in Messages : m = row[w]
      BY <1>a, <1>5 DEF MarkFails, WaiterSound
    <3>1. rowState[m] = "pending" /\ wpc[w] = "mark"
      BY <1>5, <2>2, <3>0 DEF MarkFails, Markable
    <3>2. wpc'[w] # "send" /\ \A v \in Waiters \ {w} : wpc'[v] = wpc[v]
      BY <1>5, SomeoneElseMoves DEF MarkFails, AfterFailedMark
    <3>3. UNCHANGED <<row, sent, started>>
      BY <1>5 DEF MarkFails
    <3>4. /\ rowState'[m] \notin {"none", "pending"}
          /\ \A k \in Messages \ {m} : rowState'[k] = rowState[k]
      BY <1>a, <1>5, <2>2, <3>0 DEF MarkFails, BufferTyped
    <3>5. \A v \in Waiters : wpc[v] = "send" => row[v] # m
      BY <1>a, <3>1 DEF Drains
    <3>6. HeldNow(m) /\ ~HeldNow(m)'
      BY <3>1, <3>2, <3>3, <3>4, <3>5 DEF HeldNow
    <3>7. \A k \in Messages \ {m} : HeldNow(k)' <=> HeldNow(k)
      BY <3>1, <3>2, <3>3, <3>4 DEF HeldNow
    <3>8. Holding' = [Holding EXCEPT ![m] = "over"]
      BY <3>4, <3>6, <3>7, HoldingEnds
    <3>9. Delivery!Drop(m)
      BY <3>3, <3>6, <3>8 DEF Delivery!Drop, Holding
    <3> QED BY <3>9, Moves
  <2> QED BY <2>1, <2>2
<1>6. ASSUME SendDrained(w) PROVE Abstractly
  <2>1. PICK m \in Messages : m = row[w]
    BY <1>a, <1>6 DEF SendDrained, WaiterSound
  <2>2. PICK s \in Subscriptions : s = Subscription(w)
    BY <1>a, <1>6, SubscriptionTyped DEF SendDrained
  <2>3. wpc[w] = "send" /\ rowState[m] \notin {"none", "pending"}
    BY <1>a, <1>6, <2>1 DEF SendDrained, Drains
  <2>4. UNCHANGED <<rowState, started>> /\ sent' = sent \cup {<<m, s>>}
    BY <1>6, <2>1, <2>2 DEF SendDrained, Deliver, bufferVars
  <2>5. wpc'[w] # "send" /\ \A v \in Waiters \ {w} : wpc'[v] = wpc[v] /\ row'[v] = row[v]
    BY <1>a, <1>6, SomeoneElseMoves DEF SendDrained, WaitersTyped
  <2>6. \A v \in Waiters \ {w} : wpc[v] = "send" => row[v] # m
    BY <1>a, <2>1, <2>3 DEF Drains
  <2>7. HeldNow(m) /\ ~HeldNow(m)'
    BY <2>1, <2>3, <2>4, <2>5, <2>6 DEF HeldNow
  <2>8. \A k \in Messages \ {m} : HeldNow(k)' <=> HeldNow(k)
    BY <2>1, <2>3, <2>4, <2>5 DEF HeldNow
  <2>9. Holding' = [Holding EXCEPT ![m] = "over"]
    BY <2>3, <2>4, <2>7, <2>8, HoldingEnds
  <2>10. s.waiter \in Handlers => \A k \in Messages : <<k, s>> \notin sent
    <3>1. s.waiter = w /\ s.number = number[s.waiter]
      BY <2>2 DEF Subscription
    <3> QED BY <1>a, <2>3, <3>1 DEF Possession, DrainHolds, Spent, HandlerSubscriptions
  <2>11. Delivery!DeliverHeld(m, s)
    BY <2>4, <2>7, <2>9, <2>10 DEF Delivery!DeliverHeld, Delivery!Free, Holding
  <2> QED BY <2>11, Moves
<1> QED BY <1>2, <1>3, <1>4, <1>5, <1>6 DEF Waiter

\* A row expires: the message that was still held is dropped; of any other, the
\* drain that has its row, or nobody, holds it as before.
LEMMA ExpiryRefines ==
    ASSUME Sound, NEW k \in Messages, rowState[k] # "none", ExpireRow(k),
           UNCHANGED <<wpc, row, sent, started>>
    PROVE  Abstractly
<1>a. BufferTyped /\ Drains
  BY DEF Sound, Typed, TypeOK, Staged
<1>b. \A m \in Messages \ {k} : rowState'[m] = rowState[m]
  BY <1>a DEF ExpireRow, BufferTyped
<1>c. \A m \in Messages \ {k} : HeldNow(m)' <=> HeldNow(m)
  BY <1>b DEF HeldNow
<1>d. rowState'[k] \notin {"none", "pending"}
  BY <1>a DEF ExpireRow, BufferTyped
<1>1. CASE rowState[k] = "pending"
  <2>1. HeldNow(k) /\ ~HeldNow(k)'
    BY <1>a, <1>d, <1>1 DEF HeldNow, Drains
  <2>2. Holding' = [Holding EXCEPT ![k] = "over"]
    BY <1>b, <1>c, <1>d, <2>1, HoldingEnds
  <2>3. Delivery!Drop(k)
    BY <2>1, <2>2 DEF Delivery!Drop, Holding
  <2> QED BY <2>3, Moves
<1>2. CASE rowState[k] # "pending"
  <2>1. HeldNow(k)' <=> HeldNow(k)
    BY <1>d, <1>2 DEF HeldNow
  <2> QED BY <1>b, <1>c, <1>d, <2>1, HoldingUnchanged, Stutter
<1> QED BY <1>1, <1>2

\* The three tiers and the buffer of a publication.
LEMMA PublisherRefines ==
    ASSUME Sound, NEW m \in Messages, Publisher(m)
    PROVE  Abstractly
<1>a. /\ PublishersTyped /\ BufferTyped /\ Stage(m) /\ TiersSound /\ Drains
      /\ \A s \in HandlerSubscriptions : Possession(s)
  BY DEF Sound, Typed, TypeOK, Staged, Exclusive
<1>1. ASSUME UNCHANGED <<rowState, wpc, row>> PROVE UNCHANGED Holding
  BY <1>1 DEF Holding, HeldNow
<1>2. ASSUME Publish(m) \/ Lookup(m) \/ Split(m) \/ ClaimOne(m) PROVE Abstractly
  BY <1>1, <1>2, Stutter DEF Publish, Lookup, Split, ClaimOne, waiterVars, bufferVars
<1>3. ASSUME SendOne(m) PROVE Abstractly
  <2>1. PICK s \in claimed[m] : Deliver(m, {s})
    BY <1>3 DEF SendOne
  <2>2. s \in HandlerSubscriptions /\ s \in Subscriptions
    BY <1>a, <2>1 DEF TiersSound, PublishersTyped
  <2>3. ppc[m] = "send" /\ UNCHANGED <<rowState, wpc, row, started>>
    BY <1>3 DEF SendOne, waiterVars, bufferVars
  <2>4. sent' = sent \cup {<<m, s>>} /\ UNCHANGED Holding
    BY <1>1, <2>1, <2>3 DEF Deliver
  <2>5. /\ Holding[m] = "no" /\ m \notin started
        /\ \A t \in Subscriptions : <<m, t>> \in sent => t \in HandlerSubscriptions
    BY <1>a, <2>3, NoRowNotHeld DEF Stage, Undecided
  <2>6. \A k \in Messages : <<k, s>> \notin sent
    BY <1>a, <2>1, <2>2 DEF Possession, PublisherHolds, Spent
  <2>7. Delivery!DeliverDirectly(m, s)
    BY <2>2, <2>3, <2>4, <2>5, <2>6
    DEF Delivery!DeliverDirectly, Delivery!Free, Delivery!Receivers, Holding, HandlerSubscriptions
  <2> QED BY <2>2, <2>7, Moves
<1>4. ASSUME SendEspStarts(m) PROVE Abstractly
  <2>1. ppc[m] = "esp" /\ UNCHANGED <<rowState, wpc, row, started>>
    BY <1>4 DEF SendEspStarts, waiterVars, bufferVars
  <2>2. sent' = sent \cup {<<m, s>> : s \in espTier[m]} /\ UNCHANGED Holding
    BY <1>1, <1>4, <2>1 DEF SendEspStarts, Deliver
  <2>3. /\ Holding[m] = "no" /\ m \notin started
        /\ \A s \in Subscriptions : <<m, s>> \notin sent
    BY <1>a, <2>1, NoRowNotHeld DEF Stage, Untold, Undecided
  <2>4. espTier[m] \subseteq Subscriptions /\ espTier[m] \cap HandlerSubscriptions = {}
    BY <1>a DEF TiersSound, PublishersTyped
  <2>5. Delivery!DeliverToEspStarts(m, espTier[m])
    BY <2>1, <2>2, <2>3, <2>4
    DEF Delivery!DeliverToEspStarts, Delivery!Receivers, Holding, HandlerSubscriptions
  <2> QED BY <2>4, <2>5, Moves
<1>5. ASSUME StartProcesses(m) PROVE Abstractly
  <2>1. ppc[m] = "start" /\ UNCHANGED <<rowState, wpc, row, sent>> /\ UNCHANGED Holding
    BY <1>1, <1>5 DEF StartProcesses, waiterVars, bufferVars
  <2>2. CASE started' = started
    BY <2>1, <2>2, Stutter
  <2>3. CASE started' = started \cup {m}
    <3>1. /\ Holding[m] = "no" /\ m \notin started
          /\ \A s \in Subscriptions : <<m, s>> \notin sent
      BY <1>a, <2>1, NoRowNotHeld DEF Stage, Untold, Undecided
    <3>2. Delivery!StartProcesses(m)
      BY <2>1, <2>3, <3>1 DEF Delivery!StartProcesses, Delivery!Receivers, Holding
    <3> QED BY <3>2, Moves
  <2> QED BY <1>5, <2>2, <2>3 DEF StartProcesses
<1>6. ASSUME ResolvePending(m) PROVE Abstractly
  <2>1. ppc[m] = "resolve" /\ UNCHANGED <<wpc, row, sent, started>>
    BY <1>6 DEF ResolvePending, waiterVars
  <2>2. CASE UNCHANGED rowState
    BY <1>1, <2>1, <2>2, Stutter
  <2>3. CASE rowState' # rowState
    <3>1. ~HasRecipients(m) /\ rowState' = [rowState EXCEPT ![m] = "pending"]
      BY <1>6, <2>3 DEF ResolvePending
    <3>2. rowState[m] = "none" /\ Holding[m] = "no"
      BY <1>a, <2>1, NoRowNotHeld DEF Stage
    <3>3. HeldNow(m)' /\ rowState'[m] = "pending"
      BY <1>a, <3>1 DEF HeldNow, BufferTyped
    <3>4. \A k \in Messages \ {m} : rowState'[k] = rowState[k] /\ (HeldNow(k)' <=> HeldNow(k))
      BY <1>a, <2>1, <3>1 DEF HeldNow, BufferTyped
    <3>5. Holding' = [Holding EXCEPT ![m] = "held"]
      BY <3>3, <3>4 DEF Holding
    <3>6. Delivery!Hold(m)
      BY <2>1, <3>1, <3>2, <3>5 DEF Delivery!Hold, Delivery!Receivers, HasRecipients, Holding
    <3> QED BY <3>6, Moves
  <2> QED BY <2>2, <2>3
<1>7. ASSUME CancelOrphan(m) PROVE Abstractly
  <2>1. PICK k \in orphans[m] : ExpireRow(k)
    BY <1>7 DEF CancelOrphan
  <2>2. k \in Messages /\ rowState[k] # "none"
    BY <1>a, <2>1 DEF Stage, PublishersTyped
  <2> QED BY <1>7, <2>1, <2>2, ExpiryRefines DEF CancelOrphan, waiterVars
<1> QED BY <1>2, <1>3, <1>4, <1>5, <1>6, <1>7 DEF Publisher

LEMMA StepRefines == Sound /\ [Next]_vars => Abstractly
<1> SUFFICES ASSUME Sound, [Next]_vars PROVE Abstractly
  OBVIOUS
<1>1. ASSUME UNCHANGED <<rowState, wpc, row, sent, started>> PROVE Abstractly
  <2>1. UNCHANGED Holding
    BY <1>1 DEF Holding, HeldNow
  <2> QED BY <1>1, <2>1, Stutter
<1>2. ASSUME NEW w \in Waiters, Cancel(w) PROVE Abstractly
  BY <1>1, <1>2 DEF Cancel, Mark, Release, Die, waiterVars, bufferVars
<1>3. CASE PassTtl \/ SweepRead \/ UNCHANGED vars
  BY <1>1, <1>3 DEF PassTtl, SweepRead, vars, waiterVars, bufferVars
<1>4. CASE SweepOne
  <2>1. PICK k \in sweeping : ExpireRow(k)
    BY <1>4 DEF SweepOne
  <2>2. k \in Messages /\ rowState[k] # "none"
    BY <2>1 DEF Sound, Typed, TypeOK, BufferTyped, Staged, Stage
  <2> QED BY <1>4, <2>1, <2>2, ExpiryRefines DEF SweepOne, waiterVars
<1> QED
  BY <1>2, <1>3, <1>4, DrainRefines, PublisherRefines DEF Next, Sweeper

\* The actors together keep the promise of MessageDelivery: every step of theirs is
\* a step of it or changes nothing it speaks of.
THEOREM DeliveryIsKept == Spec => DeliveryKept
<1>1. Init => Sound
  BY SoundInit
<1>2. Sound /\ [Next]_vars => Sound'
  BY SoundStep
<1>3. Init => Delivery!Init
  BY InitRefines
<1>4. Sound /\ [Next]_vars => [Delivery!Next]_(Delivery!vars)
  BY StepRefines DEF Abstractly
<1> QED BY <1>1, <1>2, <1>3, <1>4, PTL DEF Spec, DeliveryKept, Delivery!Spec
=============================================================================
