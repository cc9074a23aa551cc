------------------------ MODULE BfwEngineClient_proofs ------------------------
(***************************************************************************)
(* The NotificationClient for any number of connects, subscriptions, topics, *)
(* channels and disconnects.                                                *)
(***************************************************************************)
EXTENDS BfwEngineClient, TLAPS, FiniteSetTheorems, SequenceTheorems

ChannelStates == {"joining", "joined", "errored", "closed"}
ChannelsOf(connects, listeners) ==
    [topic : Topics, socket : connects, listeners : listeners, state : ChannelStates]
ChannelRecords == ChannelsOf(Calls, SUBSET Subscribers)
SocketRecords == [state : {"none", "connecting", "open", "gone"}, born : Nat, cuts : 0..MaxDisconnects]
SubscriptionStates == {"joining", "granted", "active", "disposed", "rejected"}
SubscriptionsTo(channel) ==
    [state : SubscriptionStates, topic : Topics, chan : channel, cuts : 0..MaxDisconnects]
SubscriptionRecords == SubscriptionsTo(0..Len(chans))

\* The parts of ClientTypeOK.
ConnectsTyped ==
    /\ calls \in Seq({"token", "opening", "resolved", "rejected"})
    /\ sockets \in Seq(SocketRecords)
    /\ DOMAIN sockets = Calls /\ Len(calls) <= MaxCalls
    /\ socket \in 0..Len(calls) /\ (socket # 0 => sockets[socket].state # "none")
    /\ cuts \in 0..MaxDisconnects

ChannelsTyped == chans \in Seq(ChannelRecords) /\ channels \in [Topics -> 0..Len(chans)]

SubscribersTyped == subs \in Seq(SubscriptionRecords)

Typed == ConnectsTyped /\ ChannelsTyped /\ SubscribersTyped

\* The three parts are ClientTypeOK.
LEMMA TypeParts == ClientTypeOK <=> Typed
BY DEF ClientTypeOK, Typed, ConnectsTyped, ChannelsTyped, SubscribersTyped, ChannelRecords, ChannelsOf,
       ChannelStates, SocketRecords, SubscriptionRecords, SubscriptionsTo, SubscriptionStates

\* An entry of a list.
LEMMA Entry ==
    ASSUME NEW S, NEW q \in Seq(S), NEW i \in DOMAIN q
    PROVE  q[i] \in S
OBVIOUS

\* A list with one entry replaced.
LEMMA Replaced ==
    ASSUME NEW S, NEW q \in Seq(S), NEW i \in DOMAIN q, NEW x \in S
    PROVE  /\ [q EXCEPT ![i] = x] \in Seq(S)
           /\ Len([q EXCEPT ![i] = x]) = Len(q)
           /\ DOMAIN [q EXCEPT ![i] = x] = DOMAIN q
OBVIOUS

\* A list over a set is one over every larger set.
LEMMA Wider ==
    ASSUME NEW S, NEW T, S \subseteq T, NEW q \in Seq(S)
    PROVE  q \in Seq(T)
OBVIOUS

-----------------------------------------------------------------------------
(* What the operators on channels, sockets and subscriptions keep           *)

\* A channel with another state.
LEMMA ChannelState ==
    ASSUME NEW P, NEW Q, NEW R, NEW S, NEW x \in S,
           NEW r \in [topic : P, socket : Q, listeners : R, state : S]
    PROVE  /\ [r EXCEPT !.state = x] \in [topic : P, socket : Q, listeners : R, state : S]
           /\ [r EXCEPT !.state = x].topic = r.topic
           /\ [r EXCEPT !.state = x].socket = r.socket
           /\ [r EXCEPT !.state = x].listeners = r.listeners
           /\ [r EXCEPT !.state = x].state = x
OBVIOUS

\* A subscription with another state.
LEMMA SubscriptionState ==
    ASSUME NEW P, NEW Q, NEW R, NEW S, NEW x \in S,
           NEW r \in [state : S, topic : P, chan : Q, cuts : R]
    PROVE  /\ [r EXCEPT !.state = x] \in [state : S, topic : P, chan : Q, cuts : R]
           /\ [r EXCEPT !.state = x].topic = r.topic
           /\ [r EXCEPT !.state = x].chan = r.chan
           /\ [r EXCEPT !.state = x].cuts = r.cuts
           /\ [r EXCEPT !.state = x].state = x
OBVIOUS

\* A socket with another state.
LEMMA SocketState ==
    ASSUME NEW S, NEW B, NEW C, NEW x \in S, NEW r \in [state : S, born : B, cuts : C]
    PROVE  /\ [r EXCEPT !.state = x] \in [state : S, born : B, cuts : C]
           /\ [r EXCEPT !.state = x].born = r.born
           /\ [r EXCEPT !.state = x].cuts = r.cuts
           /\ [r EXCEPT !.state = x].state = x
OBVIOUS

\* c and d differ at most in their states.
SameChannel(c, d) == c.topic = d.topic /\ c.socket = d.socket /\ c.listeners = d.listeners

\* A socket that fails changes states of channels, and closes none.
LEMMA ErroredKeeps ==
    ASSUME ChannelsTyped, NEW i
    PROVE  /\ DOMAIN Errored(i) = DOMAIN chans
           /\ Errored(i) \in Seq(ChannelRecords)
           /\ Len(Errored(i)) = Len(chans)
           /\ \A c \in DOMAIN chans :
                /\ SameChannel(Errored(i)[c], chans[c])
                /\ Errored(i)[c].state = "closed" <=> chans[c].state = "closed"
<1>1. \A c \in DOMAIN chans :
        /\ Errored(i)[c] \in ChannelRecords
        /\ SameChannel(Errored(i)[c], chans[c])
        /\ Errored(i)[c].state = "closed" <=> chans[c].state = "closed"
  <2> TAKE c \in DOMAIN chans
  <2>1. chans[c] \in ChannelRecords
    BY Entry DEF ChannelsTyped
  <2> DEFINE failed == [chans[c] EXCEPT !.state = "errored"]
  <2>2. /\ failed \in ChannelRecords
        /\ SameChannel(failed, chans[c])
        /\ failed.state = "errored"
    BY <2>1, ChannelState DEF ChannelRecords, ChannelsOf, ChannelStates, SameChannel
  <2>3. \/ Errored(i)[c] = chans[c]
        \/ Errored(i)[c] = failed /\ chans[c].state \in {"joining", "joined"}
    BY DEF Errored
  <2> HIDE DEF failed
  <2> QED BY <2>1, <2>2, <2>3 DEF SameChannel
<1>2. Errored(i) = [c \in 1..Len(chans) |-> Errored(i)[c]]
  BY DEF Errored, ChannelsTyped
<1>3. DOMAIN chans = 1..Len(chans) /\ Len(chans) \in Nat
  BY DEF ChannelsTyped
<1>4. Errored(i) \in Seq(ChannelRecords) /\ Len(Errored(i)) = Len(chans)
  BY <1>1, <1>2, <1>3
<1> QED BY <1>1, <1>2, <1>3, <1>4

\* left has the channels of q, of which only those of the topic of c may be closed.
OnlyTopicLeft(left, q, c) ==
    /\ DOMAIN left = DOMAIN q /\ left \in Seq(ChannelRecords) /\ Len(left) = Len(q)
    /\ \A d \in DOMAIN q :
         /\ SameChannel(left[d], q[d])
         /\ \/ left[d].state = q[d].state
            \/ d # c /\ q[d].topic = q[c].topic /\ q[d].state # "closed"

\* leaveOpenTopic changes states of other channels of the topic.
LEMMA OpenTopicLeftKeeps ==
    ASSUME NEW q \in Seq(ChannelRecords), NEW c
    PROVE  OnlyTopicLeft(OpenTopicLeft(q, c), q, c)
<1> DEFINE left == OpenTopicLeft(q, c)
<1>1. \A d \in DOMAIN q :
        /\ left[d] \in ChannelRecords
        /\ SameChannel(left[d], q[d])
        /\ \/ left[d].state = q[d].state
           \/ d # c /\ q[d].topic = q[c].topic /\ q[d].state # "closed"
  <2> TAKE d \in DOMAIN q
  <2>1. q[d] \in ChannelRecords
    BY Entry
  <2> DEFINE closed == [q[d] EXCEPT !.state = "closed"]
  <2>2. closed \in ChannelRecords /\ SameChannel(closed, q[d])
    BY <2>1, ChannelState DEF ChannelRecords, ChannelsOf, ChannelStates, SameChannel
  <2>3. \/ left[d] = q[d]
        \/ /\ left[d] = closed
           /\ d # c /\ q[d].topic = q[c].topic /\ q[d].state # "closed"
    BY DEF OpenTopicLeft
  <2> HIDE DEF closed, left
  <2> QED BY <2>1, <2>2, <2>3 DEF SameChannel
<1>2. left = [d \in 1..Len(q) |-> left[d]]
  BY DEF OpenTopicLeft
<1>3. DOMAIN q = 1..Len(q) /\ Len(q) \in Nat
  OBVIOUS
<1> HIDE DEF left
<1>4. left \in Seq(ChannelRecords) /\ Len(left) = Len(q)
  BY <1>1, <1>2, <1>3
<1>5. DOMAIN left = DOMAIN q
  BY <1>2, <1>3
<1>6. OnlyTopicLeft(left, q, c)
  BY <1>1, <1>4, <1>5 DEF OnlyTopicLeft
<1> QED BY <1>6 DEF left

\* SubsTo changes the states of ss and nothing else.
LEMMA SubsToKeeps ==
    ASSUME SubscribersTyped, NEW ss, NEW state \in SubscriptionStates
    PROVE  /\ DOMAIN SubsTo(ss, state) = DOMAIN subs
           /\ SubsTo(ss, state) \in Seq(SubscriptionRecords)
           /\ Len(SubsTo(ss, state)) = Len(subs)
           /\ \A s \in DOMAIN subs :
                /\ SubsTo(ss, state)[s].topic = subs[s].topic
                /\ SubsTo(ss, state)[s].chan = subs[s].chan
                /\ SubsTo(ss, state)[s].cuts = subs[s].cuts
                /\ s \in ss => SubsTo(ss, state)[s].state = state
                /\ s \notin ss => SubsTo(ss, state)[s] = subs[s]
<1> DEFINE to == SubsTo(ss, state)
<1>1. \A s \in DOMAIN subs :
        /\ to[s] \in SubscriptionRecords
        /\ to[s].topic = subs[s].topic /\ to[s].chan = subs[s].chan /\ to[s].cuts = subs[s].cuts
        /\ s \in ss => to[s].state = state
        /\ s \notin ss => to[s] = subs[s]
  <2> TAKE s \in DOMAIN subs
  <2>1. subs[s] \in SubscriptionRecords
    BY Entry DEF SubscribersTyped
  <2> DEFINE moved == [subs[s] EXCEPT !.state = state]
  <2>2. /\ moved \in SubscriptionRecords /\ moved.state = state
        /\ moved.topic = subs[s].topic /\ moved.chan = subs[s].chan /\ moved.cuts = subs[s].cuts
    BY <2>1, SubscriptionState DEF SubscriptionRecords, SubscriptionsTo
  <2>3. /\ s \in ss => to[s] = moved
        /\ s \notin ss => to[s] = subs[s]
    BY DEF SubsTo, Subscribers
  <2> HIDE DEF moved, to
  <2> QED BY <2>1, <2>2, <2>3
<1>2. to = [s \in 1..Len(subs) |-> to[s]]
  BY DEF SubsTo, Subscribers, SubscribersTyped
<1>3. DOMAIN subs = 1..Len(subs) /\ Len(subs) \in Nat
  BY DEF SubscribersTyped
<1> HIDE DEF to
<1>4. to \in Seq(SubscriptionRecords) /\ Len(to) = Len(subs)
  BY <1>1, <1>2, <1>3
<1> QED BY <1>1, <1>2, <1>3, <1>4 DEF to

-----------------------------------------------------------------------------
(* Types                                                                   *)

\* A step that touches neither connects nor sockets.
LEMMA ConnectsUnchanged ==
    ConnectsTyped /\ UNCHANGED <<calls, sockets, socket, cuts>> => ConnectsTyped'
BY DEF ConnectsTyped, Calls

\* The channels of a step, over the calls and subscribers there were before it.
LEMMA ChannelsAfter ==
    ASSUME chans' \in Seq(ChannelRecords), channels' \in [Topics -> 0..Len(chans')],
           Calls \subseteq Calls', Subscribers \subseteq Subscribers'
    PROVE  ChannelsTyped'
<1>1. ChannelRecords \subseteq ChannelRecords'
  BY DEF ChannelRecords, ChannelsOf
<1>2. chans' \in Seq(ChannelRecords')
  BY <1>1, Wider
<1> QED BY <1>2 DEF ChannelsTyped

\* A step that touches no channel.
LEMMA ChannelsUnchanged ==
    ASSUME ChannelsTyped, UNCHANGED <<chans, channels>>,
           Calls \subseteq Calls', Subscribers \subseteq Subscribers'
    PROVE  ChannelsTyped'
BY ChannelsAfter DEF ChannelsTyped

\* The subscriptions of a step, over the channels there were before it.
LEMMA SubscribersAfter ==
    ASSUME ChannelsTyped, ChannelsTyped', subs' \in Seq(SubscriptionRecords),
           Len(chans) <= Len(chans')
    PROVE  SubscribersTyped'
<1>1. 0..Len(chans) \subseteq 0..Len(chans')
  BY DEF ChannelsTyped
<1>2. SubscriptionRecords \subseteq SubscriptionRecords'
  BY <1>1 DEF SubscriptionRecords, SubscriptionsTo
<1> QED BY <1>2, Wider DEF SubscribersTyped

\* A step that touches no subscription.
LEMMA SubscribersUnchanged ==
    ASSUME ChannelsTyped, ChannelsTyped', SubscribersTyped, UNCHANGED subs,
           Len(chans) <= Len(chans')
    PROVE  SubscribersTyped'
BY SubscribersAfter DEF SubscribersTyped

\* A new client is well typed.
LEMMA TypeInit == ClientInit => Typed
<1> SUFFICES ASSUME ClientInit PROVE Typed
  OBVIOUS
<1> USE ClientAssumption DEF ClientInit
<1>1. ConnectsTyped
  BY DEF ConnectsTyped, Calls
<1>2. ChannelsTyped
  BY DEF ChannelsTyped
<1>3. SubscribersTyped
  BY DEF SubscribersTyped
<1> QED BY <1>1, <1>2, <1>3 DEF Typed

\* The steps of connect() and of the sockets keep the types of both.
LEMMA ConnectStepTyped ==
    ASSUME ConnectsTyped,
           \/ Connect
           \/ \E i \in Calls : \/ TokenRejected(i) \/ TokenResolved(i) \/ ConnectTimesOut(i)
                               \/ SocketOpens(i) \/ SocketFails(i)
    PROVE  ConnectsTyped' /\ Calls \subseteq Calls'
<1>1. CASE Connect
  <2>1. [state |-> "none", born |-> 0, cuts |-> 0] \in SocketRecords
    BY ClientAssumption DEF SocketRecords
  <2>2. sockets' \in Seq(SocketRecords) /\ DOMAIN sockets' = 1..Len(calls')
    BY <1>1, <2>1 DEF Connect, ConnectsTyped, Calls
  <2> QED BY <1>1, <2>2, ClientAssumption DEF Connect, ConnectsTyped, Calls
<1>2. ASSUME NEW i \in Calls, TokenRejected(i) \/ ConnectTimesOut(i)
      PROVE  ConnectsTyped' /\ Calls \subseteq Calls'
  BY <1>2 DEF TokenRejected, ConnectTimesOut, Settle, ConnectsTyped, Calls
<1>3. ASSUME NEW i \in Calls, TokenResolved(i)
      PROVE  ConnectsTyped' /\ Calls \subseteq Calls'
  <2> DEFINE fresh == [state |-> "connecting", cuts |-> cuts,
                      born |-> 1 + Cardinality({j \in Calls : sockets[j].state # "none"})]
  <2>1. Cardinality({j \in Calls : sockets[j].state # "none"}) \in Nat
    <3>1. IsFiniteSet(1..Len(calls)) /\ 1..Len(calls) = Calls
      BY FS_Interval DEF ConnectsTyped, Calls
    <3> QED BY <3>1, FS_Subset, FS_CardinalityType
  <2>2. fresh \in SocketRecords
    BY <2>1 DEF SocketRecords, ConnectsTyped
  <2>3. sockets' = [sockets EXCEPT ![i] = fresh]
    BY <1>3 DEF TokenResolved
  <2>4. i \in DOMAIN sockets /\ fresh.state = "connecting"
    BY DEF ConnectsTyped
  <2> HIDE DEF fresh
  <2>5. sockets' \in Seq(SocketRecords) /\ DOMAIN sockets' = Calls /\ sockets'[i] = fresh
    BY <2>2, <2>3, <2>4 DEF ConnectsTyped
  <2> QED BY <1>3, <2>4, <2>5 DEF TokenResolved, Settle, ConnectsTyped, Calls
<1>4. ASSUME NEW i \in Calls, SocketOpens(i) \/ SocketFails(i)
      PROVE  ConnectsTyped' /\ Calls \subseteq Calls'
  <2>1. PICK x \in {"open", "connecting"} : sockets' = [sockets EXCEPT ![i].state = x]
    BY <1>4 DEF SocketOpens, SocketFails
  <2> DEFINE moved == [sockets[i] EXCEPT !.state = x]
  <2>2. i \in DOMAIN sockets /\ sockets[i] \in SocketRecords
    BY Entry DEF ConnectsTyped
  <2>3. moved \in SocketRecords /\ moved.state = x
    BY <2>2, SocketState DEF SocketRecords
  <2>4. sockets' = [sockets EXCEPT ![i] = moved]
    BY <2>1
  <2> HIDE DEF moved
  <2>5. /\ sockets' \in Seq(SocketRecords) /\ DOMAIN sockets' = Calls /\ sockets'[i] = moved
        /\ \A j \in Calls \ {i} : sockets'[j] = sockets[j]
    BY <2>2, <2>3, <2>4 DEF ConnectsTyped
  <2>6. calls' \in Seq({"token", "opening", "resolved", "rejected"}) /\ Len(calls') = Len(calls)
    BY <1>4 DEF SocketOpens, SocketFails, SettleIfOpening, ConnectsTyped
  <2>7. UNCHANGED <<socket, cuts>>
    BY <1>4 DEF SocketOpens, SocketFails
  <2> QED BY <2>3, <2>5, <2>6, <2>7 DEF ConnectsTyped, Calls
<1> QED BY <1>1, <1>2, <1>3, <1>4

\* Channels fresh from those there are, entry by entry.
LEMMA ChannelsMapped ==
    ASSUME ChannelsTyped, NEW q, q = [c \in DOMAIN chans |-> q[c]],
           \A c \in DOMAIN chans : q[c] \in ChannelRecords
    PROVE  q \in Seq(ChannelRecords) /\ Len(q) = Len(chans) /\ DOMAIN q = DOMAIN chans
<1>1. DOMAIN chans = 1..Len(chans) /\ Len(chans) \in Nat
  BY DEF ChannelsTyped
<1> QED BY <1>1

\* A channel with other listeners, and perhaps another state.
LEMMA ChannelListeners ==
    ASSUME NEW r \in ChannelRecords, NEW ls \in SUBSET Subscribers
    PROVE  /\ [r EXCEPT !.listeners = ls] \in ChannelRecords
           /\ [r EXCEPT !.listeners = ls].topic = r.topic
           /\ [r EXCEPT !.listeners = ls].socket = r.socket
           /\ [r EXCEPT !.listeners = ls].state = r.state
           /\ [r EXCEPT !.listeners = ls].listeners = ls
BY DEF ChannelRecords, ChannelsOf

\* channel.on adds the subscriber to the listeners of its channel, and nothing else.
LEMMA ListenEffect ==
    ASSUME ChannelsTyped, SubscribersTyped, NEW s \in Subscribers, Listen(s)
    PROVE  /\ chans' \in Seq(ChannelRecords) /\ Len(chans') = Len(chans)
           /\ DOMAIN chans' = DOMAIN chans
           /\ \A c \in DOMAIN chans :
                /\ chans'[c].topic = chans[c].topic /\ chans'[c].socket = chans[c].socket
                /\ chans'[c].state = chans[c].state
                /\ chans'[c].listeners =
                      IF c = subs[s].chan THEN chans[c].listeners \cup {s} ELSE chans[c].listeners
<1> DEFINE heard(c) == [chans[c] EXCEPT !.listeners = chans[c].listeners \cup {s}]
<1>1. chans' = [chans EXCEPT ![subs[s].chan].listeners = @ \cup {s}]
  BY DEF Listen
<1>2. chans' = [c \in DOMAIN chans |-> IF c = subs[s].chan THEN heard(c) ELSE chans[c]]
  BY <1>1
<1>3. \A c \in DOMAIN chans :
        /\ chans[c] \in ChannelRecords
        /\ heard(c) \in ChannelRecords
        /\ heard(c).topic = chans[c].topic /\ heard(c).socket = chans[c].socket
        /\ heard(c).state = chans[c].state
        /\ heard(c).listeners = chans[c].listeners \cup {s}
  <2> TAKE c \in DOMAIN chans
  <2>1. chans[c] \in ChannelRecords
    BY Entry DEF ChannelsTyped
  <2>2. chans[c].listeners \cup {s} \in SUBSET Subscribers
    BY <2>1 DEF ChannelRecords, ChannelsOf
  <2> QED BY <2>1, <2>2, ChannelListeners
<1> HIDE DEF heard
<1>4. \A c \in DOMAIN chans : chans'[c] = IF c = subs[s].chan THEN heard(c) ELSE chans[c]
  BY <1>2
<1>5. chans' = [c \in DOMAIN chans |-> chans'[c]]
  BY <1>2
<1>6. chans' \in Seq(ChannelRecords) /\ Len(chans') = Len(chans) /\ DOMAIN chans' = DOMAIN chans
  BY <1>3, <1>4, <1>5, ChannelsMapped
<1> QED BY <1>3, <1>4, <1>6

\* Disposing takes the listener from the channel of the subscription, and closes
\* it if it is one of a process instance.
LEMMA DisposeEffect ==
    ASSUME ChannelsTyped, SubscribersTyped, NEW s \in Subscribers, Dispose(s)
    PROVE  /\ chans' \in Seq(ChannelRecords) /\ Len(chans') = Len(chans)
           /\ DOMAIN chans' = DOMAIN chans
           /\ \A c \in DOMAIN chans :
                /\ chans'[c].topic = chans[c].topic /\ chans'[c].socket = chans[c].socket
                /\ chans'[c].listeners =
                      IF c = subs[s].chan THEN chans[c].listeners \ {s} ELSE chans[c].listeners
                /\ chans'[c].state = IF c = subs[s].chan /\ subs[s].topic \in InstanceTopics
                                     THEN "closed" ELSE chans[c].state
<1> DEFINE unheard(c) == [chans[c] EXCEPT !.listeners = chans[c].listeners \ {s}]
           closed(c) == [unheard(c) EXCEPT !.state = "closed"]
           instance == subs[s].topic \in InstanceTopics
           disposed(c) == IF instance THEN closed(c) ELSE unheard(c)
<1>1. chans' = [c \in DOMAIN chans |-> IF c = subs[s].chan THEN disposed(c) ELSE chans[c]]
  BY DEF Dispose, DisposeShared, DisposeInstance
<1>2. \A c \in DOMAIN chans :
        /\ chans[c] \in ChannelRecords
        /\ disposed(c) \in ChannelRecords
        /\ disposed(c).topic = chans[c].topic /\ disposed(c).socket = chans[c].socket
        /\ disposed(c).listeners = chans[c].listeners \ {s}
        /\ disposed(c).state = IF instance THEN "closed" ELSE chans[c].state
  <2> TAKE c \in DOMAIN chans
  <2>1. chans[c] \in ChannelRecords
    BY Entry DEF ChannelsTyped
  <2>2. chans[c].listeners \ {s} \in SUBSET Subscribers
    BY <2>1 DEF ChannelRecords, ChannelsOf
  <2>3. /\ unheard(c) \in ChannelRecords
        /\ unheard(c).topic = chans[c].topic /\ unheard(c).socket = chans[c].socket
        /\ unheard(c).state = chans[c].state
        /\ unheard(c).listeners = chans[c].listeners \ {s}
    BY <2>1, <2>2, ChannelListeners
  <2> HIDE DEF unheard
  <2>4. /\ closed(c) \in ChannelRecords
        /\ closed(c).topic = unheard(c).topic /\ closed(c).socket = unheard(c).socket
        /\ closed(c).state = "closed"
        /\ closed(c).listeners = unheard(c).listeners
    BY <2>3, ChannelState DEF ChannelRecords, ChannelsOf, ChannelStates
  <2> HIDE DEF closed
  <2> QED BY <2>1, <2>3, <2>4
<1> HIDE DEF disposed
<1>3. \A c \in DOMAIN chans : chans'[c] = IF c = subs[s].chan THEN disposed(c) ELSE chans[c]
  BY <1>1
<1>4. chans' = [c \in DOMAIN chans |-> chans'[c]]
  BY <1>1
<1>5. chans' \in Seq(ChannelRecords) /\ Len(chans') = Len(chans) /\ DOMAIN chans' = DOMAIN chans
  BY <1>2, <1>3, <1>4, ChannelsMapped
<1> QED BY <1>2, <1>3, <1>5

\* Every channel keeps its topic, its socket and its listeners.
ChannelsKeep ==
    /\ chans' \in Seq(ChannelRecords) /\ Len(chans') = Len(chans)
    /\ DOMAIN chans' = DOMAIN chans
    /\ \A c \in DOMAIN chans : SameChannel(chans'[c], chans[c])

\* A channel of which only the state is set.
LEMMA StateSet ==
    ASSUME ChannelsTyped, NEW c \in DOMAIN chans, NEW state \in ChannelStates,
           NEW q, q = [chans EXCEPT ![c].state = state]
    PROVE  /\ q \in Seq(ChannelRecords) /\ Len(q) = Len(chans)
           /\ DOMAIN q = DOMAIN chans
           /\ \A d \in DOMAIN chans : SameChannel(q[d], chans[d])
           /\ q[c].state = state
           /\ \A d \in DOMAIN chans \ {c} : q[d] = chans[d]
<1> DEFINE set == [chans[c] EXCEPT !.state = state]
<1>1. chans[c] \in ChannelRecords
  BY Entry DEF ChannelsTyped
<1>2. set \in ChannelRecords /\ SameChannel(set, chans[c]) /\ set.state = state
  BY <1>1, ChannelState DEF ChannelRecords, ChannelsOf, SameChannel
<1>3. q = [chans EXCEPT ![c] = set]
  OBVIOUS
<1> HIDE DEF set
<1>4. q \in Seq(ChannelRecords) /\ Len(q) = Len(chans) /\ DOMAIN q = DOMAIN chans
  <2>1. chans \in Seq(ChannelRecords) /\ set \in ChannelRecords
    BY <1>2 DEF ChannelsTyped
  <2> HIDE DEF ChannelRecords
  <2> QED BY <2>1, <1>3, Replaced
<1>5. \A d \in DOMAIN chans : q[d] = IF d = c THEN set ELSE chans[d]
  BY <1>3
<1> QED BY <1>2, <1>4, <1>5 DEF SameChannel

\* The answer to a join moves the state of one channel that is not closed.
LEMMA AnswerEffect ==
    ASSUME ChannelsTyped, NEW c \in DOMAIN chans, JoinAccepted(c) \/ JoinRefused(c) \/ JoinTimesOut(c)
    PROVE  /\ ChannelsKeep
           /\ chans[c].state # "closed" /\ chans'[c].state # "closed"
           /\ \A d \in DOMAIN chans \ {c} : chans'[d] = chans[d]
<1>1. PICK state \in {"joined", "errored"} :
          chans' = [chans EXCEPT ![c].state = state] /\ chans[c].state = "joining"
  BY DEF JoinAccepted, JoinRefused, JoinTimesOut, CanAnswer, Answered
<1> QED BY <1>1, StateSet DEF ChannelsKeep, ChannelStates

\* Joining again closes at most other channels of the topic.
LEMMA RejoinEffect ==
    ASSUME ChannelsTyped, NEW c \in DOMAIN chans, Rejoin(c)
    PROVE  /\ ChannelsKeep
           /\ chans[c].state # "closed"
           /\ \A d \in DOMAIN chans :
                \/ chans'[d].state = "closed" <=> chans[d].state = "closed"
                \/ d # c /\ chans[d].topic = chans[c].topic /\ chans[d].state # "closed"
<1> DEFINE left == OpenTopicLeft(chans, c)
           set == [left[c] EXCEPT !.state = "joining"]
<1>1. /\ DOMAIN left = DOMAIN chans /\ left \in Seq(ChannelRecords) /\ Len(left) = Len(chans)
      /\ \A d \in DOMAIN chans :
           /\ SameChannel(left[d], chans[d])
           /\ \/ left[d].state = chans[d].state
              \/ d # c /\ chans[d].topic = chans[c].topic /\ chans[d].state # "closed"
  BY OpenTopicLeftKeeps DEF ChannelsTyped, OnlyTopicLeft
<1> HIDE DEF left
<1>2. chans' = [left EXCEPT ![c] = set] /\ chans[c].state = "errored"
  BY DEF Rejoin, left
<1>3. left[c] \in ChannelRecords
  BY <1>1, Entry
<1>4. set \in ChannelRecords /\ SameChannel(set, left[c]) /\ set.state = "joining"
  BY <1>3, ChannelState DEF ChannelRecords, ChannelsOf, ChannelStates, SameChannel
<1> HIDE DEF set
<1>5. chans' \in Seq(ChannelRecords) /\ Len(chans') = Len(chans) /\ DOMAIN chans' = DOMAIN chans
  BY <1>1, <1>2, <1>4, Replaced
<1>6. \A d \in DOMAIN chans : chans'[d] = IF d = c THEN set ELSE left[d]
  BY <1>1, <1>2
<1> QED BY <1>1, <1>2, <1>4, <1>5, <1>6 DEF ChannelsKeep, SameChannel

\* disconnect() leaves the channels of the map, and its socket goes.
LEMMA DisconnectEffect ==
    ASSUME ConnectsTyped, ChannelsTyped, Disconnect
    PROVE  /\ ChannelsKeep
           /\ \A c \in DOMAIN chans :
                chans'[c].state = "closed" <=> c \in Known \/ chans[c].state = "closed"
           /\ sockets' \in Seq(SocketRecords) /\ DOMAIN sockets' = Calls
           /\ \A i \in Calls : /\ sockets'[i].born = sockets[i].born
                               /\ sockets'[i].cuts = sockets[i].cuts
                               /\ i # socket => sockets'[i] = sockets[i]
                               /\ i = socket => sockets'[i].state = "gone"
<1> DEFINE other == IF socket # 0 THEN Errored(socket) ELSE chans
           closed(c) == [chans[c] EXCEPT !.state = "closed"]
<1>1. \A c \in DOMAIN chans :
        /\ other[c] \in ChannelRecords
        /\ SameChannel(other[c], chans[c])
        /\ other[c].state = "closed" <=> chans[c].state = "closed"
  <2>1. CASE socket # 0
    <3>1. /\ DOMAIN Errored(socket) = DOMAIN chans /\ Errored(socket) \in Seq(ChannelRecords)
          /\ \A c \in DOMAIN chans :
                /\ SameChannel(Errored(socket)[c], chans[c])
                /\ Errored(socket)[c].state = "closed" <=> chans[c].state = "closed"
      BY ErroredKeeps
    <3> QED BY <2>1, <3>1, Entry
  <2>2. CASE socket = 0
    BY <2>2, Entry DEF ChannelsTyped, SameChannel
  <2> QED BY <2>1, <2>2
<1>2. \A c \in DOMAIN chans :
        /\ closed(c) \in ChannelRecords
        /\ SameChannel(closed(c), chans[c])
        /\ closed(c).state = "closed"
  <2> TAKE c \in DOMAIN chans
  <2>1. chans[c] \in ChannelRecords
    BY Entry DEF ChannelsTyped
  <2> QED BY <2>1, ChannelState DEF ChannelRecords, ChannelsOf, ChannelStates, SameChannel
<1>3. chans' = [c \in DOMAIN chans |-> IF c \in Known THEN closed(c) ELSE other[c]]
  BY DEF Disconnect
<1> HIDE DEF other, closed
<1>4. \A c \in DOMAIN chans : chans'[c] = IF c \in Known THEN closed(c) ELSE other[c]
  BY <1>3
<1>5. chans' = [c \in DOMAIN chans |-> chans'[c]]
  BY <1>3
<1>6. chans' \in Seq(ChannelRecords) /\ Len(chans') = Len(chans) /\ DOMAIN chans' = DOMAIN chans
  BY <1>1, <1>2, <1>4, <1>5, ChannelsMapped
<1>7. ASSUME socket # 0
      PROVE  /\ sockets' \in Seq(SocketRecords) /\ DOMAIN sockets' = Calls
             /\ \A i \in Calls : /\ sockets'[i].born = sockets[i].born
                                 /\ sockets'[i].cuts = sockets[i].cuts
                                 /\ i # socket => sockets'[i] = sockets[i]
                                 /\ i = socket => sockets'[i].state = "gone"
  <2> DEFINE left == [sockets[socket] EXCEPT !.state = "gone"]
  <2>1. socket \in DOMAIN sockets
    BY <1>7 DEF ConnectsTyped, Calls
  <2>2. sockets[socket] \in SocketRecords
    BY <2>1, Entry DEF ConnectsTyped
  <2>3. /\ left \in SocketRecords /\ left.state = "gone"
        /\ left.born = sockets[socket].born /\ left.cuts = sockets[socket].cuts
    BY <2>2, SocketState DEF SocketRecords
  <2>4. sockets' = [sockets EXCEPT ![socket] = left]
    BY <1>7 DEF Disconnect
  <2> HIDE DEF left
  <2> QED BY <2>1, <2>3, <2>4 DEF ConnectsTyped
<1>8. ASSUME socket = 0 PROVE sockets' = sockets /\ socket \notin Calls
  BY <1>8 DEF Disconnect, ConnectsTyped, Calls
<1>9. /\ sockets' \in Seq(SocketRecords) /\ DOMAIN sockets' = Calls
      /\ \A i \in Calls : /\ sockets'[i].born = sockets[i].born
                          /\ sockets'[i].cuts = sockets[i].cuts
                          /\ i # socket => sockets'[i] = sockets[i]
                          /\ i = socket => sockets'[i].state = "gone"
  <2>1. CASE socket # 0
    BY <2>1, <1>7
  <2>2. CASE socket = 0
    BY <2>2, <1>8 DEF ConnectsTyped
  <2> QED BY <2>1, <2>2
<1>10. ChannelsKeep
  BY <1>1, <1>2, <1>4, <1>6 DEF ChannelsKeep
<1>11. \A c \in DOMAIN chans :
          chans'[c].state = "closed" <=> c \in Known \/ chans[c].state = "closed"
  BY <1>1, <1>2, <1>4
<1> QED BY <1>9, <1>10, <1>11

\* A call of a subscribe method is the last of the list.
LEMMA CalledEffect ==
    ASSUME ConnectsTyped, SubscribersTyped, NEW t \in Topics, NEW state \in SubscriptionStates,
           NEW S, 0..Len(chans) \subseteq S, NEW c \in S, Called(t, state, c)
    PROVE  /\ subs' \in Seq(SubscriptionsTo(S))
           /\ Len(subs') = Len(subs) + 1 /\ DOMAIN subs' = Subscribers \cup {Len(subs) + 1}
           /\ Len(subs) + 1 \notin Subscribers
           /\ \A s \in Subscribers : subs'[s] = subs[s]
           /\ subs'[Len(subs) + 1] = [state |-> state, topic |-> t, chan |-> c, cuts |-> cuts]
<1> DEFINE fresh == [state |-> state, topic |-> t, chan |-> c, cuts |-> cuts]
<1>1. fresh \in SubscriptionsTo(S)
  BY DEF ConnectsTyped, SubscriptionsTo
<1>2. SubscriptionRecords \subseteq SubscriptionsTo(S)
  BY DEF SubscriptionRecords, SubscriptionsTo
<1>3. subs \in Seq(SubscriptionsTo(S))
  BY <1>2, Wider DEF SubscribersTyped
<1>4. subs' = Append(subs, fresh)
  BY DEF Called
<1> HIDE DEF fresh
<1>5. /\ subs' \in Seq(SubscriptionsTo(S)) /\ Len(subs') = Len(subs) + 1
      /\ \A s \in 1..Len(subs) : subs'[s] = subs[s]
      /\ subs'[Len(subs) + 1] = fresh
      /\ DOMAIN subs' = 1..Len(subs) + 1 /\ DOMAIN subs = 1..Len(subs) /\ Len(subs) \in Nat
  BY <1>1, <1>3, <1>4
<1> QED BY <1>5 DEF Subscribers, fresh

\* The first subscriber of a topic: a new channel, on the socket of the client;
\* another channel of the topic that was still open may be closed.
LEMMA FirstEffect ==
    ASSUME ConnectsTyped, ChannelsTyped, NEW t \in Topics, SubscribeFirst(t)
    PROVE  LET new == Len(chans) + 1
           IN  /\ chans' \in Seq(ChannelRecords) /\ Len(chans') = new
               /\ DOMAIN chans' = DOMAIN chans \cup {new} /\ new \notin DOMAIN chans
               /\ \A c \in DOMAIN chans :
                    /\ SameChannel(chans'[c], chans[c])
                    /\ \/ chans'[c].state = chans[c].state
                       \/ chans[c].topic = t /\ chans[c].state # "closed"
               /\ chans'[new].topic = t /\ chans'[new].socket = socket
               /\ chans'[new].listeners = {} /\ chans'[new].state # "closed"
<1> DEFINE new == Len(chans) + 1
           fresh == [topic |-> t, socket |-> socket, listeners |-> {}, state |-> "joining"]
           all == Append(chans, fresh)
<1>1. fresh \in ChannelRecords
  BY DEF SubscribeFirst, ConnectsTyped, Calls, ChannelRecords, ChannelsOf, ChannelStates
<1>2. chans' = OpenTopicLeft(all, new)
  BY DEF SubscribeFirst
<1>3. fresh.topic = t /\ fresh.socket = socket /\ fresh.listeners = {} /\ fresh.state = "joining"
  OBVIOUS
<1> HIDE DEF fresh
<1>4. /\ all \in Seq(ChannelRecords) /\ Len(all) = new /\ all[new] = fresh
      /\ DOMAIN all = DOMAIN chans \cup {new} /\ new \notin DOMAIN chans
      /\ \A c \in DOMAIN chans : all[c] = chans[c]
  BY <1>1 DEF ChannelsTyped
<1> HIDE DEF all, new
<1>5. OnlyTopicLeft(chans', all, new)
  BY <1>2, <1>4, OpenTopicLeftKeeps
<1>6. /\ chans' \in Seq(ChannelRecords) /\ Len(chans') = new
      /\ DOMAIN chans' = DOMAIN chans \cup {new} /\ new \notin DOMAIN chans
      /\ \A c \in DOMAIN chans :
           /\ SameChannel(chans'[c], chans[c])
           /\ \/ chans'[c].state = chans[c].state
              \/ chans[c].topic = t /\ chans[c].state # "closed"
      /\ chans'[new].topic = t /\ chans'[new].socket = socket
      /\ chans'[new].listeners = {} /\ chans'[new].state # "closed"
  BY <1>3, <1>4, <1>5 DEF OnlyTopicLeft, SameChannel
<1> QED BY <1>6 DEF new

\* The step of a socket: of the channels, those of a socket that fails change.
LEMMA SocketStepEffect ==
    ASSUME ChannelsTyped,
           \/ Connect
           \/ \E i \in Calls : \/ TokenRejected(i) \/ TokenResolved(i) \/ ConnectTimesOut(i)
                               \/ SocketOpens(i) \/ SocketFails(i)
    PROVE  /\ ChannelsKeep /\ UNCHANGED <<channels, subs, cuts>>
           /\ \A c \in DOMAIN chans : chans'[c].state = "closed" <=> chans[c].state = "closed"
<1>1. CASE chans' = chans /\ UNCHANGED <<channels, subs, cuts>>
  BY <1>1 DEF ChannelsKeep, ChannelsTyped, SameChannel
<1>2. ASSUME NEW i \in Calls, SocketFails(i)
      PROVE  /\ ChannelsKeep /\ UNCHANGED <<channels, subs, cuts>>
             /\ \A c \in DOMAIN chans : chans'[c].state = "closed" <=> chans[c].state = "closed"
  <2>1. chans' = Errored(i) /\ UNCHANGED <<channels, subs, cuts>>
    BY <1>2 DEF SocketFails
  <2> QED BY <2>1, ErroredKeeps DEF ChannelsKeep
<1> QED
  BY <1>1, <1>2 DEF Connect, TokenRejected, TokenResolved, ConnectTimesOut, SocketOpens

\* The subscribe methods: a subscription more, and perhaps a channel more.
LEMMA SubscribeTyped ==
    ASSUME ConnectsTyped, ChannelsTyped, SubscribersTyped, NEW t \in Topics, Subscribe(t)
    PROVE  ConnectsTyped' /\ ChannelsTyped' /\ SubscribersTyped'
<1>1. ConnectsTyped' /\ Calls' = Calls
  BY ConnectsUnchanged DEF Subscribe, Calls
<1>2. ASSUME UNCHANGED <<chans, channels>>, NEW state \in SubscriptionStates,
             NEW c \in 0..Len(chans), Called(t, state, c)
      PROVE  ChannelsTyped' /\ SubscribersTyped'
  <2>1. subs' \in Seq(SubscriptionRecords) /\ Subscribers \subseteq Subscribers'
    BY <1>2, CalledEffect DEF SubscriptionRecords, Subscribers
  <2>2. ChannelsTyped'
    BY <1>1, <1>2, <2>1, ChannelsUnchanged
  <2>3. SubscribersTyped'
    BY <1>2, <2>1, <2>2, SubscribersAfter DEF ChannelsTyped
  <2> QED BY <2>2, <2>3
<1>3. ASSUME SubscribeFirst(t) PROVE ChannelsTyped' /\ SubscribersTyped'
  <2> DEFINE new == Len(chans) + 1
  <2>1. chans' \in Seq(ChannelRecords) /\ Len(chans') = new
    BY <1>3, FirstEffect
  <2>2. Called(t, "joining", new) /\ channels' = [channels EXCEPT ![t] = new]
    BY <1>3 DEF SubscribeFirst
  <2>3. 0..Len(chans) \subseteq 0..new /\ new \in 0..new
    BY DEF ChannelsTyped
  <2>4. subs' \in Seq(SubscriptionsTo(0..new)) /\ Subscribers \subseteq Subscribers'
    BY <2>2, <2>3, CalledEffect DEF SubscriptionStates, Subscribers
  <2>5. channels' \in [Topics -> 0..new]
    BY <2>2, <2>3 DEF ChannelsTyped
  <2> HIDE DEF new
  <2>6. ChannelsTyped'
    BY <1>1, <2>1, <2>4, <2>5, ChannelsAfter
  <2>7. SubscribersTyped'
    BY <2>1, <2>4 DEF SubscribersTyped, SubscriptionRecords, SubscriptionsTo
  <2> QED BY <2>6, <2>7
<1>4. CASE SubscribeShared(t)
  <2>1. /\ UNCHANGED <<chans, channels>> /\ Called(t, "granted", channels[t])
        /\ channels[t] \in 0..Len(chans) /\ "granted" \in SubscriptionStates
    BY <1>4 DEF SubscribeShared, ChannelsTyped, SubscriptionStates
  <2> QED BY <1>1, <1>2, <2>1
<1>5. CASE SubscribeUnconnected(t)
  <2>1. /\ UNCHANGED <<chans, channels>> /\ Called(t, "rejected", 0)
        /\ 0 \in 0..Len(chans) /\ "rejected" \in SubscriptionStates
    BY <1>5 DEF SubscribeUnconnected, ChannelsTyped, SubscriptionStates
  <2> QED BY <1>1, <1>2, <2>1
<1> QED BY <1>1, <1>3, <1>4, <1>5 DEF Subscribe

\* Every step keeps the types.
LEMMA TypeStep ==
    ASSUME Typed, ClientNext
    PROVE  Typed'
<1> USE DEF Typed
<1>1. CASE \/ Connect
           \/ \E i \in Calls : \/ TokenRejected(i) \/ TokenResolved(i) \/ ConnectTimesOut(i)
                               \/ SocketOpens(i) \/ SocketFails(i)
  <2>1. ConnectsTyped' /\ Calls \subseteq Calls'
    BY <1>1, ConnectStepTyped
  <2>2. ChannelsKeep /\ UNCHANGED <<channels, subs>>
    BY <1>1, SocketStepEffect
  <2>3. ChannelsTyped'
    BY <2>1, <2>2, ChannelsAfter DEF ChannelsKeep, ChannelsTyped, Subscribers
  <2>4. SubscribersTyped'
    BY <2>2, <2>3, SubscribersUnchanged DEF ChannelsKeep, ChannelsTyped
  <2> QED BY <2>1, <2>3, <2>4
<1>2. ASSUME NEW t \in Topics, Subscribe(t) PROVE Typed'
  BY <1>2, SubscribeTyped
\* What is left changes the channels and the states of the subscriptions.
<1>3. ASSUME ConnectsTyped', Calls' = Calls, chans' \in Seq(ChannelRecords), Len(chans') = Len(chans),
             channels' \in [Topics -> 0..Len(chans)],
             subs' \in Seq(SubscriptionRecords), DOMAIN subs' = DOMAIN subs
      PROVE  Typed'
  <2>1. ChannelsTyped'
    BY <1>3, ChannelsAfter DEF Subscribers
  <2>2. SubscribersTyped'
    BY <1>3, <2>1, SubscribersAfter DEF ChannelsTyped
  <2> QED BY <1>3, <2>1, <2>2
<1>4. ASSUME NEW s \in Subscribers, Listen(s) PROVE Typed'
  <2>1. ConnectsTyped' /\ Calls' = Calls /\ channels' = channels
    BY <1>4, ConnectsUnchanged DEF Listen, Calls
  <2>2. subs' = SubsTo({s}, "active") /\ "active" \in SubscriptionStates
    BY <1>4 DEF Listen, SubscriptionStates
  <2>3. subs' \in Seq(SubscriptionRecords) /\ DOMAIN subs' = DOMAIN subs
    BY <2>2, SubsToKeeps
  <2>4. chans' \in Seq(ChannelRecords) /\ Len(chans') = Len(chans)
    BY <1>4, ListenEffect
  <2> QED BY <2>1, <2>3, <2>4, <1>3 DEF ChannelsTyped
<1>5. ASSUME NEW s \in Subscribers, Dispose(s) PROVE Typed'
  <2>1. ConnectsTyped' /\ Calls' = Calls
    BY <1>5, ConnectsUnchanged DEF Dispose, Calls
  <2>2. subs' = SubsTo({s}, "disposed") /\ "disposed" \in SubscriptionStates
    BY <1>5 DEF Dispose, SubscriptionStates
  <2>3. subs' \in Seq(SubscriptionRecords) /\ DOMAIN subs' = DOMAIN subs
    BY <2>2, SubsToKeeps
  <2>4. chans' \in Seq(ChannelRecords) /\ Len(chans') = Len(chans)
    BY <1>5, DisposeEffect
  <2>5. channels' \in [Topics -> 0..Len(chans)]
    BY <1>5 DEF Dispose, DisposeShared, DisposeInstance, ChannelsTyped
  <2> QED BY <2>1, <2>3, <2>4, <2>5, <1>3
<1>6. ASSUME NEW c \in DOMAIN chans, JoinAccepted(c) \/ JoinRefused(c) \/ JoinTimesOut(c)
      PROVE  Typed'
  <2>1. /\ ConnectsTyped' /\ Calls' = Calls /\ channels' = channels
        /\ \E state \in {"granted", "rejected"} : subs' = SubsTo(WaitingFor(c), state)
    BY <1>6, ConnectsUnchanged DEF JoinAccepted, JoinRefused, JoinTimesOut, Answered, Calls
  <2>2. PICK state \in SubscriptionStates : subs' = SubsTo(WaitingFor(c), state)
    BY <2>1 DEF SubscriptionStates
  <2>3. subs' \in Seq(SubscriptionRecords) /\ DOMAIN subs' = DOMAIN subs
    BY <2>2, SubsToKeeps
  <2>4. chans' \in Seq(ChannelRecords) /\ Len(chans') = Len(chans)
    BY <1>6, AnswerEffect DEF ChannelsKeep
  <2> QED BY <2>1, <2>3, <2>4, <1>3 DEF ChannelsTyped
<1>7. ASSUME NEW c \in DOMAIN chans, Rejoin(c) PROVE Typed'
  <2>1. ConnectsTyped' /\ Calls' = Calls /\ UNCHANGED <<channels, subs>>
    BY <1>7, ConnectsUnchanged DEF Rejoin, Calls
  <2>2. chans' \in Seq(ChannelRecords) /\ Len(chans') = Len(chans)
    BY <1>7, RejoinEffect DEF ChannelsKeep
  <2> QED BY <2>1, <2>2, <1>3 DEF ChannelsTyped, SubscribersTyped
<1>8. CASE Disconnect
  <2>1. /\ chans' \in Seq(ChannelRecords) /\ Len(chans') = Len(chans)
        /\ sockets' \in Seq(SocketRecords) /\ DOMAIN sockets' = Calls
    BY <1>8, DisconnectEffect DEF ChannelsKeep
  <2>2. ConnectsTyped' /\ Calls' = Calls
    BY <1>8, <2>1, ClientAssumption DEF Disconnect, ConnectsTyped, Calls
  <2>3. channels' \in [Topics -> 0..Len(chans)] /\ subs' = subs
    BY <1>8 DEF Disconnect, ChannelsTyped
  <2> QED BY <2>1, <2>2, <2>3, <1>3 DEF SubscribersTyped
<1> QED BY <1>1, <1>2, <1>4, <1>5, <1>6, <1>7, <1>8 DEF ClientNext

\* What the client keeps has the shape its modules give it.
THEOREM ClientTypeCorrect == Spec => []ClientTypeOK
<1>1. Init => Typed
  BY TypeInit DEF Init
<1>2. Typed /\ [Next]_vars => Typed'
  <2> SUFFICES ASSUME Typed, [Next]_vars PROVE Typed'
    OBVIOUS
  <2>1. CASE ClientNext
    BY <2>1, TypeStep
  <2>2. CASE UNCHANGED clientVars
    BY <2>2, ConnectsUnchanged, ChannelsUnchanged, SubscribersUnchanged
       DEF clientVars, Typed, Calls, Subscribers, ChannelsTyped
  <2> QED BY <2>1, <2>2 DEF Next, vars
<1> QED BY <1>1, <1>2, TypeParts, PTL DEF Spec

-----------------------------------------------------------------------------
(* Who hears a channel                                                     *)

\* A listener of a channel is a subscription that was given it and not disposed.
ListenersActive ==
    \A c \in DOMAIN chans : \A s \in chans[c].listeners :
        s \in Subscribers /\ subs[s].state = "active" /\ subs[s].chan = c

\* A step that changes no listeners and takes no subscription from activity.
LEMMA ListenersKept ==
    ASSUME Typed, ListenersActive, ChannelsKeep, Subscribers \subseteq Subscribers',
           \A s \in Subscribers : subs[s].state = "active" =>
               subs'[s].state = "active" /\ subs'[s].chan = subs[s].chan
    PROVE  ListenersActive'
BY DEF ListenersActive, ChannelsKeep, SameChannel

\* Every step keeps the listeners those of active subscriptions.
LEMMA ListenersStep ==
    ASSUME Typed, ListenersActive, ClientNext
    PROVE  ListenersActive'
<1> USE DEF Typed
<1>1. CASE \/ Connect
           \/ \E i \in Calls : \/ TokenRejected(i) \/ TokenResolved(i) \/ ConnectTimesOut(i)
                               \/ SocketOpens(i) \/ SocketFails(i)
  BY <1>1, SocketStepEffect, ListenersKept DEF Subscribers
<1>2. ASSUME NEW t \in Topics, Subscribe(t) PROVE ListenersActive'
  <2>1. ASSUME NEW S, 0..Len(chans) \subseteq S, NEW c \in S, NEW state \in SubscriptionStates,
               Called(t, state, c)
        PROVE  Subscribers \subseteq Subscribers' /\ \A s \in Subscribers : subs'[s] = subs[s]
    BY <2>1, CalledEffect DEF Subscribers
  <2>2. CASE SubscribeFirst(t)
    <3> DEFINE new == Len(chans) + 1
    <3>1. /\ Called(t, "joining", new) /\ "joining" \in SubscriptionStates
          /\ 0..Len(chans) \subseteq 0..new /\ new \in 0..new
      BY <2>2 DEF SubscribeFirst, SubscriptionStates, ChannelsTyped
    <3>2. /\ DOMAIN chans' = DOMAIN chans \cup {new} /\ chans'[new].listeners = {}
          /\ \A c \in DOMAIN chans : SameChannel(chans'[c], chans[c])
      BY <2>2, FirstEffect
    <3> HIDE DEF new
    <3>3. Subscribers \subseteq Subscribers' /\ \A s \in Subscribers : subs'[s] = subs[s]
      BY <2>1, <3>1
    <3> QED BY <3>2, <3>3 DEF ListenersActive, SameChannel
  <2>3. CASE SubscribeShared(t) \/ SubscribeUnconnected(t)
    <3>1. /\ chans' = chans
          /\ \/ Called(t, "granted", channels[t]) /\ "granted" \in SubscriptionStates
                /\ channels[t] \in 0..Len(chans)
             \/ Called(t, "rejected", 0) /\ "rejected" \in SubscriptionStates
                /\ 0 \in 0..Len(chans)
      BY <2>3 DEF SubscribeShared, SubscribeUnconnected, SubscriptionStates, ChannelsTyped
    <3>2. Subscribers \subseteq Subscribers' /\ \A s \in Subscribers : subs'[s] = subs[s]
      BY <2>1, <3>1
    <3> QED BY <3>1, <3>2 DEF ListenersActive
  <2> QED BY <1>2, <2>2, <2>3 DEF Subscribe
<1>3. ASSUME NEW s \in Subscribers, Listen(s) PROVE ListenersActive'
  <2>1. subs' = SubsTo({s}, "active") /\ "active" \in SubscriptionStates
    BY <1>3 DEF Listen, SubscriptionStates
  <2>2. /\ Subscribers' = Subscribers
        /\ \A r \in Subscribers : subs'[r].chan = subs[r].chan
        /\ \A r \in Subscribers : subs'[r] = subs[r] \/ r = s
        /\ subs'[s].state = "active"
    BY <2>1, SubsToKeeps DEF Subscribers
  <2>3. /\ DOMAIN chans' = DOMAIN chans
        /\ \A c \in DOMAIN chans : chans'[c].listeners =
              IF c = subs[s].chan THEN chans[c].listeners \cup {s} ELSE chans[c].listeners
    BY <1>3, ListenEffect
  <2>4. ASSUME NEW c \in DOMAIN chans, NEW r \in chans'[c].listeners
        PROVE  r \in chans[c].listeners \/ (r = s /\ c = subs[s].chan)
    <3>1. chans'[c].listeners = IF c = subs[s].chan THEN chans[c].listeners \cup {s}
                                                    ELSE chans[c].listeners
      BY <2>3
    <3> QED BY <3>1
  <2>5. ASSUME NEW c \in DOMAIN chans, NEW r \in chans'[c].listeners
        PROVE  r \in Subscribers /\ subs'[r].state = "active" /\ subs'[r].chan = c
    <3>1. CASE r \in chans[c].listeners
      <4>1. r \in Subscribers /\ subs[r].state = "active" /\ subs[r].chan = c
        BY <3>1 DEF ListenersActive
      <4> QED BY <2>2, <4>1
    <3>2. CASE r = s /\ c = subs[s].chan
      BY <2>2, <3>2
    <3> QED BY <2>4, <3>1, <3>2
  <2> QED BY <2>2, <2>3, <2>5 DEF ListenersActive
<1>4. ASSUME NEW s \in Subscribers, Dispose(s) PROVE ListenersActive'
  <2>1. subs' = SubsTo({s}, "disposed") /\ "disposed" \in SubscriptionStates
    BY <1>4 DEF Dispose, SubscriptionStates
  <2>2. Subscribers' = Subscribers /\ \A r \in Subscribers \ {s} : subs'[r] = subs[r]
    BY <2>1, SubsToKeeps DEF Subscribers
  <2>3. /\ DOMAIN chans' = DOMAIN chans
        /\ \A c \in DOMAIN chans : chans'[c].listeners =
              IF c = subs[s].chan THEN chans[c].listeners \ {s} ELSE chans[c].listeners
    BY <1>4, DisposeEffect
  <2>4. \A c \in DOMAIN chans : s \notin chans'[c].listeners
    <3> TAKE c \in DOMAIN chans
    <3>1. chans'[c].listeners = IF c = subs[s].chan THEN chans[c].listeners \ {s}
                                                    ELSE chans[c].listeners
      BY <2>3
    <3>2. c # subs[s].chan => s \notin chans[c].listeners
      BY DEF ListenersActive
    <3> QED BY <3>1, <3>2
  <2>5. ASSUME NEW c \in DOMAIN chans, NEW r \in chans'[c].listeners
        PROVE  r \in chans[c].listeners /\ r # s
    BY <2>3, <2>4
  <2> QED BY <2>2, <2>3, <2>5 DEF ListenersActive
<1>5. ASSUME NEW c \in DOMAIN chans, JoinAccepted(c) \/ JoinRefused(c) \/ JoinTimesOut(c)
      PROVE  ListenersActive'
  <2>1. PICK state \in SubscriptionStates : subs' = SubsTo(WaitingFor(c), state)
    BY <1>5 DEF JoinAccepted, JoinRefused, JoinTimesOut, Answered, SubscriptionStates
  <2>2. /\ Subscribers' = Subscribers
        /\ \A s \in Subscribers : subs'[s].chan = subs[s].chan
        /\ \A s \in Subscribers : subs[s].state # "joining" => subs'[s] = subs[s]
    BY <2>1, SubsToKeeps DEF Subscribers, WaitingFor
  <2>3. ChannelsKeep
    BY <1>5, AnswerEffect
  <2> QED BY <2>2, <2>3, ListenersKept
<1>6. ASSUME NEW c \in DOMAIN chans, Rejoin(c) PROVE ListenersActive'
  <2>1. ChannelsKeep /\ subs' = subs
    BY <1>6, RejoinEffect DEF Rejoin
  <2> QED BY <2>1, ListenersKept DEF Subscribers
<1>7. CASE Disconnect
  <2>1. ChannelsKeep /\ subs' = subs
    BY <1>7, DisconnectEffect DEF Disconnect
  <2> QED BY <2>1, ListenersKept DEF Subscribers
<1> QED BY <1>1, <1>2, <1>3, <1>4, <1>5, <1>6, <1>7 DEF ClientNext

\* dispose() takes the handler from the channel it was given to, however many
\* subscriptions, channels and disconnects there are.
THEOREM DisposedStaysSilent == Spec => []DisposedHearsNothing
<1>1. Init => Typed /\ ListenersActive
  BY TypeInit DEF Init, ClientInit, ListenersActive
<1>2. Typed /\ ListenersActive /\ [Next]_vars => (Typed /\ ListenersActive)'
  <2> SUFFICES ASSUME Typed, ListenersActive, [Next]_vars PROVE (Typed /\ ListenersActive)'
    OBVIOUS
  <2>1. CASE ClientNext
    BY <2>1, TypeStep, ListenersStep
  <2>2. CASE UNCHANGED clientVars
    BY <2>2, ConnectsUnchanged, ChannelsUnchanged, SubscribersUnchanged
       DEF clientVars, Typed, Calls, Subscribers, ChannelsTyped, ListenersActive
  <2> QED BY <2>1, <2>2 DEF Next, vars
<1>3. Typed /\ ListenersActive => DisposedHearsNothing
  BY DEF ListenersActive, DisposedHearsNothing
<1> QED BY <1>1, <1>2, <1>3, PTL DEF Spec

-----------------------------------------------------------------------------
(* The sockets that are left behind                                        *)

Made == {i \in Calls : sockets[i].state # "none"}

\* A socket was made after at most as many as there are, a call that waits for
\* its token has none, and the client holds one made since the last disconnect().
SocketsOrdered ==
    /\ \A i \in Calls : /\ sockets[i].state = "none" => sockets[i].born = 0
                        /\ sockets[i].born <= Cardinality(Made)
                        /\ calls[i] = "token" => sockets[i].state = "none"
    /\ socket # 0 => sockets[socket].cuts = cuts
    /\ OnlyReplacedSocketsLinger

\* The sockets made are finitely many.
LEMMA MadeCounted == ConnectsTyped => IsFiniteSet(Made) /\ Cardinality(Made) \in Nat
<1> SUFFICES ASSUME ConnectsTyped PROVE IsFiniteSet(Made) /\ Cardinality(Made) \in Nat
  OBVIOUS
<1>1. IsFiniteSet(1..Len(calls)) /\ 1..Len(calls) = Calls
  BY FS_Interval DEF ConnectsTyped, Calls
<1>2. Made \subseteq Calls
  BY DEF Made
<1> QED BY <1>1, <1>2, FS_Subset, FS_CardinalityType

\* A step in which no socket is made and none comes to life.
LEMMA SocketsKept ==
    ASSUME Typed, SocketsOrdered, Calls' = Calls,
           \A i \in Calls : /\ sockets'[i].born = sockets[i].born
                            /\ sockets'[i].cuts = sockets[i].cuts
                            /\ sockets'[i].state = "none" <=> sockets[i].state = "none"
                            /\ Live(i)' => Live(i) /\ (i = socket => i = socket')
                            /\ calls'[i] = "token" => calls[i] = "token",
           socket' # 0 => socket' = socket /\ cuts' = cuts,
           socket \in Calls \cup {0}
    PROVE  SocketsOrdered'
<1>1. Made' = Made
  BY DEF Made
<1>2. OnlyReplacedSocketsLinger'
  BY DEF SocketsOrdered, OnlyReplacedSocketsLinger
<1> QED BY <1>1, <1>2 DEF SocketsOrdered

\* Every step keeps the order of the sockets.
LEMMA SocketsStep ==
    ASSUME Typed, SocketsOrdered, ClientNext
    PROVE  SocketsOrdered'
<1> USE DEF Typed
<1>1. socket \in Calls \cup {0} /\ DOMAIN sockets = Calls /\ 0 \notin Calls
  BY DEF ConnectsTyped, Calls
<1>2. ASSUME UNCHANGED <<sockets, socket, cuts>>, Calls' = Calls,
             \A i \in Calls : calls'[i] = "token" => calls[i] = "token"
      PROVE  SocketsOrdered'
  BY <1>1, <1>2, SocketsKept DEF Live
<1>3. CASE Connect
  <2> DEFINE new == Len(calls) + 1
             none == [state |-> "none", born |-> 0, cuts |-> 0]
  <2>1. /\ Calls' = Calls \cup {new} /\ new \notin Calls
        /\ \A i \in Calls : sockets'[i] = sockets[i] /\ calls'[i] = calls[i]
        /\ sockets'[new] = none /\ calls'[new] = "token"
    BY <1>3 DEF Connect, ConnectsTyped, Calls
  <2>2. none.state = "none" /\ none.born = 0
    OBVIOUS
  <2>3. UNCHANGED <<socket, cuts>>
    BY <1>3 DEF Connect
  <2> HIDE DEF new, none
  <2>4. Made' = Made
    BY <2>1, <2>2 DEF Made
  <2>5. Cardinality(Made) \in Nat
    BY MadeCounted
  <2>6. OnlyReplacedSocketsLinger'
    BY <2>1, <2>2, <2>3 DEF SocketsOrdered, OnlyReplacedSocketsLinger, Live
  <2> QED BY <1>1, <2>1, <2>2, <2>3, <2>4, <2>5, <2>6 DEF SocketsOrdered
<1>4. ASSUME NEW i \in Calls, TokenRejected(i) \/ ConnectTimesOut(i) PROVE SocketsOrdered'
  BY <1>2, <1>4 DEF TokenRejected, ConnectTimesOut, Settle, ConnectsTyped, Calls
<1>5. ASSUME NEW i \in Calls, TokenResolved(i) PROVE SocketsOrdered'
  <2> DEFINE fresh == [state |-> "connecting", cuts |-> cuts, born |-> 1 + Cardinality(Made)]
  <2>1. /\ calls[i] = "token" /\ calls' = [calls EXCEPT ![i] = "opening"]
        /\ sockets' = [sockets EXCEPT ![i] = fresh] /\ socket' = i /\ cuts' = cuts
    BY <1>5 DEF TokenResolved, Settle, Made
  <2>2. fresh.state = "connecting" /\ fresh.cuts = cuts /\ fresh.born = 1 + Cardinality(Made)
    OBVIOUS
  <2> HIDE DEF fresh
  <2>3. /\ Calls' = Calls /\ sockets'[i] = fresh /\ calls'[i] = "opening"
        /\ \A j \in Calls \ {i} : sockets'[j] = sockets[j] /\ calls'[j] = calls[j]
    BY <1>1, <2>1 DEF ConnectsTyped, Calls
  <2>4. sockets[i].state = "none" /\ sockets[i].born = 0 /\ i \notin Made
    BY <2>1 DEF SocketsOrdered, Made
  <2>5. Made' = Made \cup {i}
    BY <2>2, <2>3 DEF Made
  <2>6. Cardinality(Made') = Cardinality(Made) + 1 /\ Cardinality(Made) \in Nat
    BY <2>4, <2>5, MadeCounted, FS_AddElement
  <2>7. \A j \in Calls : sockets[j].born \in Nat
    <3> TAKE j \in Calls
    <3>1. sockets[j] \in SocketRecords
      BY <1>1, Entry DEF ConnectsTyped
    <3> QED BY <3>1 DEF SocketRecords
  \* The socket that i takes the place of was made before, since the same disconnect().
  <2>8. ASSUME NEW j \in Calls, j # i, Live(j)
        PROVE  \E k \in Calls : /\ sockets'[k].born > sockets[j].born
                                /\ sockets'[k].cuts = sockets[j].cuts
    <3>1. CASE j = socket
      <4>1. sockets[j].cuts = cuts /\ sockets[j].born <= Cardinality(Made)
        BY <3>1, <1>1 DEF SocketsOrdered
      <4>2. sockets'[i].born > sockets[j].born /\ sockets'[i].cuts = sockets[j].cuts
        BY <4>1, <2>2, <2>3, <2>6, <2>7
      <4> QED BY <4>2
    <3>2. CASE j # socket
      <4>1. PICK k \in Calls : /\ sockets[k].born > sockets[j].born
                               /\ sockets[k].cuts = sockets[j].cuts
        BY <2>8, <3>2 DEF SocketsOrdered, OnlyReplacedSocketsLinger
      <4>2. k # i
        BY <2>4, <2>7, <4>1
      <4> QED BY <2>3, <4>1, <4>2
    <3> QED BY <3>1, <3>2
  <2>9. OnlyReplacedSocketsLinger'
    <3> SUFFICES ASSUME NEW j \in Calls, Live(j)', j # i
                 PROVE  \E k \in Calls : /\ sockets'[k].born > sockets'[j].born
                                         /\ sockets'[k].cuts = sockets'[j].cuts
      BY <2>1, <2>3 DEF OnlyReplacedSocketsLinger
    <3>1. Live(j) /\ sockets'[j] = sockets[j]
      BY <2>3 DEF Live
    <3> QED BY <2>8, <3>1
  <2>10. \A j \in Calls : /\ sockets'[j].state = "none" => sockets'[j].born = 0
                          /\ sockets'[j].born <= Cardinality(Made')
                          /\ calls'[j] = "token" => sockets'[j].state = "none"
    BY <2>2, <2>3, <2>6, <2>7 DEF SocketsOrdered
  <2> QED BY <2>1, <2>2, <2>3, <2>9, <2>10 DEF SocketsOrdered
<1>6. ASSUME NEW i \in Calls, SocketOpens(i) \/ SocketFails(i) PROVE SocketsOrdered'
  <2>1. PICK x \in {"open", "connecting"} : sockets' = [sockets EXCEPT ![i].state = x]
    BY <1>6 DEF SocketOpens, SocketFails
  <2> DEFINE moved == [sockets[i] EXCEPT !.state = x]
  <2>2. sockets[i] \in SocketRecords
    BY <1>1, Entry DEF ConnectsTyped
  <2>3. moved.state = x /\ moved.born = sockets[i].born /\ moved.cuts = sockets[i].cuts
    BY <2>2 DEF SocketRecords
  <2>4. sockets' = [sockets EXCEPT ![i] = moved]
    BY <2>1
  <2> HIDE DEF moved
  <2>5. sockets'[i] = moved /\ \A j \in Calls \ {i} : sockets'[j] = sockets[j]
    BY <1>1, <2>4
  <2>6. /\ Calls' = Calls /\ UNCHANGED <<socket, cuts>> /\ Live(i) /\ sockets[i].state # "none"
        /\ \A j \in Calls : calls'[j] = "token" => calls[j] = "token"
    BY <1>6 DEF SocketOpens, SocketFails, SettleIfOpening, Live, ConnectsTyped, Calls
  <2> QED BY <1>1, <2>3, <2>5, <2>6, SocketsKept DEF Live
<1>7. ASSUME NEW t \in Topics, Subscribe(t) PROVE SocketsOrdered'
  BY <1>2, <1>7 DEF Subscribe, Calls
<1>8. ASSUME NEW s \in Subscribers, Listen(s) \/ Dispose(s) PROVE SocketsOrdered'
  BY <1>2, <1>8 DEF Listen, Dispose, Calls
<1>9. ASSUME NEW c \in DOMAIN chans,
             JoinAccepted(c) \/ JoinRefused(c) \/ JoinTimesOut(c) \/ Rejoin(c)
      PROVE  SocketsOrdered'
  BY <1>2, <1>9 DEF JoinAccepted, JoinRefused, JoinTimesOut, Rejoin, Answered, Calls
<1>10. CASE Disconnect
  <2>1. calls' = calls /\ Calls' = Calls /\ socket' = 0
    BY <1>10 DEF Disconnect, Calls
  <2>2. socket # 0 => sockets[socket].state # "none"
    BY DEF ConnectsTyped
  <2>3. \A i \in Calls : /\ sockets'[i].born = sockets[i].born
                         /\ sockets'[i].cuts = sockets[i].cuts
                         /\ i # socket => sockets'[i] = sockets[i]
                         /\ i = socket => sockets'[i].state = "gone"
    BY <1>10, DisconnectEffect
  <2>4. 0 \notin Calls
    BY DEF ConnectsTyped, Calls
  <2> QED BY <1>1, <2>1, <2>2, <2>3, <2>4, SocketsKept DEF Live
<1> QED BY <1>3, <1>4, <1>5, <1>6, <1>7, <1>8, <1>9, <1>10 DEF ClientNext

\* Whatever the number of connects and disconnects, only a socket that another
\* connect() replaced, with no disconnect() between the two, is left behind.
THEOREM NothingElseLingers == Spec => []OnlyReplacedSocketsLinger
<1>1. Init => Typed /\ SocketsOrdered
  <2> SUFFICES ASSUME Init PROVE Typed /\ SocketsOrdered
    OBVIOUS
  <2>1. Typed /\ Calls = {} /\ socket = 0
    BY TypeInit DEF Init, ClientInit, Calls
  <2> QED BY <2>1 DEF SocketsOrdered, OnlyReplacedSocketsLinger
<1>2. Typed /\ SocketsOrdered /\ [Next]_vars => (Typed /\ SocketsOrdered)'
  <2> SUFFICES ASSUME Typed, SocketsOrdered, [Next]_vars PROVE (Typed /\ SocketsOrdered)'
    OBVIOUS
  <2>1. CASE ClientNext
    BY <2>1, TypeStep, SocketsStep
  <2>2. CASE UNCHANGED clientVars
    <3>1. Typed'
      BY <2>2, ConnectsUnchanged, ChannelsUnchanged, SubscribersUnchanged
         DEF clientVars, Typed, Calls, Subscribers, ChannelsTyped
    <3>2. SocketsOrdered'
      BY <2>2 DEF clientVars, SocketsOrdered, OnlyReplacedSocketsLinger, Live, Made, Calls
    <3> QED BY <3>1, <3>2
  <2> QED BY <2>1, <2>2 DEF Next, vars
<1>3. SocketsOrdered => OnlyReplacedSocketsLinger
  BY DEF SocketsOrdered
<1> QED BY <1>1, <1>2, <1>3, PTL DEF Spec

-----------------------------------------------------------------------------
(* Who stays heard                                                         *)

\* Another subscription of the instance was disposed.
Excused(t) ==
    t \in InstanceTopics /\ \E r \in Subscribers : subs[r].state = "disposed" /\ subs[r].topic = t

\* The channel of the map is one of its topic, on a socket that did not go.
MapSound ==
    \A t \in Topics : channels[t] # 0 =>
        /\ chans[channels[t]].topic = t
        /\ sockets[chans[channels[t]].socket].state # "gone"
        /\ chans[channels[t]].state = "closed" => Excused(t)

\* A channel that was not left is in the map, unless a dispose() took it out.
OpenIsKnown ==
    \A c \in DOMAIN chans : chans[c].state # "closed" /\ channels[chans[c].topic] # c =>
        Excused(chans[c].topic)

SocketHeld == socket # 0 => sockets[socket].state # "gone"

\* A subscription that was not refused has a channel of its topic.
SubsGiven ==
    \A s \in Subscribers :
        /\ subs[s].cuts <= cuts
        /\ subs[s].state # "rejected" =>
              subs[s].chan \in DOMAIN chans /\ chans[subs[s].chan].topic = subs[s].topic

HeardUnlessExcused ==
    \A s \in Subscribers : Deaf(s) => subs[s].cuts < cuts \/ Excused(subs[s].topic)

Heard == MapSound /\ OpenIsKnown /\ SocketHeld /\ SubsGiven /\ HeardUnlessExcused

\* A step that makes no subscription and no channel, in which no socket goes and
\* channels close, or leave the map, only where a dispose() excuses it.
LEMMA HeardKept ==
    ASSUME Typed, Heard, Calls \subseteq Calls',
           DOMAIN chans' = DOMAIN chans, cuts' = cuts, Subscribers' = Subscribers,
           \A c \in DOMAIN chans :
              /\ chans'[c].topic = chans[c].topic /\ chans'[c].socket = chans[c].socket
              /\ chans'[c].state = "closed" =>
                    chans[c].state = "closed" \/ Excused(chans[c].topic)'
              /\ chans[c].state = "closed" => chans'[c].state = "closed",
           \A t \in Topics : channels'[t] = channels[t] \/ (channels'[t] = 0 /\ Excused(t)'),
           \A s \in Subscribers :
              /\ subs'[s].topic = subs[s].topic /\ subs'[s].chan = subs[s].chan
              /\ subs'[s].cuts = subs[s].cuts
              /\ subs[s].state = "disposed" => subs'[s].state = "disposed"
              /\ subs[s].state = "rejected" => subs'[s].state = "rejected"
              /\ subs'[s].state \in {"joining", "granted", "active"} =>
                    subs[s].state \in {"joining", "granted", "active"},
           \A i \in Calls : sockets'[i].state = "gone" => sockets[i].state = "gone",
           SocketHeld'
    PROVE  Heard'
<1> USE DEF Heard
<1>1. \A t : Excused(t) => Excused(t)'
  BY DEF Excused
<1>2. \A c \in DOMAIN chans : chans[c].topic \in Topics /\ chans[c].socket \in Calls
  <2> TAKE c \in DOMAIN chans
  <2>1. chans[c] \in ChannelRecords
    BY Entry DEF Typed, ChannelsTyped
  <2> QED BY <2>1 DEF ChannelRecords, ChannelsOf
<1>3. \A t \in Topics : channels[t] # 0 => channels[t] \in DOMAIN chans
  BY DEF Typed, ChannelsTyped
<1>4. MapSound'
  <2> SUFFICES ASSUME NEW t \in Topics, channels'[t] # 0
               PROVE  /\ chans'[channels'[t]].topic = t
                      /\ sockets'[chans'[channels'[t]].socket].state # "gone"
                      /\ chans'[channels'[t]].state = "closed" => Excused(t)'
    BY DEF MapSound
  <2>1. /\ channels'[t] = channels[t] /\ channels[t] \in DOMAIN chans
        /\ chans[channels[t]].topic = t
        /\ sockets[chans[channels[t]].socket].state # "gone"
        /\ chans[channels[t]].state = "closed" => Excused(t)
    BY <1>3 DEF MapSound
  <2> QED BY <1>1, <1>2, <2>1
<1>5. OpenIsKnown'
  <2> SUFFICES ASSUME NEW c \in DOMAIN chans, chans'[c].state # "closed",
                      channels'[chans[c].topic] # c
               PROVE  Excused(chans[c].topic)'
    BY DEF OpenIsKnown
  <2>1. chans[c].state # "closed" /\ chans[c].topic \in Topics
    BY <1>2
  <2> QED BY <1>1, <2>1 DEF OpenIsKnown
<1>6. SubsGiven'
  BY DEF SubsGiven
<1>7. HeardUnlessExcused'
  <2> SUFFICES ASSUME NEW s \in Subscribers, Deaf(s)'
               PROVE  subs'[s].cuts < cuts' \/ Excused(subs[s].topic)'
    BY DEF HeardUnlessExcused
  <2>1. /\ subs[s].state \in {"joining", "granted", "active"}
        /\ subs'[s].topic = subs[s].topic /\ subs'[s].cuts = subs[s].cuts
        /\ subs[s].chan \in DOMAIN chans /\ chans[subs[s].chan].topic = subs[s].topic
        /\ \/ chans'[subs[s].chan].state = "closed"
           \/ sockets'[chans'[subs[s].chan].socket].state = "gone"
    BY DEF Deaf, SubsGiven
  <2>2. \/ chans[subs[s].chan].state = "closed" \/ Excused(chans[subs[s].chan].topic)'
        \/ sockets[chans[subs[s].chan].socket].state = "gone"
    BY <1>2, <2>1
  <2>3. CASE Deaf(s)
    <3>1. subs[s].cuts < cuts \/ Excused(subs[s].topic)
      BY <2>3 DEF HeardUnlessExcused
    <3>2. Excused(subs[s].topic) => Excused(subs[s].topic)'
      BY <2>1 DEF Excused
    <3> QED BY <2>1, <3>1, <3>2
  <2>4. CASE Excused(chans[subs[s].chan].topic)'
    BY <2>1, <2>4 DEF Excused
  <2> QED BY <2>1, <2>2, <2>3, <2>4 DEF Deaf
<1> QED BY <1>4, <1>5, <1>6, <1>7

\* No socket goes but by disconnect().
LEMMA SocketStepGone ==
    ASSUME Typed, SocketHeld,
           \/ Connect
           \/ \E i \in Calls : \/ TokenRejected(i) \/ TokenResolved(i) \/ ConnectTimesOut(i)
                               \/ SocketOpens(i) \/ SocketFails(i)
    PROVE  /\ \A i \in Calls : sockets'[i].state = "gone" => sockets[i].state = "gone"
           /\ SocketHeld'
<1>1. DOMAIN sockets = Calls /\ socket \in Calls \cup {0} /\ 0 \notin Calls
  BY DEF Typed, ConnectsTyped, Calls
<1>2. CASE Connect
  <2>1. \A i \in Calls : sockets'[i] = sockets[i]
    BY <1>2 DEF Connect, Typed, ConnectsTyped, Calls
  <2> QED BY <1>1, <1>2, <2>1 DEF Connect, SocketHeld
<1>3. ASSUME NEW i \in Calls, TokenRejected(i) \/ ConnectTimesOut(i)
      PROVE  UNCHANGED <<sockets, socket>>
  BY <1>3 DEF TokenRejected, ConnectTimesOut
<1>4. ASSUME NEW i \in Calls, TokenResolved(i)
      PROVE  sockets'[i].state # "gone" /\ socket' = i /\ \A j \in Calls \ {i} : sockets'[j] = sockets[j]
  <2> DEFINE fresh == [state |-> "connecting", cuts |-> cuts,
                       born |-> 1 + Cardinality({j \in Calls : sockets[j].state # "none"})]
  <2>1. sockets' = [sockets EXCEPT ![i] = fresh] /\ socket' = i /\ fresh.state = "connecting"
    BY <1>4 DEF TokenResolved
  <2> HIDE DEF fresh
  <2> QED BY <1>1, <2>1
<1>5. ASSUME NEW i \in Calls, SocketOpens(i) \/ SocketFails(i)
      PROVE  /\ sockets'[i].state # "gone" /\ socket' = socket
             /\ \A j \in Calls \ {i} : sockets'[j] = sockets[j]
  <2>1. PICK x \in {"open", "connecting"} : sockets' = [sockets EXCEPT ![i].state = x]
    BY <1>5 DEF SocketOpens, SocketFails
  <2>2. sockets[i] \in SocketRecords
    BY <1>1, Entry DEF Typed, ConnectsTyped
  <2> DEFINE moved == [sockets[i] EXCEPT !.state = x]
  <2>3. moved.state = x /\ sockets' = [sockets EXCEPT ![i] = moved]
    BY <2>1, <2>2 DEF SocketRecords
  <2> HIDE DEF moved
  <2>4. sockets'[i] = moved /\ \A j \in Calls \ {i} : sockets'[j] = sockets[j]
    BY <1>1, <2>3
  <2>5. socket' = socket
    BY <1>5 DEF SocketOpens, SocketFails
  <2> QED BY <2>3, <2>4, <2>5
<1>6. CASE \E i \in Calls : TokenRejected(i) \/ ConnectTimesOut(i)
  BY <1>3, <1>6 DEF SocketHeld
<1>7. CASE \E i \in Calls : TokenResolved(i) \/ SocketOpens(i) \/ SocketFails(i)
  BY <1>1, <1>4, <1>5, <1>7 DEF SocketHeld
<1> QED BY <1>2, <1>6, <1>7

\* Subscribing: the channel that is shared is sound, the new one is in the map,
\* and of those that leaveOpenTopic closes none was in the map.
LEMMA HeardSubscribe ==
    ASSUME Typed, Heard, NEW t \in Topics, Subscribe(t)
    PROVE  Heard'
<1> USE DEF Typed, Heard
<1>1. UNCHANGED <<calls, sockets, socket, cuts>>
  BY DEF Subscribe
<1>2. SocketHeld'
  BY <1>1 DEF SocketHeld
\* One subscription more, which is not deaf unless its topic excuses it.
<1>3. ASSUME NEW S, 0..Len(chans) \subseteq S, NEW c \in S, NEW state \in {"joining", "granted", "rejected"},
             Called(t, state, c)
      PROVE  /\ Subscribers \subseteq Subscribers' /\ \A s \in Subscribers : subs'[s] = subs[s]
             /\ \A s \in Subscribers' \ Subscribers :
                   /\ subs'[s].state = state /\ subs'[s].topic = t
                   /\ subs'[s].chan = c /\ subs'[s].cuts = cuts
             /\ \A u : Excused(u) => Excused(u)'
  <2>1. state \in SubscriptionStates
    BY DEF SubscriptionStates
  <2>2. /\ Subscribers' = Subscribers \cup {Len(subs) + 1}
        /\ \A s \in Subscribers : subs'[s] = subs[s]
        /\ subs'[Len(subs) + 1] = [state |-> state, topic |-> t, chan |-> c, cuts |-> cuts]
    BY <1>3, <2>1, CalledEffect DEF Subscribers
  <2>3. \A u : Excused(u) => Excused(u)'
    BY <2>2 DEF Excused
  <2> QED BY <2>2, <2>3
<1>4. cuts \in Nat
  BY ClientAssumption DEF ConnectsTyped
<1>5. \A c \in DOMAIN chans : chans[c].topic \in Topics /\ chans[c].socket \in Calls
  <2> TAKE c \in DOMAIN chans
  <2>1. chans[c] \in ChannelRecords
    BY Entry DEF ChannelsTyped
  <2> QED BY <2>1 DEF ChannelRecords, ChannelsOf
<1>6. \A u \in Topics : channels[u] # 0 => channels[u] \in DOMAIN chans
  BY DEF ChannelsTyped
<1>7. CASE SubscribeShared(t) \/ SubscribeUnconnected(t)
  <2>1. /\ UNCHANGED <<chans, channels>>
        /\ \E state \in {"granted", "rejected"} :
              /\ Called(t, state, channels[t]) /\ (state = "granted" <=> channels[t] # 0)
              /\ channels[t] \in 0..Len(chans)
    BY <1>7 DEF SubscribeShared, SubscribeUnconnected, ChannelsTyped
  <2>2. PICK state \in {"granted", "rejected"} :
              /\ Called(t, state, channels[t]) /\ (state = "granted" <=> channels[t] # 0)
              /\ channels[t] \in 0..Len(chans)
    BY <2>1
  <2>3. /\ Subscribers \subseteq Subscribers' /\ \A s \in Subscribers : subs'[s] = subs[s]
        /\ \A s \in Subscribers' \ Subscribers :
              /\ subs'[s].state = state /\ subs'[s].topic = t
              /\ subs'[s].chan = channels[t] /\ subs'[s].cuts = cuts
        /\ \A u : Excused(u) => Excused(u)'
    <3>1. 0..Len(chans) \subseteq 0..Len(chans) /\ state \in {"joining", "granted", "rejected"}
      BY <2>2
    <3> QED BY <1>3, <2>2, <3>1
  <2>4. MapSound' /\ OpenIsKnown'
    BY <1>1, <2>1, <2>3 DEF MapSound, OpenIsKnown
  <2>5. SubsGiven'
    BY <1>1, <1>4, <1>6, <2>1, <2>2, <2>3 DEF SubsGiven, MapSound
  <2>6. ASSUME NEW s \in Subscribers, Deaf(s)'
        PROVE  subs'[s].cuts < cuts' \/ Excused(subs[s].topic)'
    <3>1. Deaf(s) /\ subs'[s] = subs[s]
      BY <1>1, <2>1, <2>3, <2>6 DEF Deaf
    <3>2. Excused(subs[s].topic) => Excused(subs[s].topic)'
      BY <2>3 DEF Excused
    <3> QED BY <1>1, <3>1, <3>2 DEF HeardUnlessExcused
  <2>7. ASSUME NEW s \in Subscribers' \ Subscribers, Deaf(s)'
        PROVE  Excused(subs[s].topic)'
    <3>1. Excused(t)'
      BY <1>1, <2>1, <2>2, <2>3, <2>7 DEF Deaf, MapSound
    <3> QED BY <2>3, <3>1 DEF Excused
  <2>8. HeardUnlessExcused'
    BY <2>6, <2>7 DEF HeardUnlessExcused
  <2> QED BY <1>2, <2>4, <2>5, <2>8
<1>8. CASE SubscribeFirst(t)
  <2> DEFINE new == Len(chans) + 1
  <2>1. /\ Called(t, "joining", new) /\ channels[t] = 0 /\ socket # 0
        /\ channels' = [channels EXCEPT ![t] = new]
        /\ 0..Len(chans) \subseteq 0..new /\ new \in 0..new /\ new # 0
    BY <1>8 DEF SubscribeFirst, ChannelsTyped
  <2>2. /\ DOMAIN chans' = DOMAIN chans \cup {new} /\ new \notin DOMAIN chans
        /\ \A c \in DOMAIN chans :
             /\ SameChannel(chans'[c], chans[c])
             /\ \/ chans'[c].state = chans[c].state
                \/ chans[c].topic = t /\ chans[c].state # "closed"
        /\ chans'[new].topic = t /\ chans'[new].socket = socket /\ chans'[new].state # "closed"
    BY <1>8, FirstEffect
  <2> HIDE DEF new
  <2>3. /\ Subscribers \subseteq Subscribers' /\ \A s \in Subscribers : subs'[s] = subs[s]
        /\ \A s \in Subscribers' \ Subscribers :
              /\ subs'[s].state = "joining" /\ subs'[s].topic = t
              /\ subs'[s].chan = new /\ subs'[s].cuts = cuts
        /\ \A u : Excused(u) => Excused(u)'
    BY <1>3, <2>1
  <2>4. \A u \in Topics : channels'[u] = IF u = t THEN new ELSE channels[u]
    BY <2>1 DEF ChannelsTyped
  \* A channel of t that was open was not in the map.
  <2>5. \A c \in DOMAIN chans : chans[c].topic = t /\ chans[c].state # "closed" => Excused(t)
    <3>1. 0 \notin DOMAIN chans
      BY DEF ChannelsTyped
    <3> QED BY <2>1, <3>1 DEF OpenIsKnown
  <2>6. MapSound'
    <3> SUFFICES ASSUME NEW u \in Topics, channels'[u] # 0
                 PROVE  /\ chans'[channels'[u]].topic = u
                        /\ sockets'[chans'[channels'[u]].socket].state # "gone"
                        /\ chans'[channels'[u]].state = "closed" => Excused(u)'
      BY DEF MapSound
    <3>1. CASE u = t
      BY <1>1, <2>1, <2>2, <2>4, <3>1 DEF SocketHeld
    <3>2. CASE u # t
      <4> DEFINE c == channels[u]
      <4>1. c # 0 /\ channels'[u] = c /\ c \in DOMAIN chans
        BY <1>6, <2>4, <3>2
      <4>2. /\ chans[c].topic = u /\ sockets[chans[c].socket].state # "gone"
            /\ chans[c].state = "closed" => Excused(u)
        BY <4>1 DEF MapSound
      <4> HIDE DEF c
      <4>3. chans'[c].topic = u /\ chans'[c].socket = chans[c].socket /\ chans'[c].state = chans[c].state
        BY <2>2, <3>2, <4>1, <4>2 DEF SameChannel
      <4> QED BY <1>1, <2>3, <4>1, <4>2, <4>3
    <3> QED BY <3>1, <3>2
  <2>7. OpenIsKnown'
    <3> SUFFICES ASSUME NEW c \in DOMAIN chans, chans'[c].state # "closed",
                        channels'[chans[c].topic] # c
                 PROVE  Excused(chans[c].topic)'
      BY <2>1, <2>2, <2>4 DEF OpenIsKnown, SameChannel, Excused
    <3>1. chans[c].state # "closed" /\ chans[c].topic \in Topics /\ chans'[c].topic = chans[c].topic
      BY <1>5, <2>2 DEF SameChannel
    <3>2. Excused(chans[c].topic)
      BY <2>4, <2>5, <3>1 DEF OpenIsKnown
    <3> QED BY <2>3, <3>1, <3>2 DEF Excused
  <2>8. SubsGiven'
    BY <1>1, <1>4, <2>2, <2>3 DEF SubsGiven, SameChannel
  <2>9. ASSUME NEW s \in Subscribers, Deaf(s)'
        PROVE  subs'[s].cuts < cuts' \/ Excused(subs[s].topic)'
    <3>1. subs'[s] = subs[s] /\ subs[s].state \in {"joining", "granted", "active"}
      BY <2>3, <2>9 DEF Deaf
    <3>2. subs[s].chan \in DOMAIN chans /\ chans[subs[s].chan].topic = subs[s].topic
      BY <3>1 DEF SubsGiven
    <3>3. Deaf(s) \/ Excused(subs[s].topic)
      BY <1>1, <2>2, <2>5, <2>9, <3>1, <3>2 DEF Deaf, SameChannel
    <3>4. Excused(subs[s].topic) => Excused(subs[s].topic)'
      BY <2>3 DEF Excused
    <3> QED BY <1>1, <3>1, <3>3, <3>4 DEF HeardUnlessExcused
  <2>10. ASSUME NEW s \in Subscribers' \ Subscribers PROVE ~ Deaf(s)'
    BY <1>1, <2>1, <2>2, <2>3 DEF Deaf, SocketHeld
  <2>11. HeardUnlessExcused'
    BY <2>9, <2>10 DEF HeardUnlessExcused
  <2> QED BY <1>2, <2>6, <2>7, <2>8, <2>11
<1> QED BY <1>7, <1>8 DEF Subscribe

\* Every step keeps who is heard.
LEMMA HeardStep ==
    ASSUME Typed, Heard, ClientNext
    PROVE  Heard'
<1> USE DEF Typed
<1>1. SocketHeld /\ Calls \subseteq Calls
  BY DEF Heard
<1>2. CASE \/ Connect
           \/ \E i \in Calls : \/ TokenRejected(i) \/ TokenResolved(i) \/ ConnectTimesOut(i)
                               \/ SocketOpens(i) \/ SocketFails(i)
  <2>1. Calls \subseteq Calls'
    BY <1>2, ConnectStepTyped
  <2>2. ChannelsKeep /\ UNCHANGED <<channels, subs, cuts>> /\ Subscribers' = Subscribers
    BY <1>2, SocketStepEffect DEF Subscribers
  <2>3. \A c \in DOMAIN chans : chans'[c].state = "closed" <=> chans[c].state = "closed"
    BY <1>2, SocketStepEffect
  <2>4. SocketHeld' /\ \A i \in Calls : sockets'[i].state = "gone" => sockets[i].state = "gone"
    BY <1>1, <1>2, SocketStepGone
  <2> QED BY <2>1, <2>2, <2>3, <2>4, HeardKept DEF ChannelsKeep, SameChannel
<1>3. ASSUME NEW t \in Topics, Subscribe(t) PROVE Heard'
  BY <1>3, HeardSubscribe
<1>4. ASSUME NEW s \in Subscribers, Listen(s) PROVE Heard'
  <2>1. UNCHANGED <<calls, sockets, socket, channels, cuts>> /\ subs[s].state = "granted"
    BY <1>4 DEF Listen
  <2>2. subs' = SubsTo({s}, "active") /\ "active" \in SubscriptionStates
    BY <1>4 DEF Listen, SubscriptionStates
  <2>3. /\ Subscribers' = Subscribers
        /\ \A r \in Subscribers : /\ subs'[r].topic = subs[r].topic /\ subs'[r].chan = subs[r].chan
                                  /\ subs'[r].cuts = subs[r].cuts
        /\ \A r \in Subscribers \ {s} : subs'[r] = subs[r]
    BY <2>2, SubsToKeeps DEF Subscribers
  <2>4. /\ DOMAIN chans' = DOMAIN chans
        /\ \A c \in DOMAIN chans :
             /\ chans'[c].topic = chans[c].topic /\ chans'[c].socket = chans[c].socket
             /\ chans'[c].state = chans[c].state
    BY <1>4, ListenEffect
  <2>5. SocketHeld' /\ Calls \subseteq Calls'
    BY <1>1, <2>1 DEF SocketHeld, Calls
  <2> QED BY <2>1, <2>3, <2>4, <2>5, HeardKept
<1>5. ASSUME NEW s \in Subscribers, Dispose(s) PROVE Heard'
  <2>1. /\ UNCHANGED <<calls, sockets, socket, cuts>> /\ subs[s].state \in {"active", "disposed"}
        /\ \/ channels' = channels
           \/ subs[s].topic \in InstanceTopics /\ channels' = [channels EXCEPT ![subs[s].topic] = 0]
    BY <1>5 DEF Dispose, DisposeShared, DisposeInstance
  <2>2. subs' = SubsTo({s}, "disposed") /\ "disposed" \in SubscriptionStates
    BY <1>5 DEF Dispose, SubscriptionStates
  <2>3. /\ Subscribers' = Subscribers
        /\ \A r \in Subscribers : /\ subs'[r].topic = subs[r].topic /\ subs'[r].chan = subs[r].chan
                                  /\ subs'[r].cuts = subs[r].cuts
        /\ subs'[s].state = "disposed"
        /\ \A r \in Subscribers \ {s} : subs'[r] = subs[r]
    BY <2>2, SubsToKeeps DEF Subscribers
  <2>4. ASSUME NEW u, u = subs[s].topic, u \in InstanceTopics PROVE Excused(u)'
    BY <2>3, <2>4 DEF Excused
  <2>5. \A u \in Topics : channels'[u] = channels[u] \/ (channels'[u] = 0 /\ Excused(u)')
    BY <2>1, <2>4 DEF ChannelsTyped
  <2>6. /\ DOMAIN chans' = DOMAIN chans
        /\ \A c \in DOMAIN chans :
             /\ chans'[c].topic = chans[c].topic /\ chans'[c].socket = chans[c].socket
             /\ chans'[c].state = IF c = subs[s].chan /\ subs[s].topic \in InstanceTopics
                                  THEN "closed" ELSE chans[c].state
    BY <1>5, DisposeEffect
  <2>7. subs[s].chan \in DOMAIN chans /\ chans[subs[s].chan].topic = subs[s].topic
    BY <2>1 DEF Heard, SubsGiven
  <2>8. ASSUME NEW c \in DOMAIN chans
        PROVE  /\ chans'[c].state = "closed" =>
                     chans[c].state = "closed" \/ Excused(chans[c].topic)'
               /\ chans[c].state = "closed" => chans'[c].state = "closed"
    <3>1. CASE c = subs[s].chan /\ subs[s].topic \in InstanceTopics
      BY <2>3, <2>6, <2>7, <3>1 DEF Excused
    <3>2. CASE ~ (c = subs[s].chan /\ subs[s].topic \in InstanceTopics)
      BY <2>6, <3>2
    <3> QED BY <3>1, <3>2
  <2>9. SocketHeld' /\ Calls \subseteq Calls'
    BY <1>1, <2>1 DEF SocketHeld, Calls
  <2> QED BY <2>1, <2>3, <2>5, <2>6, <2>8, <2>9, HeardKept
<1>6. ASSUME NEW c \in DOMAIN chans, JoinAccepted(c) \/ JoinRefused(c) \/ JoinTimesOut(c)
      PROVE  Heard'
  <2>1. /\ UNCHANGED <<calls, sockets, socket, channels, cuts>>
        /\ \E state \in {"granted", "rejected"} : subs' = SubsTo(WaitingFor(c), state)
    BY <1>6 DEF JoinAccepted, JoinRefused, JoinTimesOut, Answered
  <2>2. PICK state \in {"granted", "rejected"} : subs' = SubsTo(WaitingFor(c), state)
    BY <2>1
  <2>3. state \in SubscriptionStates
    BY DEF SubscriptionStates
  <2>4. /\ Subscribers' = Subscribers
        /\ \A s \in Subscribers : /\ subs'[s].topic = subs[s].topic /\ subs'[s].chan = subs[s].chan
                                  /\ subs'[s].cuts = subs[s].cuts
                                  /\ subs'[s] = subs[s] \/ subs[s].state = "joining"
    BY <2>2, <2>3, SubsToKeeps DEF Subscribers, WaitingFor
  <2>5. /\ ChannelsKeep /\ chans[c].state # "closed" /\ chans'[c].state # "closed"
        /\ \A d \in DOMAIN chans \ {c} : chans'[d] = chans[d]
    BY <1>6, AnswerEffect
  <2>6. \A d \in DOMAIN chans : chans'[d].state = "closed" <=> chans[d].state = "closed"
    BY <2>5
  <2>7. SocketHeld' /\ Calls \subseteq Calls'
    BY <1>1, <2>1 DEF SocketHeld, Calls
  <2> QED BY <2>1, <2>4, <2>5, <2>6, <2>7, HeardKept DEF ChannelsKeep, SameChannel
\* Of two open channels of a topic one is not in the map.
<1>7. ASSUME NEW c \in DOMAIN chans, Rejoin(c) PROVE Heard'
  <2>1. UNCHANGED <<calls, sockets, socket, channels, subs, cuts>> /\ Subscribers' = Subscribers
    BY <1>7 DEF Rejoin, Subscribers
  <2>2. /\ ChannelsKeep /\ chans[c].state # "closed"
        /\ \A d \in DOMAIN chans :
             \/ chans'[d].state = "closed" <=> chans[d].state = "closed"
             \/ d # c /\ chans[d].topic = chans[c].topic /\ chans[d].state # "closed"
    BY <1>7, RejoinEffect
  <2>3. ASSUME NEW d \in DOMAIN chans, d # c, chans[d].topic = chans[c].topic,
               chans[d].state # "closed"
        PROVE  Excused(chans[d].topic)'
    <3>1. Excused(chans[d].topic)
      BY <2>2, <2>3 DEF Heard, OpenIsKnown
    <3> QED BY <2>1, <2>2, <3>1 DEF Excused, ChannelsKeep, SameChannel
  <2>4. SocketHeld' /\ Calls \subseteq Calls'
    BY <1>1, <2>1 DEF SocketHeld, Calls
  <2> QED BY <2>1, <2>2, <2>3, <2>4, HeardKept DEF ChannelsKeep, SameChannel
<1>8. CASE Disconnect
  <2>1. /\ UNCHANGED <<calls, subs>> /\ Subscribers' = Subscribers /\ socket' = 0 /\ cuts' = cuts + 1
        /\ channels' = [t \in Topics |-> 0] /\ cuts \in Nat
    BY <1>8, ClientAssumption DEF Disconnect, Subscribers, ConnectsTyped
  <2>2. /\ ChannelsKeep
        /\ \A c \in DOMAIN chans :
              chans'[c].state = "closed" <=> c \in Known \/ chans[c].state = "closed"
    BY <1>8, DisconnectEffect
  <2>3. MapSound' /\ SocketHeld'
    BY <2>1 DEF MapSound, SocketHeld
  <2>4. OpenIsKnown'
    <3> SUFFICES ASSUME NEW c \in DOMAIN chans, chans'[c].state # "closed"
                 PROVE  Excused(chans[c].topic)'
      BY <2>2 DEF OpenIsKnown, ChannelsKeep
    <3>1. chans[c].state # "closed" /\ c \notin Known /\ chans'[c].topic = chans[c].topic
      BY <2>2 DEF ChannelsKeep, SameChannel
    <3>2. chans[c].topic \in Topics
      <4>1. chans[c] \in ChannelRecords
        BY Entry DEF ChannelsTyped
      <4> QED BY <4>1 DEF ChannelRecords, ChannelsOf
    <3>3. Excused(chans[c].topic)
      BY <3>1, <3>2 DEF Heard, OpenIsKnown, Known
    <3> QED BY <2>1, <3>1, <3>3 DEF Excused
  <2>5. SubsGiven'
    <3>1. \A s \in Subscribers : subs[s].cuts \in Nat
      <4> TAKE s \in Subscribers
      <4>1. subs[s] \in SubscriptionRecords
        BY Entry DEF SubscribersTyped, Subscribers
      <4> QED BY <4>1, ClientAssumption DEF SubscriptionRecords, SubscriptionsTo
    <3> QED BY <2>1, <2>2, <3>1 DEF Heard, SubsGiven, ChannelsKeep, SameChannel
  <2>6. HeardUnlessExcused'
    <3>1. \A s \in Subscribers : subs[s].cuts < cuts + 1
      <4> TAKE s \in Subscribers
      <4>1. subs[s] \in SubscriptionRecords
        BY Entry DEF SubscribersTyped, Subscribers
      <4>2. subs[s].cuts \in Nat /\ subs[s].cuts <= cuts
        BY <4>1, ClientAssumption DEF SubscriptionRecords, SubscriptionsTo, Heard, SubsGiven
      <4> QED BY <2>1, <4>2
    <3> QED BY <2>1, <3>1 DEF HeardUnlessExcused
  <2> QED BY <2>3, <2>4, <2>5, <2>6 DEF Heard
<1> QED BY <1>2, <1>3, <1>4, <1>5, <1>6, <1>7, <1>8 DEF ClientNext

\* A subscriber of the engine's events or of the user tasks is heard until
\* disconnect() is called; one of a process instance until then, or until another
\* subscription of the instance is disposed.
THEOREM StaysHeard == Spec => []HeardUntilDisconnected
<1>1. Init => Typed /\ Heard
  <2> SUFFICES ASSUME Init PROVE Typed /\ Heard
    OBVIOUS
  <2>1. /\ Typed /\ Subscribers = {} /\ DOMAIN chans = {} /\ socket = 0
        /\ channels = [t \in Topics |-> 0]
    BY TypeInit DEF Init, ClientInit, Subscribers
  <2> QED BY <2>1 DEF Heard, MapSound, OpenIsKnown, SocketHeld, SubsGiven, HeardUnlessExcused
<1>2. Typed /\ Heard /\ [Next]_vars => (Typed /\ Heard)'
  <2> SUFFICES ASSUME Typed, Heard, [Next]_vars PROVE (Typed /\ Heard)'
    OBVIOUS
  <2>1. CASE ClientNext
    BY <2>1, TypeStep, HeardStep
  <2>2. CASE UNCHANGED clientVars
    <3>1. Typed'
      BY <2>2, ConnectsUnchanged, ChannelsUnchanged, SubscribersUnchanged
         DEF clientVars, Typed, Calls, Subscribers, ChannelsTyped
    <3>2. Heard'
      BY <2>2 DEF clientVars, Heard, MapSound, OpenIsKnown, SocketHeld, SubsGiven,
                  HeardUnlessExcused, Deaf, Excused, Subscribers
    <3> QED BY <3>1, <3>2
  <2> QED BY <2>1, <2>2 DEF Next, vars
<1>3. Heard => HeardUntilDisconnected
  BY DEF Heard, HeardUnlessExcused, HeardUntilDisconnected, Excused
<1> QED BY <1>1, <1>2, <1>3, PTL DEF Spec
=============================================================================
