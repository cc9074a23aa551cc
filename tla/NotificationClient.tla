--------------------------- MODULE NotificationClient ---------------------------
(***************************************************************************)
(* NotificationClient of @elraptorus/bfw_engine_client: connect() waits for  *)
(* a token and then for a new Socket, joinChannel() shares one channel per   *)
(* topic, the subscriptions of a process instance leave it when disposed,    *)
(* and disconnect() forgets everything.  An action is one synchronous        *)
(* stretch of the JavaScript: what stands between two awaits, or a callback. *)
(*                                                                         *)
(* The Socket and Channel of the phoenix package are external: a socket that *)
(* fails or is lost is tried again until it is disconnected, its channels    *)
(* are joined again, joining a topic leaves another open channel of the      *)
(* topic on the same socket (leaveOpenTopic), leave() closes a channel at    *)
(* once, and a closed channel answers nobody.                                *)
(***************************************************************************)
EXTENDS Naturals, Sequences, FiniteSets

CONSTANTS
    MaxCalls,        \* bound on the calls of connect()
    TimedCalls,      \* those whose timeout is neither 0 nor Infinity
    MaxSubs,         \* bound on the calls of the subscribe methods
    MaxUses,         \* bound on the calls of either kind together
    Topics,
    InstanceTopics,  \* the topics of subscribeProcessInstance
    MaxChannels,     \* bound on the channels ever made
    MaxDisconnects   \* bound on the calls of disconnect()

ASSUME ClientAssumption ==
    /\ InstanceTopics \subseteq Topics
    /\ {MaxCalls, MaxSubs, MaxUses, MaxChannels, MaxDisconnects} \subseteq Nat
    /\ TimedCalls \subseteq 1..MaxCalls

VARIABLES
    calls,     \* the calls of connect(), oldest first, and what became of each
    sockets,   \* the Socket of each connect()
    socket,    \* this.socket: the call whose socket it is, 0 for none
    chans,     \* the Channels made, oldest first
    channels,  \* this.channels: topic |-> index in chans, 0 for none
    subs,      \* the subscribe calls, oldest first
    cuts       \* how often disconnect() was called

clientVars == <<calls, sockets, socket, chans, channels, subs, cuts>>

Calls == DOMAIN calls
Subscribers == DOMAIN subs

ClientTypeOK ==
    /\ calls \in Seq({"token", "opening", "resolved", "rejected"})
    /\ sockets \in Seq([state : {"none", "connecting", "open", "gone"}, born : Nat,
                        cuts : 0..MaxDisconnects])
    /\ DOMAIN sockets = Calls /\ Len(calls) <= MaxCalls
    /\ socket \in 0..Len(calls) /\ (socket # 0 => sockets[socket].state # "none")
    /\ chans \in Seq([topic : Topics, socket : Calls, listeners : SUBSET Subscribers,
                      state : {"joining", "joined", "errored", "closed"}])
    /\ channels \in [Topics -> 0..Len(chans)]
    /\ subs \in Seq([state : {"joining", "granted", "active", "disposed", "rejected"},
                     topic : Topics, chan : 0..Len(chans), cuts : 0..MaxDisconnects])
    /\ cuts \in 0..MaxDisconnects

ClientInit ==
    /\ calls = <<>>
    /\ sockets = <<>>
    /\ socket = 0
    /\ chans = <<>>
    /\ channels = [t \in Topics |-> 0]
    /\ subs = <<>>
    /\ cuts = 0

CallsAt(state) == {i \in Calls : calls[i] = state}

Settle(i, from, to) == calls[i] = from /\ calls' = [calls EXCEPT ![i] = to]

SettleIfOpening(i, to) ==
    calls' = IF calls[i] = "opening" THEN [calls EXCEPT ![i] = to] ELSE calls

\* The channels of socket i that are open, or being opened, fail with it.
Errored(i) ==
    [c \in DOMAIN chans |->
        IF chans[c].socket = i /\ chans[c].state \in {"joining", "joined"}
        THEN [chans[c] EXCEPT !.state = "errored"] ELSE chans[c]]

\* What leaveOpenTopic leaves of cs when its channel c is about to be joined.
OpenTopicLeft(cs, c) ==
    [d \in DOMAIN cs |->
        IF /\ d # c /\ cs[d].topic = cs[c].topic /\ cs[d].socket = cs[c].socket
           /\ cs[d].state \in {"joining", "joined"}
        THEN [cs[d] EXCEPT !.state = "closed"] ELSE cs[d]]

WaitingFor(c) == {s \in Subscribers : subs[s].state = "joining" /\ subs[s].chan = c}

SubsTo(ss, state) ==
    [s \in Subscribers |-> IF s \in ss THEN [subs[s] EXCEPT !.state = state] ELSE subs[s]]

-----------------------------------------------------------------------------
(* connect()                                                               *)

Connect ==
    /\ Len(calls) < MaxCalls /\ Len(calls) + Len(subs) < MaxUses
    /\ calls' = Append(calls, "token")
    /\ sockets' = Append(sockets, [state |-> "none", born |-> 0, cuts |-> 0])
    /\ UNCHANGED <<socket, chans, channels, subs, cuts>>

TokenRejected(i) ==
    /\ Settle(i, "token", "rejected")
    /\ UNCHANGED <<sockets, socket, chans, channels, subs, cuts>>

\* The new Socket takes the place of this.socket, whatever that is by now.
TokenResolved(i) ==
    /\ Settle(i, "token", "opening")
    /\ sockets' = [sockets EXCEPT ![i] =
           [state |-> "connecting", cuts |-> cuts,
            born |-> 1 + Cardinality({j \in Calls : sockets[j].state # "none"})]]
    /\ socket' = i
    /\ UNCHANGED <<chans, channels, subs, cuts>>

\* Mutant: the timer gives up once the client has another socket, or none.
TimesOutIfHeld(i) ==
    /\ i \in TimedCalls \cap Calls /\ socket = i
    /\ Settle(i, "opening", "rejected")
    /\ UNCHANGED <<sockets, socket, chans, channels, subs, cuts>>

ConnectTimesOut(i) ==
    /\ i \in TimedCalls \cap Calls
    /\ Settle(i, "opening", "rejected")
    /\ UNCHANGED <<sockets, socket, chans, channels, subs, cuts>>

SocketOpens(i) ==
    /\ sockets[i].state = "connecting"
    /\ sockets' = [sockets EXCEPT ![i].state = "open"]
    /\ SettleIfOpening(i, "resolved")
    /\ UNCHANGED <<socket, chans, channels, subs, cuts>>

\* An error of the transport, before or after it was open.
SocketFails(i) ==
    /\ sockets[i].state \in {"connecting", "open"}
    /\ sockets' = [sockets EXCEPT ![i].state = "connecting"]
    /\ SettleIfOpening(i, "rejected")
    /\ chans' = Errored(i)
    /\ UNCHANGED <<socket, channels, subs, cuts>>

-----------------------------------------------------------------------------
(* joinChannel() and the three subscribe methods                           *)

Called(t, state, c) ==
    subs' = Append(subs, [state |-> state, topic |-> t, chan |-> c, cuts |-> cuts])

\* The caller gets the channel of the map as it is, joined or not.
SubscribeShared(t) ==
    /\ channels[t] # 0
    /\ Called(t, "granted", channels[t])
    /\ UNCHANGED <<chans, channels>>

\* Mutant: the first subscriber does not look whether there is a socket.
SubscribeUnchecked(t) ==
    /\ channels[t] = 0
    /\ Len(chans) < MaxChannels
    /\ LET c == Len(chans) + 1
           made == [topic |-> t, socket |-> socket, listeners |-> {}, state |-> "joining"]
       IN  /\ chans' = OpenTopicLeft(Append(chans, made), c)
           /\ channels' = [channels EXCEPT ![t] = c]
           /\ Called(t, "joining", c)

\* A new channel is in the map before the engine has answered the join.
SubscribeFirst(t) ==
    /\ channels[t] = 0 /\ socket # 0
    /\ Len(chans) < MaxChannels
    /\ LET c == Len(chans) + 1
           made == [topic |-> t, socket |-> socket, listeners |-> {}, state |-> "joining"]
       IN  /\ chans' = OpenTopicLeft(Append(chans, made), c)
           /\ channels' = [channels EXCEPT ![t] = c]
           /\ Called(t, "joining", c)

SubscribeUnconnected(t) ==
    /\ channels[t] = 0 /\ socket = 0
    /\ Called(t, "rejected", 0)
    /\ UNCHANGED <<chans, channels>>

Subscribe(t) ==
    /\ Len(subs) < MaxSubs /\ Len(calls) + Len(subs) < MaxUses
    /\ SubscribeShared(t) \/ SubscribeFirst(t) \/ SubscribeUnconnected(t)
    /\ UNCHANGED <<calls, sockets, socket, cuts>>

\* After the await: channel.on, on whatever channel it was given.
Listen(s) ==
    /\ subs[s].state = "granted"
    /\ subs' = SubsTo({s}, "active")
    /\ chans' = [chans EXCEPT ![subs[s].chan].listeners = @ \cup {s}]
    /\ UNCHANGED <<calls, sockets, socket, channels, cuts>>

Answered(c, state, outcome) ==
    /\ chans' = [chans EXCEPT ![c].state = state]
    /\ subs' = SubsTo(WaitingFor(c), outcome)
    /\ UNCHANGED <<calls, sockets, socket, channels, cuts>>

CanAnswer(c) == chans[c].state = "joining" /\ sockets[chans[c].socket].state = "open"

JoinAccepted(c) == CanAnswer(c) /\ Answered(c, "joined", "granted")
JoinRefused(c) == CanAnswer(c) /\ Answered(c, "errored", "rejected")
JoinTimesOut(c) == chans[c].state = "joining" /\ Answered(c, "errored", "rejected")

\* The phoenix package joins again what had failed.
Rejoin(c) ==
    /\ chans[c].state = "errored" /\ sockets[chans[c].socket].state = "open"
    /\ chans' = [OpenTopicLeft(chans, c) EXCEPT ![c].state = "joining"]
    /\ UNCHANGED <<calls, sockets, socket, channels, subs, cuts>>

-----------------------------------------------------------------------------
(* dispose() of a subscription, any number of times                        *)

\* Mutant: the channel is left with the first subscription that goes.
SharedChannelLeft(s) ==
    /\ subs[s].topic \notin InstanceTopics
    /\ chans' = [chans EXCEPT ![subs[s].chan].listeners = @ \ {s},
                              ![subs[s].chan].state = "closed"]
    /\ UNCHANGED channels

\* Mutant: the listener is taken from the channel the map has by now.
DisposeOfMap(s) ==
    LET c == channels[subs[s].topic]
    IN  /\ subs[s].topic \notin InstanceTopics
        /\ chans' = [d \in DOMAIN chans |->
              IF d = c THEN [chans[d] EXCEPT !.listeners = @ \ {s}] ELSE chans[d]]
        /\ UNCHANGED channels

\* Only the listener goes; the channel stays for the others.
DisposeShared(s) ==
    /\ subs[s].topic \notin InstanceTopics
    /\ chans' = [chans EXCEPT ![subs[s].chan].listeners = @ \ {s}]
    /\ UNCHANGED channels

\* The channel is left, and whatever the map has for the topic is forgotten.
DisposeInstance(s) ==
    /\ subs[s].topic \in InstanceTopics
    /\ chans' = [chans EXCEPT ![subs[s].chan].listeners = @ \ {s},
                              ![subs[s].chan].state = "closed"]
    /\ channels' = [channels EXCEPT ![subs[s].topic] = 0]

Dispose(s) ==
    /\ subs[s].state \in {"active", "disposed"}
    /\ DisposeShared(s) \/ DisposeInstance(s)
    /\ subs' = SubsTo({s}, "disposed")
    /\ UNCHANGED <<calls, sockets, socket, cuts>>

Known == {channels[t] : t \in Topics}

\* Mutant: the socket is forgotten without being disconnected.
SocketForgotten ==
    /\ cuts < MaxDisconnects
    /\ cuts' = cuts + 1
    /\ chans' = [c \in DOMAIN chans |->
           IF c \in Known THEN [chans[c] EXCEPT !.state = "closed"] ELSE chans[c]]
    /\ channels' = [t \in Topics |-> 0]
    /\ socket' = 0
    /\ UNCHANGED <<calls, sockets, subs>>

\* The channels of the map are left; then the socket goes, with its others.
Disconnect ==
    /\ cuts < MaxDisconnects
    /\ cuts' = cuts + 1
    /\ chans' = [c \in DOMAIN chans |->
           IF c \in Known THEN [chans[c] EXCEPT !.state = "closed"]
           ELSE IF socket # 0 THEN Errored(socket)[c] ELSE chans[c]]
    /\ channels' = [t \in Topics |-> 0]
    /\ sockets' = IF socket = 0 THEN sockets ELSE [sockets EXCEPT ![socket].state = "gone"]
    /\ socket' = 0
    /\ UNCHANGED <<calls, subs>>

ClientNext ==
    \/ Connect
    \/ \E i \in Calls :
          \/ TokenRejected(i) \/ TokenResolved(i) \/ ConnectTimesOut(i)
          \/ SocketOpens(i) \/ SocketFails(i)
    \/ \E t \in Topics : Subscribe(t)
    \/ \E s \in Subscribers : Listen(s) \/ Dispose(s)
    \/ \E c \in DOMAIN chans :
          \/ JoinAccepted(c) \/ JoinRefused(c) \/ JoinTimesOut(c) \/ Rejoin(c)
    \/ Disconnect

\* setTimeout: the timer of a connect() that is not cleared fires.
ClientFairness == \A i \in TimedCalls : WF_clientVars(ConnectTimesOut(i))

-----------------------------------------------------------------------------
(* Properties                                                              *)

Live(i) == sockets[i].state \in {"connecting", "open"}

\* A socket that is still tried or open although the client does not hold it
\* (any more) was replaced by the socket of another connect(), with no
\* disconnect() between the two: a connect() over a live socket, for instance a
\* retry after a timeout.  disconnect() leaves no other behind.
OnlyReplacedSocketsLinger ==
    \A i \in Calls : Live(i) /\ i # socket =>
        \E j \in Calls : sockets[j].born > sockets[i].born /\ sockets[j].cuts = sockets[i].cuts

\* A subscribe call that waits or was answered can no longer be heard on its
\* channel, or get its answer: the channel was closed or its socket is gone.
Deaf(s) ==
    /\ subs[s].state \in {"joining", "granted", "active"}
    /\ \/ chans[subs[s].chan].state = "closed"
       \/ sockets[chans[subs[s].chan].socket].state = "gone"

\* Nothing but disconnect() takes the channel from a subscriber of the engine's
\* events or of the user tasks; from one of a process instance, the dispose()
\* of another subscription of the instance also does, now or later.
HeardUntilDisconnected ==
    \A s \in Subscribers : Deaf(s) =>
        \/ subs[s].cuts < cuts
        \/ /\ subs[s].topic \in InstanceTopics
           /\ \E r \in Subscribers : subs[r].state = "disposed" /\ subs[r].topic = subs[s].topic

\* dispose() takes the handler from the channel it was given to, although the
\* map may know another channel of the topic by then.
DisposedHearsNothing ==
    \A s \in Subscribers : subs[s].state = "disposed" =>
        \A c \in DOMAIN chans : s \notin chans[c].listeners

\* A connect() with a timeout is answered, even if disconnect() or another
\* connect() took its socket from the client, or the socket never opens.
ConnectSettles ==
    \A i \in TimedCalls : i \in CallsAt("opening") ~> i \in CallsAt("resolved") \cup CallsAt("rejected")
=============================================================================
