--------------------------- MODULE MessageDelivery ---------------------------
(***************************************************************************)
(* What message correlation promises, without registry, claims, rows or    *)
(* actors: a published message reaches waiting handlers directly, or event *)
(* subprocess starts, or new process instances, or it is held and then     *)
(* reaches a single subscription or is dropped. A handler's subscription   *)
(* takes one message (docs/architecture/routing.md 3.5.3 and 3.5.4).       *)
(***************************************************************************)
CONSTANTS Messages, Subscriptions,
          OneShot            \* the subscriptions of handlers

VARIABLES taken,             \* <<message, subscription>> for every delivery
          started,           \* messages that started process instances
          held               \* "no", "held", then "over"

vars == <<taken, started, held>>

Receivers(m) == {s \in Subscriptions : <<m, s>> \in taken}

\* A one-shot subscription that has taken a message takes no other.
Free(s) == s \in OneShot => \A m \in Messages : <<m, s>> \notin taken

Init == taken = {} /\ started = {} /\ held = [m \in Messages |-> "no"]

\* Tier 1 is a broadcast: every one-shot subscription may get the message.
DeliverDirectly(m, s) ==
    /\ held[m] = "no" /\ m \notin started
    /\ s \in OneShot /\ Free(s)
    /\ Receivers(m) \subseteq OneShot
    /\ taken' = taken \cup {<<m, s>>}
    /\ UNCHANGED <<started, held>>

DeliverToEspStarts(m, starts) ==
    /\ held[m] = "no" /\ m \notin started
    /\ Receivers(m) = {}
    /\ starts \subseteq Subscriptions \ OneShot
    /\ taken' = taken \cup {<<m, s>> : s \in starts}
    /\ UNCHANGED <<started, held>>

StartProcesses(m) ==
    /\ held[m] = "no" /\ m \notin started
    /\ Receivers(m) = {}
    /\ started' = started \cup {m}
    /\ UNCHANGED <<taken, held>>

Hold(m) ==
    /\ held[m] = "no" /\ m \notin started
    /\ Receivers(m) = {}
    /\ held' = [held EXCEPT ![m] = "held"]
    /\ UNCHANGED <<taken, started>>

DeliverHeld(m, s) ==
    /\ held[m] = "held" /\ Free(s)
    /\ taken' = taken \cup {<<m, s>>}
    /\ held' = [held EXCEPT ![m] = "over"]
    /\ UNCHANGED started

Drop(m) ==
    /\ held[m] = "held"
    /\ held' = [held EXCEPT ![m] = "over"]
    /\ UNCHANGED <<taken, started>>

Next ==
    \E m \in Messages :
        \/ \E s \in Subscriptions : DeliverDirectly(m, s) \/ DeliverHeld(m, s)
        \/ \E starts \in SUBSET (Subscriptions \ OneShot) : DeliverToEspStarts(m, starts)
        \/ StartProcesses(m) \/ Hold(m) \/ Drop(m)

Spec == Init /\ [][Next]_vars
=============================================================================
