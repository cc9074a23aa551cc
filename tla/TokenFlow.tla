------------------------------ MODULE TokenFlow ------------------------------
(***************************************************************************)
(* One process instance (PI) moving tokens through a diagram with forks,   *)
(* splits, joins and end events. The PI (a gen_statem) handles one message *)
(* at a time; each flow node instance (FNI) has a row in the database, an  *)
(* entry in the PI's memory, and a handler Task that runs beside the PI,   *)
(* writes its own row and then sends its result. A join has one FNI per    *)
(* pass: its Task collects the tokens the PI sends it and records each in  *)
(* gateway_pending_arrivals. The engine may stop between any two writes;   *)
(* the PI is then resumed from the rows.                                   *)
(*                                                                         *)
(* A flow node is start, task (any activity), parallel, inclusive,         *)
(* exclusive or event-based gateway (eventGateway), a message or timer     *)
(* catch event, end or terminate; a sequence flow is the pair of its ends. *)
(* Payloads and conditions are left out: a gateway may take any of the     *)
(* selections its type allows. Boundaries, event subprocesses, multi       *)
(* instance shells, compensation and child instances are not modelled.     *)
(***************************************************************************)
EXTENDS Naturals, Sequences, FiniteSets

CONSTANTS
    Diagrams,       \* process models: [kind : [nodes -> kinds], flows : SUBSET of pairs]
    Safe,           \* those where a pass puts one token on a flow, so joins get what they wait for
    MaxInstances,   \* bound on the FNIs of one flow node
    MaxErrors,      \* bound on failing handlers and failing row creations
    MaxCrashes

Kinds == {"start", "task", "parallel", "inclusive", "exclusive", "eventGateway",
          "message", "timer", "end", "terminate"}

ASSUME DiagramsAssumption ==
    \A d \in Diagrams :
        /\ IsFiniteSet(d.flows) /\ \A n \in DOMAIN d.kind : d.kind[n] \in Kinds
        /\ \A flow \in d.flows : flow = <<flow[1], flow[2]>> /\ {flow[1], flow[2]} \subseteq DOMAIN d.kind
        /\ Cardinality({n \in DOMAIN d.kind : d.kind[n] = "start"}) = 1
        \* The validator lets only catch events follow an event-based gateway.
        /\ \A flow \in d.flows :
               d.kind[flow[1]] = "eventGateway" => d.kind[flow[2]] \in {"message", "timer"}
ASSUME SafeAssumption == Safe \subseteq Diagrams
ASSUME BoundsAssumption ==
    MaxInstances \in Nat \ {0} /\ MaxErrors \in Nat /\ MaxCrashes \in Nat

AllNodes == UNION {DOMAIN d.kind : d \in Diagrams}
AllFlows == UNION {d.flows : d \in Diagrams}
Fnis     == AllNodes \X (1 .. MaxInstances)

NoFni == <<>>
NoFlow  == <<>>
Tokens  == AllFlows \X Fnis      \* a token: the flow it takes and its source
Unknown == <<NoFlow, NoFni>>     \* what a join handler entered without a token records
Fire    == <<>>                  \* what the PI sends an inclusive join

VARIABLES
    diagram,
    rows,      \* the FNI rows: state and previous_flow_node_instance_ids
    gpa,       \* gateway_pending_arrivals: <<join FNI, token>>
    piRow,     \* state of the PI's row
    pc,        \* what the PI is doing; "idle" is waiting for a message
    todo,      \* tokens still to be dispatched in the message being handled
    mem,       \* FNI states in the PI's memory (flow_node_instance_states)
    routing,   \* join_routing
    winner,    \* the catch event whose rivals are being cancelled
    losers,    \* FNIs stamped ebg_pending_cancel in the PI's memory
    held,      \* event_based_gateway_deferred_dispatch: no tokens, or one set of them
    task,      \* handler Tasks: step, mailbox and the tokens a join has collected
    errors, crashes

dbVars == <<rows, gpa, piRow>>
ebgVars == <<winner, losers, held>>
vars   == <<diagram, dbVars, pc, todo, mem, routing, ebgVars, task, errors, crashes>>

States == {"none", "active", "waiting", "finished", "interrupted", "fatal", "aborted"}
Live(state) == state \in {"active", "waiting"}

NoRow   == [state |-> "none", prev |-> {}]
NoTask  == [step |-> "none", mail |-> <<>>, acc |-> {}]
NoRoute == [fni |-> NoFni, arrived |-> {}]

Steps == {"none", "enter", "async", "receive", "delete", "finish", "ok", "error"}

-----------------------------------------------------------------------------
(* The diagram.                                                            *)

In(n)   == {flow \in diagram.flows : flow[2] = n}
Out(n)  == {flow \in diagram.flows : flow[1] = n}
Kind(n) == diagram.kind[n]
IsGateway(n) == Kind(n) \in {"parallel", "inclusive"}
IsJoin(n)    == IsGateway(n) /\ Cardinality(In(n)) > 1 /\ Cardinality(Out(n)) <= 1
IsCatch(n)   == Kind(n) \in {"message", "timer"}
IsEnd(n)     == Kind(n) \in {"end", "terminate"}

\* The flows a finished FNI of n may continue on.
Selections(n) ==
    IF Kind(n) = "exclusive" THEN {{flow} : flow \in Out(n)}
    ELSE IF Kind(n) = "inclusive" /\ ~IsJoin(n) THEN SUBSET Out(n) \ {{}}
    ELSE {Out(n)}

\* The flow nodes from which a token can reach the flow without passing the
\* join it leads to: the least set closed under predecessors.
Upstream(d, flow) ==
    LET join == flow[2]
        Closed(S) == /\ flow[1] # join => flow[1] \in S
                     /\ \A g \in d.flows : g[2] \in S /\ g[1] # join => g[1] \in S
    IN  {n \in DOMAIN d.kind : \A S \in SUBSET DOMAIN d.kind : Closed(S) => n \in S}

\* Computed when the process is deployed (inclusive_join_analyses).
Analyses == [d \in Diagrams |-> [flow \in d.flows |-> Upstream(d, flow)]]

-----------------------------------------------------------------------------
NewTask(tokens) == [step |-> "enter", mail |-> <<>>, acc |-> tokens]

StartFni(d) == <<CHOOSE n \in DOMAIN d.kind : d.kind[n] = "start", 1>>

\* The start event is dispatched while the PI process initialises.
Init ==
    /\ diagram \in Diagrams
    /\ rows = [f \in Fnis |-> IF f = StartFni(diagram)
                              THEN [state |-> "active", prev |-> {}] ELSE NoRow]
    /\ gpa = {}
    /\ piRow = "running"
    /\ pc = "evaluate"
    /\ todo = {}
    /\ mem = [f \in Fnis |-> rows[f].state]
    /\ routing = [n \in AllNodes |-> NoRoute]
    /\ winner = NoFni /\ losers = {} /\ held = <<>>
    /\ task = [f \in Fnis |-> IF f = StartFni(diagram) THEN NewTask({}) ELSE NoTask]
    /\ errors = 0 /\ crashes = 0

\* Every reachable state is well typed; an FNI in memory as live or finished has a row.
TypeOK ==
    /\ diagram \in Diagrams
    /\ rows \in [Fnis -> [state : States, prev : SUBSET Fnis]]
    /\ gpa \subseteq Fnis \X (Tokens \cup {Unknown})
    /\ piRow \in {"running", "finished", "fatal"}
    /\ pc \in {"idle", "dispatch", "race", "interrupt", "evaluate", "fail", "cascade", "ended", "down"}
    /\ todo \subseteq Tokens
    /\ mem \in [Fnis -> States]
    /\ routing \in [AllNodes -> [fni : Fnis \cup {NoFni}, arrived : SUBSET (AllFlows \cup {NoFlow})]]
    /\ winner \in Fnis \cup {NoFni} /\ losers \subseteq Fnis
    /\ Len(held) <= 1 /\ \A i \in DOMAIN held : held[i] \subseteq Tokens
    /\ \A f \in Fnis :
           /\ task[f].step \in Steps
           /\ task[f].mail \in Seq(Tokens \cup {Fire})
           /\ task[f].acc \subseteq Tokens \cup {Unknown}
           /\ mem[f] \in {"active", "waiting", "finished"} => rows[f].state # "none"
    /\ errors \in 0 .. MaxErrors /\ crashes \in 0 .. MaxCrashes

-----------------------------------------------------------------------------
(* Handler Tasks. A write to a row that already ended changes nothing.     *)

Step(f, s) == task' = [task EXCEPT ![f].step = s]

End(f, state) == IF Live(rows[f].state) THEN [rows EXCEPT ![f].state = state] ELSE rows

\* Any node but a join or a catch event does its work, finishes its row, and
\* sends its result.
Enter(f) ==
    /\ task[f].step = "enter" /\ ~IsJoin(f[1]) /\ ~IsCatch(f[1])
    /\ rows' = End(f, "finished")
    /\ Step(f, "ok")
    /\ UNCHANGED <<diagram, gpa, piRow, pc, todo, mem, routing, ebgVars, errors, crashes>>

\* A join records its first arrival, sends {:async, ...} and waits for the gate.
EnterJoin(f) ==
    /\ task[f].step = "enter" /\ IsJoin(f[1])
    /\ gpa' = gpa \cup {<<f, token>> : token \in task[f].acc}
    /\ Step(f, "async")
    /\ UNCHANGED <<diagram, rows, piRow, pc, todo, mem, routing, ebgVars, errors, crashes>>

\* A catch event arms its timer or subscribes, parks its row, sends {:async, ...}.
Park(f) ==
    /\ task[f].step = "enter" /\ IsCatch(f[1])
    /\ rows' = End(f, "waiting")
    /\ Step(f, "async")
    /\ UNCHANGED <<diagram, gpa, piRow, pc, todo, mem, routing, ebgVars, errors, crashes>>

\* The gate is open, and the timer fires or the message comes.
Trigger(f) ==
    /\ task[f].step = "receive" /\ IsCatch(f[1])
    /\ rows' = End(f, "finished")
    /\ Step(f, "ok")
    /\ UNCHANGED <<diagram, gpa, piRow, pc, todo, mem, routing, ebgVars, errors, crashes>>

Arrived(tokens) == {token[1] : token \in tokens}

\* Mutated form: a parallel join fires on its second last arrival.
CompleteEarly(n, tokens) == Cardinality(tokens) + 1 >= Cardinality(In(n))

Complete(n, tokens) == Cardinality(tokens) >= Cardinality(In(n))

\* The receive loop of a join. A parallel join fires on its last arrival, an
\* inclusive one when the PI says so.
Receive(f) ==
    /\ task[f].step = "receive" /\ task[f].mail # <<>>
    /\ LET message == Head(task[f].mail)
           tokens  == task[f].acc \cup {message}
           Took(s, acc) == task' = [task EXCEPT ![f] = [step |-> s, mail |-> Tail(@.mail), acc |-> acc]]
       IN  IF message = Fire THEN Took("delete", task[f].acc) /\ UNCHANGED gpa
           ELSE IF Kind(f[1]) = "parallel" /\ message[1] \in Arrived(task[f].acc)
           THEN Took("error", task[f].acc) /\ UNCHANGED gpa
           ELSE /\ gpa' = gpa \cup {<<f, message>>}
                /\ Took(IF Kind(f[1]) = "parallel" /\ Complete(f[1], tokens)
                        THEN "delete" ELSE "receive", tokens)
    /\ UNCHANGED <<diagram, rows, piRow, pc, todo, mem, routing, ebgVars, errors, crashes>>

\* fire_join: the arrivals are deleted first ...
DeleteArrivals(f) ==
    /\ task[f].step = "delete"
    /\ gpa' = {arrival \in gpa : arrival[1] # f}
    /\ Step(f, "finish")
    /\ UNCHANGED <<diagram, rows, piRow, pc, todo, mem, routing, ebgVars, errors, crashes>>

\* ... and then the row is finished, naming the sources of all arrivals.
FinishJoin(f) ==
    /\ task[f].step = "finish"
    /\ LET sources == {token[2] : token \in task[f].acc} \ {NoFni}
       IN  rows' = IF Live(rows[f].state) /\ sources # {}
                   THEN [rows EXCEPT ![f] = [state |-> "finished", prev |-> sources]]
                   ELSE End(f, "finished")
    /\ Step(f, "ok")
    /\ UNCHANGED <<diagram, gpa, piRow, pc, todo, mem, routing, ebgVars, errors, crashes>>

\* A handler fails, or its finish cannot be persisted; its row stays as it is.
Fail(f) ==
    /\ task[f].step \in {"enter", "finish"} /\ errors < MaxErrors
    /\ errors' = errors + 1
    /\ Step(f, "error")
    /\ UNCHANGED <<diagram, dbVars, pc, todo, mem, routing, ebgVars, crashes>>

-----------------------------------------------------------------------------
(* The PI. Each message is handled to its end before the next one; the     *)
(* Tasks go on meanwhile. Results of FNIs that are no longer live in       *)
(* memory are dropped: no action is enabled for them.                      *)

Instances(n) == {k \in 1 .. MaxInstances : mem[<<n, k>>] # "none"}

\* The FNIs of a node are numbered as they are created: at most one is next.
NewFnis(n) ==
    {f \in Fnis : /\ f[1] = n /\ \A k \in Instances(n) : k < f[2]
                  /\ f[2] = 1 \/ f[2] - 1 \in Instances(n)}

\* The bound on loops: an exclusive gateway goes where there is room.
Taken(n) ==
    IF Kind(n) = "exclusive"
    THEN {s \in Selections(n) : \A flow \in s : NewFnis(flow[2]) # {}}
    ELSE Selections(n)

TokensOf(f, flows) == {<<flow, f>> : flow \in flows}

\* {:async}: the row, if it is still live, and the entry wait; the gate opens.
HandleAsync(f) ==
    /\ pc = "idle" /\ task[f].step = "async" /\ Live(mem[f]) /\ f \notin losers
    /\ rows' = End(f, "waiting")
    /\ mem' = [mem EXCEPT ![f] = "waiting"]
    /\ Step(f, "receive")
    /\ pc' = "evaluate"
    /\ UNCHANGED <<diagram, gpa, piRow, todo, routing, ebgVars, errors, crashes>>

\* The other catch events behind the event-based gateway that f follows.
Rivals(f) ==
    {g \in Fnis \ {f} : \E e \in rows[f].prev \cap rows[g].prev : Kind(e[1]) = "eventGateway"}

\* Mutated form: only the rivals that wait are cancelled.
WaitingRivals(f) == {g \in Rivals(f) : mem[g] = "waiting"}

LiveRivals(f) == {g \in Rivals(f) : Live(mem[g])}

\* The tokens are dispatched at once, or held while a stamped loser, of any
\* gateway, is still entering. There is one place to hold them.
DispatchOrHold(tokens) ==
    IF \E g \in losers' : mem'[g] = "active"
    THEN held' = <<tokens>> /\ todo' = {} /\ pc' = "evaluate"
    ELSE /\ todo' = tokens /\ UNCHANGED held
         /\ pc' = IF tokens = {} THEN "evaluate" ELSE "dispatch"

\* {:ok, result} and {:terminate, result}: the entry is finished, its
\* successors are dispatched; a terminate end event interrupts the others, a
\* catch event first cancels its rivals.
HandleOk(f) ==
    /\ pc = "idle" /\ task[f].step = "ok" /\ Live(mem[f]) /\ f \notin losers
    /\ mem' = [mem EXCEPT ![f] = "finished"]
    /\ task' = [task EXCEPT ![f] = NoTask]
    /\ UNCHANGED losers
    /\ \E flows \in Taken(f[1]) :
         IF Kind(f[1]) = "terminate" \/ LiveRivals(f) # {}
         THEN /\ todo' = TokensOf(f, flows) /\ UNCHANGED held
              /\ IF Kind(f[1]) = "terminate" THEN pc' = "interrupt" /\ UNCHANGED winner
                 ELSE pc' = "race" /\ winner' = f
         ELSE DispatchOrHold(TokensOf(f, flows)) /\ UNCHANGED winner
    /\ UNCHANGED <<diagram, dbVars, routing, errors, crashes>>

\* cancel_siblings: waiting rivals of the winner are interrupted one by one, a
\* row that is finished already stays so ...
CancelRival ==
    /\ pc = "race"
    /\ \E g \in LiveRivals(winner) :
         /\ mem[g] = "waiting"
         /\ rows' = End(g, "interrupted")
         /\ mem' = [mem EXCEPT ![g] = "interrupted"]
         /\ task' = [task EXCEPT ![g] = NoTask]
    /\ UNCHANGED <<diagram, gpa, piRow, pc, todo, routing, ebgVars, errors, crashes>>

\* ... and those still entering are stamped.
StampRivals ==
    /\ pc = "race"
    /\ \A g \in LiveRivals(winner) : mem[g] = "active"
    /\ losers' = losers \cup LiveRivals(winner)
    /\ winner' = NoFni
    /\ UNCHANGED mem
    /\ DispatchOrHold(todo)
    /\ UNCHANGED <<diagram, dbVars, routing, task, errors, crashes>>

\* A stamped loser reports, whatever its result: it is interrupted, and the
\* last one lets go the tokens held.
HandleLoser(f) ==
    /\ pc = "idle" /\ task[f].step \in {"async", "ok", "error"} /\ Live(mem[f]) /\ f \in losers
    /\ rows' = End(f, "interrupted")
    /\ mem' = [mem EXCEPT ![f] = "interrupted"]
    /\ task' = [task EXCEPT ![f] = NoTask]
    /\ IF held = <<>> \/ \E g \in losers : mem'[g] = "active"
       THEN pc' = "evaluate" /\ UNCHANGED <<todo, held>>
       ELSE todo' = held[1] /\ held' = <<>> /\ pc' = IF todo' = {} THEN "evaluate" ELSE "dispatch"
    /\ UNCHANGED <<diagram, gpa, piRow, routing, winner, losers, errors, crashes>>

\* {:error, reason}: the FNI's row turns fatal, then the PI does.
HandleError(f) ==
    /\ pc = "idle" /\ task[f].step = "error" /\ Live(mem[f]) /\ f \notin losers
    /\ rows' = End(f, "fatal")
    /\ mem' = [mem EXCEPT ![f] = "fatal"]
    /\ task' = [task EXCEPT ![f] = NoTask]
    /\ pc' = "fail"
    /\ UNCHANGED <<diagram, gpa, piRow, todo, routing, ebgVars, errors, crashes>>

\* live_join_routing: an entry whose FNI has ended belongs to an earlier pass.
LiveRoute(n) == routing[n].fni # NoFni /\ Live(mem[routing[n].fni])

\* The order of a selection's flows is not part of the diagram: any order.
Consume(token) ==
    /\ todo' = todo \ {token}
    /\ pc' = IF todo = {token} THEN "evaluate" ELSE "dispatch"

\* A token that finds no live join (or is not at a join) starts an FNI: its row
\* is created, its Task spawned, and at a join the routing set up.
StartNew(token) ==
    LET n == token[1][2]
    IN \E f \in NewFnis(n) :
        /\ ~(IsJoin(n) /\ LiveRoute(n))
        /\ rows' = [rows EXCEPT ![f] = [state |-> "active", prev |-> {token[2]}]]
        /\ mem' = [mem EXCEPT ![f] = "active"]
        /\ task' = [task EXCEPT ![f] = NewTask(IF IsJoin(n) THEN {token} ELSE {})]
        /\ routing' = IF IsJoin(n)
                      THEN [routing EXCEPT ![n] = [fni |-> f, arrived |-> {token[1]}]] ELSE routing
        /\ UNCHANGED errors

\* Mutated form: the failed creation goes unnoticed.
StartFailsUnnoticed(token) ==
    LET n == token[1][2]
    IN \E f \in NewFnis(n) :
        /\ ~(IsJoin(n) /\ LiveRoute(n))
        /\ errors < MaxErrors /\ errors' = errors + 1
        /\ mem' = [mem EXCEPT ![f] = "active"]
        /\ UNCHANGED <<rows, task, routing>>

\* The row cannot be created: a fatal entry, without a row, ends the PI.
StartFails(token) ==
    LET n == token[1][2]
    IN \E f \in NewFnis(n) :
        /\ ~(IsJoin(n) /\ LiveRoute(n))
        /\ errors < MaxErrors /\ errors' = errors + 1
        /\ mem' = [mem EXCEPT ![f] = "fatal"]
        /\ UNCHANGED <<rows, task, routing>>

\* A further token of a join's pass goes to its Task. The routing entry of a
\* parallel join is dropped with its last arrival: the next token starts a pass.
RouteToJoin(token) ==
    LET n == token[1][2]
        arrived == routing[n].arrived \cup {token[1]}
    IN  /\ IsJoin(n) /\ LiveRoute(n) /\ token[1] \notin routing[n].arrived
        /\ routing' = [routing EXCEPT ![n] =
                           IF Kind(n) = "parallel" /\ Complete(n, arrived) THEN NoRoute
                           ELSE [@ EXCEPT !.arrived = arrived]]
        /\ task' = IF task[routing[n].fni].step = "none" THEN task
                   ELSE [task EXCEPT ![routing[n].fni].mail = Append(@, token)]
        /\ UNCHANGED <<rows, mem, errors>>

\* A second token on a flow that has delivered is fatal: duplicate_join_arrival.
DuplicateArrival(token) ==
    LET n == token[1][2]
        f == routing[n].fni
    IN  /\ IsJoin(n) /\ LiveRoute(n) /\ token[1] \in routing[n].arrived
        /\ rows' = End(f, "fatal")
        /\ mem' = [mem EXCEPT ![f] = "fatal"]
        /\ UNCHANGED <<routing, task, errors>>

Dispatch(token) ==
    /\ pc = "dispatch" /\ token \in todo
    /\ Consume(token)
    /\ \/ StartNew(token)
       \/ StartFails(token)
       \/ RouteToJoin(token)
       \/ DuplicateArrival(token)
    /\ UNCHANGED <<diagram, gpa, piRow, ebgVars, crashes>>

\* interrupt_remaining_fnis, one FNI at a time: its Task is killed; a row that
\* its handler has finished stays finished, and its result is never handled.
Interrupt ==
    /\ pc = "interrupt"
    /\ IF \E f \in Fnis : Live(mem[f])
       THEN \E f \in Fnis :
              /\ Live(mem[f])
              /\ rows' = End(f, "interrupted")
              /\ mem' = [mem EXCEPT ![f] = rows'[f].state]
              /\ task' = [task EXCEPT ![f] = NoTask]
              /\ UNCHANGED pc
       ELSE pc' = "evaluate" /\ UNCHANGED <<rows, mem, task>>
    /\ UNCHANGED <<diagram, gpa, piRow, todo, routing, ebgVars, errors, crashes>>

\* Mutated form: a flow is dead unless an active FNI is upstream of it.
DeadUnlessActive(flow) ==
    \A f \in Fnis : mem[f] = "active" => f[1] \notin Analyses[diagram][flow]

\* No live FNI can still deliver a token through the flow.
Dead(flow) == \A f \in Fnis : Live(mem[f]) => f[1] \notin Analyses[diagram][flow]

\* Mutated form: an inclusive join waits for every flow, dead or not.
ShouldFireWhenAllArrived(n) ==
    /\ Kind(n) = "inclusive" /\ LiveRoute(n)
    /\ routing[n].arrived = In(n)

ShouldFire(n) ==
    /\ Kind(n) = "inclusive" /\ LiveRoute(n)
    /\ routing[n].arrived # {}
    /\ \A flow \in In(n) \ routing[n].arrived : Dead(flow)

\* Mutated form: only active FNIs keep the PI running.
CompletedUnlessActive(states) == "active" \notin states

\* should_complete?: nothing is active or waiting.
Completed(states) == \A state \in states : ~Live(state)

\* The PI process has ended, and its Tasks, linked to it, with it.
Stop ==
    /\ mem' = [f \in Fnis |-> "none"]
    /\ routing' = [n \in AllNodes |-> NoRoute]
    /\ winner' = NoFni /\ losers' = {} /\ held' = <<>>
    /\ task' = [f \in Fnis |-> NoTask]
    /\ todo' = {}

\* maybe_finish_or_continue, after every message. While tokens are held, their
\* branch would look dead: no join is evaluated.
Evaluate ==
    /\ pc = "evaluate"
    /\ LET firing == {n \in DOMAIN diagram.kind : held = <<>> /\ ShouldFire(n)}
           states == {mem[f] : f \in Fnis}
       IN  IF "fatal" \notin states /\ Completed(states)
           THEN piRow' = "finished" /\ pc' = "ended" /\ Stop
           ELSE /\ routing' = [n \in AllNodes |-> IF n \in firing THEN NoRoute ELSE routing[n]]
                /\ task' = [f \in Fnis |->
                                IF \E n \in firing : routing[n].fni = f /\ task[f].step # "none"
                                THEN [task[f] EXCEPT !.mail = Append(@, Fire)] ELSE task[f]]
                /\ IF "fatal" \in states
                   THEN piRow' = "fatal" /\ pc' = "cascade"
                   ELSE pc' = "idle" /\ UNCHANGED piRow
                /\ UNCHANGED <<mem, todo, ebgVars>>
    /\ UNCHANGED <<diagram, rows, gpa, errors, crashes>>

\* transition_to_fatal: the PI's row first ...
TransitionToFatal ==
    /\ pc = "fail"
    /\ piRow' = "fatal" /\ pc' = "cascade"
    /\ UNCHANGED <<diagram, rows, gpa, todo, mem, routing, ebgVars, task, errors, crashes>>

\* ... then every live FNI, its Task killed before its row is written.
Cascade ==
    /\ pc = "cascade"
    /\ IF \E f \in Fnis : Live(mem[f])
       THEN \E f \in Fnis :
              /\ Live(mem[f])
              /\ rows' = End(f, "fatal")
              /\ mem' = [mem EXCEPT ![f] = "fatal"]
              /\ task' = [task EXCEPT ![f] = NoTask]
              /\ UNCHANGED <<pc, routing, todo, ebgVars>>
       ELSE pc' = "ended" /\ Stop /\ UNCHANGED rows
    /\ UNCHANGED <<diagram, gpa, piRow, errors, crashes>>

-----------------------------------------------------------------------------
(* The engine stops at any point and boots.                                *)

Crash ==
    /\ pc \notin {"down", "ended"} /\ crashes < MaxCrashes
    /\ crashes' = crashes + 1
    /\ pc' = "down" /\ Stop
    /\ UNCHANGED <<diagram, dbVars, errors>>

\* cleanup_orphaned_flow_node_instances: live rows of a PI that has ended.
CleanUp ==
    /\ pc = "down" /\ piRow # "running"
    /\ rows' = [f \in Fnis |-> IF Live(rows[f].state) THEN [rows[f] EXCEPT !.state = "aborted"]
                               ELSE rows[f]]
    /\ pc' = "ended"
    /\ UNCHANGED <<diagram, gpa, piRow, todo, mem, routing, ebgVars, task, errors, crashes>>

Arrivals(f) == {arrival[2] : arrival \in {a \in gpa : a[1] = f}}
LiveRows(n) == {f \in Fnis : f[1] = n /\ Live(rows[f].state)}
Latest(S)   == CHOOSE f \in S : \A g \in S : g[2] <= f[2]

\* rebuild_join_routing: the FNI with arrivals, or else any live gateway FNI,
\* a fork or a split as well as a join; the latest of several is kept.
RebuiltRoute(n) ==
    LET live     == LiveRows(n)
        arriving == {f \in live : Arrivals(f) # {}}
        route(S) == [fni |-> Latest(S), arrived |-> Arrived(Arrivals(Latest(S)))]
    IN  IF ~IsGateway(n) \/ live = {} THEN NoRoute
        ELSE IF arriving # {} THEN route(arriving) ELSE route(live)

\* A routed gateway FNI resumes from its arrivals, a catch event that waited
\* waits again; any other active FNI is run from scratch.
ResumedTask(f) ==
    IF ~Live(rows[f].state) THEN NoTask
    ELSE IF IsGateway(f[1]) /\ RebuiltRoute(f[1]).fni = f
    THEN [step |-> IF Complete(f[1], Arrivals(f)) THEN "delete" ELSE "async",
          mail |-> <<>>, acc |-> Arrivals(f)]
    ELSE IF IsCatch(f[1]) /\ rows[f].state = "waiting" THEN [NoTask EXCEPT !.step = "receive"]
    ELSE IF rows[f].state = "active" THEN NewTask(IF IsJoin(f[1]) THEN {Unknown} ELSE {})
    ELSE NoTask

TerminateFinished == \E f \in Fnis : rows[f].state = "finished" /\ Kind(f[1]) = "terminate"

\* Mutated form: lost successors are looked for beside live FNIs.
LostBesideLive ==
    IF TerminateFinished THEN {}
    ELSE {f \in Fnis : /\ rows[f].state = "finished" /\ ~IsEnd(f[1])
                       /\ \A g \in Fnis : f \notin rows[g].prev}

\* FNIs whose successors were never created: finished, and no FNI's
\* predecessor. Nothing is repaired while an FNI is live.
Lost ==
    IF TerminateFinished \/ \E f \in Fnis : Live(rows[f].state) THEN {}
    ELSE {f \in Fnis : /\ rows[f].state = "finished" /\ ~IsEnd(f[1])
                       /\ \A g \in Fnis : f \notin rows[g].prev}

Resume ==
    /\ pc = "down" /\ piRow = "running"
    /\ mem' = [f \in Fnis |-> rows[f].state]
    /\ routing' = [n \in AllNodes |-> IF n \in DOMAIN diagram.kind THEN RebuiltRoute(n) ELSE NoRoute]
    /\ task' = [f \in Fnis |-> ResumedTask(f)]
    /\ \E taken \in [Lost -> UNION {Selections(f[1]) : f \in Lost}] :
         /\ \A f \in Lost : taken[f] \in Selections(f[1])
         /\ todo' = UNION {TokensOf(f, taken[f]) : f \in Lost}
    /\ pc' = IF todo' = {} THEN "evaluate" ELSE "dispatch"
    /\ UNCHANGED <<diagram, dbVars, ebgVars, errors, crashes>>

-----------------------------------------------------------------------------
HandlerStep(f) ==
    Enter(f) \/ EnterJoin(f) \/ Park(f) \/ Receive(f) \/ DeleteArrivals(f) \/ FinishJoin(f)

InstanceStep ==
    \/ \E f \in Fnis : HandleAsync(f) \/ HandleOk(f) \/ HandleLoser(f) \/ HandleError(f)
    \/ CancelRival \/ StampRivals
    \/ \E token \in todo : Dispatch(token)
    \/ Interrupt \/ Evaluate \/ TransitionToFatal \/ Cascade

Next ==
    \/ \E f \in Fnis : HandlerStep(f) \/ Trigger(f) \/ Fail(f)
    \/ InstanceStep
    \/ Crash \/ CleanUp \/ Resume

Spec == Init /\ [][Next]_vars

\* The BEAM schedules every Task and the PI; an engine that is down is started
\* again; a timer fires. No message has to come, nothing has to fail or crash.
Fairness ==
    /\ \A f \in Fnis : WF_vars(HandlerStep(f))
    /\ \A f \in Fnis : WF_vars(Trigger(f) /\ Kind(f[1]) = "timer")
    /\ WF_vars(InstanceStep)
    /\ WF_vars(CleanUp) /\ WF_vars(Resume)

FairSpec == Spec /\ Fairness

-----------------------------------------------------------------------------
\* Across a crash, a parallel join that finished took one token from each of its
\* incoming flows. (join_receive_loop, handle_resume.)
JoinComplete ==
    \A f \in Fnis :
        rows[f].state = "finished" /\ IsJoin(f[1]) /\ Kind(f[1]) = "parallel"
            => {<<g[1], f[1]>> : g \in rows[f].prev} = In(f[1])

\* Whatever crashes, a token is consumed once: no two FNIs of a flow node name
\* the same predecessor. (dispatch_successors, lost_successor_dispatches.)
ConsumedOnce ==
    \A f, g \in Fnis : f # g /\ f[1] = g[1] => rows[f].prev \cap rows[g].prev = {}

\* A PI that has ended left no live FNI row behind, also when it stopped in the
\* middle of the cascade. (finish_quiesced_pi, fatal_all_fnis, cleanup_orphans.)
EndedIsQuiet ==
    pc = "ended" => piRow # "running" /\ \A f \in Fnis : ~Live(rows[f].state)

\* The flows on which a token of f has been consumed, waits in a join or is held.
Consumed(f) ==
    {flow \in Out(f[1]) :
        \/ \E g \in Fnis : g[1] = flow[2] /\
            (f \in rows[g].prev \/ <<flow, f>> \in task[g].acc
                \/ \E i \in DOMAIN task[g].mail : task[g].mail[i] = <<flow, f>>)
        \/ \E i \in DOMAIN held : <<flow, f>> \in held[i]}

\* Two catch events may both have finished before the PI handled the first.
Outrun(f) ==
    /\ Consumed(f) = {}
    /\ \E g \in Rivals(f) : \/ Consumed(g) # {}
                            \/ rows[g].state = "finished" /\ Out(g[1]) = {}

\* Without a crash no token is lost: once the PI is done with its message, the
\* tokens of every finished FNI were consumed on one of its selections. A join
\* that fires too early, or on too few tokens, loses one, and so does a winner
\* behind an event-based gateway whose dispatch is held and forgotten.
NoTokenLost ==
    (crashes = 0 /\ pc \in {"idle", "ended"} /\ piRow # "fatal" /\ ~TerminateFinished) =>
        \A f \in Fnis :
            rows[f].state = "finished" /\ task[f].step = "none" =>
                Consumed(f) \in Selections(f[1]) \/ Outrun(f)

\* Without a crash only one of the catch events behind an event-based gateway
\* goes on, however many were triggered. (cancel_siblings, stale results.)
OneBranchGoesOn ==
    crashes = 0 =>
        \A f \in Fnis : Consumed(f) # {} => \A g \in Rivals(f) : Consumed(g) = {}

Acyclic(d) ==
    ~ \E S \in SUBSET DOMAIN d.kind : S # {} /\ \A n \in S : \E m \in S : <<n, m>> \in d.flows

FlowsInto(d, n) == {flow \in d.flows : flow[2] = n}
JoinNodes(d) ==
    {n \in DOMAIN d.kind : /\ d.kind[n] \in {"parallel", "inclusive"}
                           /\ Cardinality(FlowsInto(d, n)) > 1
                           /\ Cardinality({flow \in d.flows : flow[1] = n}) <= 1}

\* The joins and the flow nodes from which one can be reached.
BeforeJoins(d) ==
    LET Closed(S) == JoinNodes(d) \subseteq S /\ \A flow \in d.flows : flow[2] \in S => flow[1] \in S
    IN  {n \in DOMAIN d.kind : \A S \in SUBSET DOMAIN d.kind : Closed(S) => n \in S}

\* No pass takes both flows: an exclusive gateway chooses, events race, or whatever
\* leads to one of them is known to exclude the other.
Alternative(d, known, a, b) ==
    LET Into(n) == FlowsInto(d, n)
        Started(n) == d.kind[n] = "start"
    IN  \/ a # b /\ a[1] = b[1] /\ d.kind[a[1]] = "exclusive"
        \/ /\ a[1] # b[1]
           /\ \E e \in DOMAIN d.kind : /\ d.kind[e] = "eventGateway"
                                       /\ Into(a[1]) = {<<e, a[1]>>} /\ Into(b[1]) = {<<e, b[1]>>}
        \/ ~Started(a[1]) /\ Into(a[1]) \X {b} \subseteq known
        \/ ~Started(b[1]) /\ {a} \X Into(b[1]) \subseteq known

\* The pairs of flows before joins that are alternatives, narrowed down from all.
Alternatives(d) ==
    LET before == {flow \in d.flows : flow[2] \in BeforeJoins(d)}
        Narrowed[k \in 0 .. 2 * Cardinality(before)] ==
            IF k = 0 THEN before \X before
            ELSE LET known == Narrowed[k - 1]
                 IN  {p \in known : Alternative(d, known, p[1], p[2])}
    IN  Narrowed[2 * Cardinality(before)]

\* Wherever flows merge before a join, other than at a join, they are alternatives.
MergesAlternatives(d) ==
    LET pairs == Alternatives(d)
    IN  /\ \A p \in pairs : Alternative(d, pairs, p[1], p[2])
        /\ \A n \in BeforeJoins(d) :
              /\ d.kind[n] = "start" => FlowsInto(d, n) = {}
              /\ n \notin JoinNodes(d) => \A a, b \in FlowsInto(d, n) : a # b => <<a, b>> \in pairs

FiresOnce == {d \in Diagrams : Acyclic(d) /\ MergesAlternatives(d)}

\* Without a crash, and without loops, where only alternatives merge before joins,
\* every join fires once: no token arrives after dead-path elimination has let it
\* fire. (should_fire?, store_join_routing.)
JoinsFireOnce ==
    crashes = 0 /\ diagram \in FiresOnce =>
        \A n \in DOMAIN diagram.kind :
            IsJoin(n) => Cardinality({f \in Fnis : f[1] = n /\ rows[f].state # "none"}) <= 1

\* Without a crash the PI of a safe diagram ends: no join waits for a token that
\* cannot come any more. (should_fire?, store_join_routing, should_complete?.)
EndsWithoutCrash == diagram \in Safe ~> (pc = "ended" \/ crashes > 0)

\* Once the PI knows of a finished terminate end event, and is done with its
\* message, nothing else is live.
TerminateEndsAll ==
    (pc = "idle" /\ \E f \in Fnis : mem[f] = "finished" /\ Kind(f[1]) = "terminate")
        => \A f \in Fnis : ~Live(mem[f])
=============================================================================
