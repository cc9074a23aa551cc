-------------------------- MODULE TokenFlow_proofs --------------------------
(***************************************************************************)
(* The token flow on every diagram, with any number of FNIs, failures and   *)
(* crashes.                                                                 *)
(***************************************************************************)
EXTENDS TokenFlow, TLAPS, FiniteSetTheorems, NaturalsInduction, WellFoundedInduction

RowRecords   == [state : States, prev : SUBSET Fnis]
TaskRecords  == [step : Steps, mail : Seq(Tokens \cup {Fire}), acc : SUBSET (Tokens \cup {Unknown})]
RouteRecords == [fni : Fnis \cup {NoFni}, arrived : SUBSET (AllFlows \cup {NoFlow})]
PiSteps == {"idle", "dispatch", "race", "interrupt", "evaluate", "fail", "cascade", "ended", "down"}

\* The parts of the type invariant.
RowsTyped  == rows \in [Fnis -> RowRecords]
GpaTyped   == gpa \subseteq Fnis \X (Tokens \cup {Unknown})
MemTyped   == mem \in [Fnis -> States]
RouteTyped == routing \in [AllNodes -> RouteRecords]
HeldTyped  == held \in Seq(SUBSET Tokens) /\ Len(held) <= 1
TodoTyped  == todo \subseteq Tokens /\ losers \subseteq Fnis /\ winner \in Fnis \cup {NoFni}
TasksTyped == task \in [Fnis -> TaskRecords]
StateTyped ==
    /\ diagram \in Diagrams /\ pc \in PiSteps
    /\ piRow \in {"running", "finished", "fatal"}
CountsTyped == errors \in 0 .. MaxErrors /\ crashes \in 0 .. MaxCrashes
HaveRows == \A f \in Fnis : mem[f] \in {"active", "waiting", "finished"} => rows[f].state # "none"

Typed ==
    /\ RowsTyped /\ GpaTyped /\ MemTyped /\ RouteTyped /\ HeldTyped /\ TodoTyped /\ TasksTyped
    /\ StateTyped /\ CountsTyped /\ HaveRows

\* The type invariant says nothing of the functions' fields that this does not.
LEMMA TypedImpliesTypeOK == Typed => TypeOK
BY DEF Typed, TypeOK, RowsTyped, GpaTyped, MemTyped, RouteTyped, HeldTyped, TodoTyped, TasksTyped,
       StateTyped, CountsTyped, HaveRows, RowRecords, TaskRecords, RouteRecords, PiSteps

-----------------------------------------------------------------------------
(* The diagram.                                                            *)

\* The empty tuple is no FNI, no token, no recorded arrival's source.
LEMMA NoTokens ==
    /\ NoFni \notin Fnis /\ Fire \notin Tokens /\ Unknown \notin Tokens
    /\ \A t \in Tokens : t = <<t[1], t[2]>> /\ t[1] \in AllFlows /\ t[2] \in Fnis
    /\ \A f \in Fnis : f = <<f[1], f[2]>> /\ f[1] \in AllNodes /\ f[2] \in 1 .. MaxInstances
    /\ Unknown[1] = NoFlow /\ Unknown[2] = NoFni
<1>1. \A f \in Fnis : f = <<f[1], f[2]>> /\ f[1] \in AllNodes /\ f[2] \in 1 .. MaxInstances
  BY DEF Fnis
<1>2. NoFni \notin Fnis
  BY DEF Fnis, NoFni
<1>3. \A t \in Tokens : t = <<t[1], t[2]>> /\ t[1] \in AllFlows /\ t[2] \in Fnis
  BY DEF Tokens
<1>4. Fire \notin Tokens
  BY DEF Tokens, Fire
<1>5. Unknown[1] = NoFlow /\ Unknown[2] = NoFni
  BY DEF Unknown
<1>6. Unknown \notin Tokens
  BY <1>2, <1>3, <1>5
<1> QED BY <1>1, <1>2, <1>3, <1>4, <1>5, <1>6

\* A flow of the diagram is a pair of its nodes, and known.
LEMMA FlowsOfDiagram ==
    ASSUME diagram \in Diagrams, NEW flow \in diagram.flows
    PROVE  /\ flow = <<flow[1], flow[2]>> /\ flow[1] \in DOMAIN diagram.kind /\ flow[2] \in DOMAIN diagram.kind
           /\ flow \in AllFlows /\ flow[1] \in AllNodes /\ flow[2] \in AllNodes
<1>1. flow = <<flow[1], flow[2]>> /\ {flow[1], flow[2]} \subseteq DOMAIN diagram.kind
  BY DiagramsAssumption
<1>2. flow \in AllFlows /\ DOMAIN diagram.kind \subseteq AllNodes
  BY DEF AllFlows, AllNodes
<1> QED BY <1>1, <1>2

\* A finished FNI continues on flows that leave its node.
LEMMA SelectionsOut ==
    ASSUME NEW n, NEW flows \in Selections(n)
    PROVE  flows \subseteq diagram.flows /\ \A flow \in flows : flow[1] = n
<1>1. flows \subseteq Out(n)
  BY DEF Selections
<1> QED BY <1>1 DEF Out

\* So it does where there is room.
LEMMA TakenOut ==
    ASSUME NEW n, NEW flows \in Taken(n)
    PROVE  flows \subseteq diagram.flows /\ \A flow \in flows : flow[1] = n
<1>1. flows \in Selections(n)
  BY DEF Taken
<1> QED BY <1>1, SelectionsOut

\* Its tokens are tokens, of its own.
LEMMA TokensOfTyped ==
    ASSUME diagram \in Diagrams, NEW f \in Fnis, NEW flows \in SUBSET diagram.flows
    PROVE  /\ TokensOf(f, flows) \subseteq Tokens
           /\ \A t \in TokensOf(f, flows) : t[2] = f /\ t[1] \in flows
<1>1. \A flow \in flows : flow \in AllFlows
  BY FlowsOfDiagram
<1> QED BY <1>1 DEF TokensOf, Tokens

\* There is one start event.
LEMMA StartIsFni ==
    ASSUME NEW d \in Diagrams
    PROVE  StartFni(d) \in Fnis
<1> DEFINE starts == {n \in DOMAIN d.kind : d.kind[n] = "start"}
<1>1. Cardinality(starts) = 1
  BY DiagramsAssumption
<1>2. starts # {}
  BY <1>1, FS_EmptySet
<1> DEFINE start == CHOOSE n \in DOMAIN d.kind : d.kind[n] = "start"
<1>3. start \in DOMAIN d.kind
  BY <1>2
<1>4. 1 \in 1 .. MaxInstances
  BY BoundsAssumption
<1>5. StartFni(d) = <<start, 1>>
  BY DEF StartFni
<1> HIDE DEF start
<1>6. start \in AllNodes
  BY <1>3 DEF AllNodes
<1> QED BY <1>4, <1>5, <1>6 DEF Fnis

\* Of some FNIs one is the latest.
LEMMA LatestIn ==
    ASSUME NEW S \in SUBSET Fnis, S # {}
    PROVE  Latest(S) \in S /\ \A g \in S : g[2] <= Latest(S)[2]
<1> DEFINE left(f) == MaxInstances - f[2]
           T == {left(f) : f \in S}
           R == OpToRel(<, Nat)
<1>1. \A f \in S : f[2] \in 1 .. MaxInstances /\ left(f) \in Nat
  BY NoTokens, BoundsAssumption
<1>2. T \subseteq Nat /\ T # {}
  BY <1>1
<1>3. \E x \in T : \A y \in T : <<y, x>> \notin R
  <2> HIDE DEF T, R
  <2>1. IsWellFoundedOn(R, Nat)
    BY NatLessThanWellFounded DEF R
  <2> QED BY <1>2, <2>1, WFMin
<1>4. PICK x \in T : \A y \in T : ~(y < x)
  BY <1>2, <1>3 DEF OpToRel
<1>5. PICK f \in S : x = left(f)
  OBVIOUS
<1>6. \A g \in S : g[2] <= f[2]
  <2> TAKE g \in S
  <2>1. ~(left(g) < left(f))
    BY <1>4, <1>5
  <2> QED BY <1>1, <2>1, BoundsAssumption
<1> QED BY <1>6 DEF Latest

-----------------------------------------------------------------------------
(* What the updates keep.                                                  *)

\* A row that ends, or parks, changes its state only, and only if it is live.
LEMMA EndTyped ==
    ASSUME RowsTyped, NEW f \in Fnis, NEW s \in States
    PROVE  /\ End(f, s) \in [Fnis -> RowRecords]
           /\ \A g \in Fnis : /\ End(f, s)[g].prev = rows[g].prev
                              /\ End(f, s)[g].state = IF g = f /\ Live(rows[f].state) THEN s ELSE rows[g].state
<1>1. rows[f] \in RowRecords
  BY DEF RowsTyped
<1>2. [rows[f] EXCEPT !.state = s] \in RowRecords /\ [rows[f] EXCEPT !.state = s].prev = rows[f].prev
      /\ [rows[f] EXCEPT !.state = s].state = s
  BY <1>1 DEF RowRecords
<1> DEFINE r == [rows[f] EXCEPT !.state = s]
<1>3. CASE Live(rows[f].state)
  <2>1. End(f, s) = [rows EXCEPT ![f] = r]
    BY <1>3 DEF End
  <2> HIDE DEF r
  <2>2. \A g \in Fnis : [rows EXCEPT ![f] = r][g] = IF g = f THEN r ELSE rows[g]
    BY DEF RowsTyped
  <2>3. r \in RowRecords /\ r.prev = rows[f].prev /\ r.state = s
    BY <1>2 DEF r
  <2>4. [rows EXCEPT ![f] = r] \in [Fnis -> RowRecords]
    BY <2>3 DEF RowsTyped
  <2> QED BY <1>3, <2>1, <2>2, <2>3, <2>4
<1>4. CASE ~Live(rows[f].state)
  BY <1>4 DEF End, RowsTyped
<1> QED BY <1>3, <1>4

\* One Task takes a step.
LEMMA StepTyped ==
    ASSUME TasksTyped, NEW f \in Fnis, NEW s \in Steps, Step(f, s)
    PROVE  /\ TasksTyped'
           /\ \A g \in Fnis : /\ task'[g].step = IF g = f THEN s ELSE task[g].step
                              /\ task'[g].mail = task[g].mail /\ task'[g].acc = task[g].acc
<1>1. task[f] \in TaskRecords
  BY DEF TasksTyped
<1> DEFINE r == [task[f] EXCEPT !.step = s]
<1>2. r \in TaskRecords /\ r.step = s /\ r.mail = task[f].mail /\ r.acc = task[f].acc
  BY <1>1 DEF TaskRecords
<1>3. task' = [task EXCEPT ![f] = r]
  BY DEF Step
<1> HIDE DEF r
<1>4. \A g \in Fnis : task'[g] = IF g = f THEN r ELSE task[g]
  BY <1>3 DEF TasksTyped
<1> QED BY <1>2, <1>3, <1>4 DEF TasksTyped

\* One Task is replaced.
LEMMA TaskReplaced ==
    ASSUME TasksTyped, NEW f \in Fnis, NEW r \in TaskRecords, task' = [task EXCEPT ![f] = r]
    PROVE  TasksTyped' /\ \A g \in Fnis : task'[g] = IF g = f THEN r ELSE task[g]
BY DEF TasksTyped

\* A Task that has ended, and one that starts.
LEMMA TasksOfTyped ==
    /\ NoTask \in TaskRecords
    /\ \A tokens \in SUBSET (Tokens \cup {Unknown}) : NewTask(tokens) \in TaskRecords
<1>1. <<>> \in Seq(Tokens \cup {Fire})
  OBVIOUS
<1> QED BY <1>1 DEF NoTask, NewTask, TaskRecords, Steps

\* One entry of the PI's memory changes.
LEMMA MemReplaced ==
    ASSUME MemTyped, NEW f \in Fnis, NEW s \in States, mem' = [mem EXCEPT ![f] = s]
    PROVE  MemTyped' /\ \A g \in Fnis : mem'[g] = IF g = f THEN s ELSE mem[g]
BY DEF MemTyped

\* Rows are there to stay.
RowsStay == \A f \in Fnis : rows[f].state # "none" => rows'[f].state # "none"

\* Memory that was sound stays so, if what is new in it has a row.
LEMMA HaveRowsKept ==
    ASSUME HaveRows, RowsStay, \A f \in Fnis : mem'[f] = mem[f] \/ mem'[f] \notin {"active", "waiting", "finished"}
                                              \/ Live(mem[f])
    PROVE  HaveRows'
BY DEF HaveRows, RowsStay, Live

\* A row that ends stays.
LEMMA EndStays ==
    ASSUME RowsTyped, NEW f \in Fnis, NEW s \in States \ {"none"}, rows' = End(f, s)
    PROVE  RowsTyped' /\ RowsStay
<1>1. s \in States
  OBVIOUS
<1>2. RowsTyped'
  BY <1>1, EndTyped DEF RowsTyped
<1>3. RowsStay
  BY <1>1, EndTyped DEF RowsStay
<1> QED BY <1>2, <1>3

-----------------------------------------------------------------------------
(* Type correctness.                                                       *)

\* It holds at the start.
LEMMA TypedInit == Init => Typed
<1> SUFFICES ASSUME Init PROVE Typed
  OBVIOUS
<1>1. diagram \in Diagrams /\ StartFni(diagram) \in Fnis
  BY StartIsFni DEF Init
<1>2. RowsTyped /\ \A f \in Fnis : rows[f].state = IF f = StartFni(diagram) THEN "active" ELSE "none"
  BY DEF Init, RowsTyped, RowRecords, States, NoRow
<1>3. MemTyped /\ HaveRows
  <2>1. \A f \in Fnis : mem[f] = rows[f].state
    BY DEF Init
  <2>2. mem = [f \in Fnis |-> rows[f].state]
    BY DEF Init
  <2>3. \A f \in Fnis : rows[f].state \in States
    BY <1>2 DEF States
  <2> QED BY <2>1, <2>2, <2>3 DEF MemTyped, HaveRows
<1>4. TasksTyped
  <2>1. task = [f \in Fnis |-> IF f = StartFni(diagram) THEN NewTask({}) ELSE NoTask]
    BY DEF Init
  <2>2. NewTask({}) \in TaskRecords
    BY TasksOfTyped
  <2> QED BY <2>1, <2>2, TasksOfTyped DEF TasksTyped
<1>5. RouteTyped /\ GpaTyped /\ TodoTyped
  BY DEF Init, RouteTyped, RouteRecords, NoRoute, GpaTyped, TodoTyped
<1>6. HeldTyped
  BY DEF Init, HeldTyped
<1>7. StateTyped
  BY DEF Init, StateTyped, PiSteps
<1>8. CountsTyped
  <2>1. errors = 0 /\ crashes = 0
    BY DEF Init
  <2> QED BY <2>1, BoundsAssumption DEF CountsTyped
<1> QED BY <1>2, <1>3, <1>4, <1>5, <1>6, <1>7, <1>8 DEF Typed

\* What no handler touches.
LEMMA HandlerKeeps ==
    ASSUME Typed, UNCHANGED <<diagram, piRow, pc, todo, mem, routing, ebgVars, crashes>>, RowsStay
    PROVE  /\ MemTyped' /\ RouteTyped' /\ HeldTyped' /\ TodoTyped' /\ StateTyped' /\ HaveRows'
           /\ errors' \in 0 .. MaxErrors => CountsTyped'
<1>1. UNCHANGED <<winner, losers, held>>
  BY DEF ebgVars
<1>2. HaveRows'
  BY HaveRowsKept DEF Typed
<1> QED BY <1>1, <1>2 DEF Typed, MemTyped, RouteTyped, HeldTyped, TodoTyped, StateTyped, CountsTyped

\* The steps of a handler.
LEMMA TypedHandler ==
    ASSUME Typed, NEW f \in Fnis, HandlerStep(f) \/ Trigger(f) \/ Fail(f)
    PROVE  Typed'
<1>r. RowsTyped /\ GpaTyped /\ TasksTyped /\ task[f] \in TaskRecords /\ errors \in 0 .. MaxErrors
  BY DEF Typed, TasksTyped, CountsTyped
<1>a. task[f].acc \in SUBSET (Tokens \cup {Unknown})
  BY <1>r DEF TaskRecords
<1>1. CASE Enter(f) \/ Trigger(f) \/ Park(f)
  <2>1. PICK s \in {"finished", "waiting"}, st \in {"ok", "async"} : rows' = End(f, s) /\ Step(f, st)
    BY <1>1 DEF Enter, Trigger, Park
  <2>2. RowsTyped' /\ RowsStay
    BY <1>r, <2>1, EndStays DEF States
  <2>3. TasksTyped'
    BY <1>r, <2>1, StepTyped DEF Steps
  <2>4. GpaTyped'
    BY <1>1, <1>r DEF Enter, Trigger, Park, GpaTyped
  <2> QED BY <1>1, <1>r, <2>2, <2>3, <2>4, HandlerKeeps DEF Enter, Trigger, Park, Typed
<1>2. CASE EnterJoin(f) \/ DeleteArrivals(f)
  <2>1. PICK st \in {"async", "finish"} : Step(f, st)
    BY <1>2 DEF EnterJoin, DeleteArrivals
  <2>2. TasksTyped'
    BY <1>r, <2>1, StepTyped DEF Steps
  <2>3. GpaTyped'
    BY <1>2, <1>r, <1>a DEF EnterJoin, DeleteArrivals, GpaTyped
  <2>4. RowsTyped' /\ RowsStay
    BY <1>2, <1>r DEF EnterJoin, DeleteArrivals, RowsTyped, RowsStay
  <2> QED BY <1>2, <1>r, <2>2, <2>3, <2>4, HandlerKeeps DEF EnterJoin, DeleteArrivals, Typed
<1>3. CASE Receive(f)
  <2> DEFINE message == Head(task[f].mail)
  <2>1. task[f].mail # <<>> /\ task[f].mail \in Seq(Tokens \cup {Fire})
    BY <1>3, <1>r DEF Receive, TaskRecords
  <2>2. message \in Tokens \cup {Fire} /\ Tail(task[f].mail) \in Seq(Tokens \cup {Fire})
    BY <2>1
  <2>3. PICK s \in {"delete", "receive", "error"}, acc \in {task[f].acc, task[f].acc \cup {message}} :
          /\ task' = [task EXCEPT ![f] = [step |-> s, mail |-> Tail(task[f].mail), acc |-> acc]]
          /\ acc # task[f].acc => message # Fire
          /\ gpa' = gpa \/ (message # Fire /\ gpa' = gpa \cup {<<f, message>>})
    BY <1>3 DEF Receive
  <2> HIDE DEF message
  <2>4. acc \in SUBSET (Tokens \cup {Unknown})
    BY <1>a, <2>2, <2>3
  <2>5. [step |-> s, mail |-> Tail(task[f].mail), acc |-> acc] \in TaskRecords
    BY <2>2, <2>4 DEF TaskRecords, Steps
  <2>6. TasksTyped'
    BY <1>r, <2>3, <2>5, TaskReplaced
  <2>7. GpaTyped'
    BY <1>r, <2>2, <2>3 DEF GpaTyped
  <2>8. RowsTyped' /\ RowsStay
    BY <1>3, <1>r DEF Receive, RowsTyped, RowsStay
  <2> QED BY <1>3, <1>r, <2>6, <2>7, <2>8, HandlerKeeps DEF Receive, Typed
<1>4. CASE FinishJoin(f)
  <2> DEFINE sources == {token[2] : token \in task[f].acc} \ {NoFni}
  <2>1. sources \subseteq Fnis
    BY <1>a, NoTokens
  <2>2. RowsTyped' /\ RowsStay
    <3> HIDE DEF sources
    <3>1. CASE Live(rows[f].state) /\ sources # {}
      <4>1. rows' = [rows EXCEPT ![f] = [state |-> "finished", prev |-> sources]]
        BY <1>4, <3>1 DEF FinishJoin, sources
      <4>2. [state |-> "finished", prev |-> sources] \in RowRecords
        BY <2>1 DEF RowRecords, States
      <4> QED BY <1>r, <4>1, <4>2 DEF RowsTyped, RowsStay
    <3>2. CASE ~(Live(rows[f].state) /\ sources # {})
      <4>1. rows' = End(f, "finished")
        BY <1>4, <3>2 DEF FinishJoin, sources
      <4> QED BY <1>r, <4>1, EndStays DEF States
    <3> QED BY <3>1, <3>2
  <2>3. TasksTyped'
    BY <1>4, <1>r, StepTyped DEF FinishJoin, Steps
  <2>4. GpaTyped'
    BY <1>4, <1>r DEF FinishJoin, GpaTyped
  <2> QED BY <1>4, <1>r, <2>2, <2>3, <2>4, HandlerKeeps DEF FinishJoin, Typed
<1>5. CASE Fail(f)
  <2>1. TasksTyped'
    BY <1>5, <1>r, StepTyped DEF Fail, Steps
  <2>2. UNCHANGED <<rows, gpa, piRow>>
    BY <1>5 DEF Fail, dbVars
  <2>3. GpaTyped' /\ RowsTyped' /\ RowsStay
    BY <1>r, <2>2 DEF GpaTyped, RowsTyped, RowsStay
  <2>4. errors' \in 0 .. MaxErrors
    BY <1>5, <1>r, BoundsAssumption DEF Fail
  <2> QED BY <1>5, <2>1, <2>2, <2>3, <2>4, HandlerKeeps DEF Fail, Typed
<1> QED BY <1>1, <1>2, <1>3, <1>4, <1>5 DEF HandlerStep

\* Tokens that are dispatched, or held.
LEMMA DispatchOrHoldTyped ==
    ASSUME Typed, NEW tokens \in SUBSET Tokens, DispatchOrHold(tokens)
    PROVE  HeldTyped' /\ todo' \subseteq Tokens /\ pc' \in PiSteps
<1>1. CASE held' = <<tokens>> /\ todo' = {} /\ pc' = "evaluate"
  BY <1>1 DEF HeldTyped, PiSteps
<1>2. CASE todo' = tokens /\ held' = held /\ pc' = IF tokens = {} THEN "evaluate" ELSE "dispatch"
  BY <1>2 DEF Typed, HeldTyped, PiSteps
<1> QED BY <1>1, <1>2 DEF DispatchOrHold

\* What a step of the PI that ends one FNI keeps: its row ends or is left alone,
\* its entry changes, its Task is killed or left alone.
LEMMA TypedEnds ==
    ASSUME Typed, NEW f \in Fnis, NEW m \in States,
           rows' = rows \/ \E s \in States \ {"none"} : rows' = End(f, s),
           mem' = [mem EXCEPT ![f] = m], Live(mem[f]),
           task' = task \/ task' = [task EXCEPT ![f] = NoTask]
    PROVE  RowsTyped' /\ MemTyped' /\ TasksTyped' /\ HaveRows'
<1>1. RowsTyped' /\ RowsStay
  BY EndStays DEF Typed, RowsTyped, RowsStay
<1>2. MemTyped' /\ \A g \in Fnis : mem'[g] = IF g = f THEN m ELSE mem[g]
  BY MemReplaced DEF Typed
<1>3. HaveRows'
  BY <1>1, <1>2, HaveRowsKept DEF Typed
<1>4. TasksTyped'
  BY TaskReplaced, TasksOfTyped DEF Typed, TasksTyped
<1> QED BY <1>1, <1>2, <1>3, <1>4

\* What most steps of the PI leave alone.
LEMMA PiKeeps ==
    ASSUME Typed, UNCHANGED <<diagram, gpa, piRow, routing, errors, crashes>>, pc' \in PiSteps
    PROVE  GpaTyped' /\ RouteTyped' /\ StateTyped' /\ CountsTyped'
BY DEF Typed, GpaTyped, RouteTyped, StateTyped, CountsTyped

\* The PI handles a handler's message.
LEMMA TypedMessage ==
    ASSUME Typed, NEW f \in Fnis, HandleAsync(f) \/ HandleOk(f) \/ HandleLoser(f) \/ HandleError(f)
    PROVE  Typed'
<1>1. CASE HandleAsync(f)
  <2>1. RowsTyped' /\ RowsStay
    BY <1>1, EndStays DEF HandleAsync, Typed, States
  <2>2. MemTyped' /\ \A g \in Fnis : mem'[g] = IF g = f THEN "waiting" ELSE mem[g]
    BY <1>1, MemReplaced DEF HandleAsync, Typed, States
  <2>3. HaveRows'
    BY <1>1, <2>1, <2>2, HaveRowsKept DEF HandleAsync, Typed
  <2>4. TasksTyped'
    BY <1>1, StepTyped DEF HandleAsync, Typed, Steps
  <2>5. GpaTyped' /\ RouteTyped' /\ StateTyped' /\ CountsTyped'
    BY <1>1, PiKeeps DEF HandleAsync, PiSteps
  <2>6. HeldTyped' /\ TodoTyped'
    BY <1>1 DEF HandleAsync, ebgVars, Typed, HeldTyped, TodoTyped
  <2> QED BY <2>1, <2>2, <2>3, <2>4, <2>5, <2>6 DEF Typed
<1>2. CASE HandleOk(f)
  <2>1. UNCHANGED <<rows, gpa, piRow>>
    BY <1>2 DEF HandleOk, dbVars
  <2>2. RowsTyped' /\ MemTyped' /\ TasksTyped' /\ HaveRows'
    BY <1>2, <2>1, TypedEnds DEF HandleOk, States
  <2>3. PICK flows \in Taken(f[1]) :
         IF Kind(f[1]) = "terminate" \/ LiveRivals(f) # {}
         THEN /\ todo' = TokensOf(f, flows) /\ UNCHANGED held
              /\ pc' = IF Kind(f[1]) = "terminate" THEN "interrupt" ELSE "race"
         ELSE DispatchOrHold(TokensOf(f, flows))
    BY <1>2 DEF HandleOk
  <2>4. TokensOf(f, flows) \subseteq Tokens
    BY TakenOut, TokensOfTyped DEF Typed, StateTyped
  <2>5. HeldTyped' /\ todo' \subseteq Tokens /\ pc' \in PiSteps
    BY <2>3, <2>4, DispatchOrHoldTyped DEF Typed, HeldTyped, PiSteps
  <2>6. GpaTyped' /\ RouteTyped' /\ StateTyped' /\ CountsTyped'
    BY <1>2, <2>1, <2>5, PiKeeps DEF HandleOk
  <2>7. TodoTyped'
    BY <1>2, <2>5 DEF HandleOk, Typed, TodoTyped
  <2> QED BY <2>2, <2>5, <2>6, <2>7 DEF Typed
<1>3. CASE HandleLoser(f)
  <2>1. RowsTyped' /\ MemTyped' /\ TasksTyped' /\ HaveRows'
    BY <1>3, TypedEnds DEF HandleLoser, States
  <2>2. CASE pc' = "evaluate" /\ todo' = todo /\ held' = held
    <3>1. HeldTyped' /\ TodoTyped'
      BY <1>3, <2>2 DEF HandleLoser, Typed, HeldTyped, TodoTyped
    <3> QED BY <1>3, <2>1, <2>2, <3>1, PiKeeps DEF HandleLoser, Typed, PiSteps
  <2>3. CASE held # <<>> /\ todo' = held[1] /\ held' = <<>> /\ pc' = IF todo' = {} THEN "evaluate" ELSE "dispatch"
    <3>1. held[1] \subseteq Tokens
      BY <2>3 DEF Typed, HeldTyped
    <3>2. HeldTyped' /\ TodoTyped'
      BY <1>3, <2>3, <3>1 DEF HandleLoser, Typed, HeldTyped, TodoTyped
    <3> QED BY <1>3, <2>1, <2>3, <3>2, PiKeeps DEF HandleLoser, Typed, PiSteps
  <2> QED BY <1>3, <2>2, <2>3 DEF HandleLoser
<1>4. CASE HandleError(f)
  <2>1. RowsTyped' /\ MemTyped' /\ TasksTyped' /\ HaveRows'
    BY <1>4, TypedEnds DEF HandleError, States
  <2>2. HeldTyped' /\ TodoTyped'
    BY <1>4 DEF HandleError, ebgVars, Typed, HeldTyped, TodoTyped
  <2> QED BY <1>4, <2>1, <2>2, PiKeeps DEF HandleError, Typed, PiSteps
<1> QED BY <1>1, <1>2, <1>3, <1>4

\* A Task with one more message, if it runs.
LEMMA MailTyped ==
    ASSUME NEW t \in TaskRecords, NEW m \in Tokens \cup {Fire}
    PROVE  /\ [t EXCEPT !.mail = Append(t.mail, m)] \in TaskRecords
           /\ [t EXCEPT !.mail = Append(t.mail, m)].step = t.step
           /\ [t EXCEPT !.mail = Append(t.mail, m)].acc = t.acc
           /\ [t EXCEPT !.mail = Append(t.mail, m)].mail = Append(t.mail, m)
           /\ DOMAIN Append(t.mail, m) = 1 .. Len(t.mail) + 1 /\ DOMAIN t.mail = 1 .. Len(t.mail)
           /\ \A i \in DOMAIN Append(t.mail, m) : Append(t.mail, m)[i] = m \/ (i \in DOMAIN t.mail /\ Append(t.mail, m)[i] = t.mail[i])
<1>1. t.mail \in Seq(Tokens \cup {Fire})
  BY DEF TaskRecords
<1>2. Append(t.mail, m) \in Seq(Tokens \cup {Fire})
  BY <1>1
<1> DEFINE q == Append(t.mail, m)
<1>3. DOMAIN q = 1 .. Len(t.mail) + 1 /\ DOMAIN t.mail = 1 .. Len(t.mail)
      /\ \A i \in DOMAIN q : q[i] = m \/ (i \in DOMAIN t.mail /\ q[i] = t.mail[i])
  BY <1>1
<1> HIDE DEF q
<1>4. /\ [t EXCEPT !.mail = q] \in TaskRecords
      /\ [t EXCEPT !.mail = q].step = t.step
      /\ [t EXCEPT !.mail = q].acc = t.acc
      /\ [t EXCEPT !.mail = q].mail = q
  BY <1>2 DEF TaskRecords, q
<1> QED BY <1>3, <1>4 DEF q

\* A flow that a token takes ends at a node.
LEMMA TargetIsNode ==
    ASSUME NEW token \in Tokens
    PROVE  token[1][2] \in AllNodes
<1>1. token[1] \in AllFlows
  BY NoTokens
<1>2. PICK d \in Diagrams : token[1] \in d.flows
  BY <1>1 DEF AllFlows
<1>3. token[1][2] \in DOMAIN d.kind
  BY <1>2, DiagramsAssumption
<1> QED BY <1>3 DEF AllNodes

\* Cancelling the losers of a race.
LEMMA TypedRace ==
    ASSUME Typed, CancelRival \/ StampRivals
    PROVE  Typed'
<1>1. CASE CancelRival
  <2>1. PICK g \in Fnis : /\ mem[g] = "waiting" /\ rows' = End(g, "interrupted")
                          /\ mem' = [mem EXCEPT ![g] = "interrupted"]
                          /\ task' = [task EXCEPT ![g] = NoTask]
    BY <1>1 DEF CancelRival, LiveRivals, Rivals
  <2>2. RowsTyped' /\ MemTyped' /\ TasksTyped' /\ HaveRows'
    BY <2>1, TypedEnds DEF States, Live
  <2>3. HeldTyped' /\ TodoTyped'
    BY <1>1 DEF CancelRival, ebgVars, Typed, HeldTyped, TodoTyped
  <2> QED BY <1>1, <2>2, <2>3, PiKeeps DEF CancelRival, Typed, StateTyped
<1>2. CASE StampRivals
  <2>1. UNCHANGED <<rows, gpa, piRow, mem, task>>
    BY <1>2 DEF StampRivals, dbVars
  <2>2. HeldTyped' /\ todo' \subseteq Tokens /\ pc' \in PiSteps
    BY <1>2, DispatchOrHoldTyped DEF StampRivals, Typed, TodoTyped
  <2>3. losers' \subseteq Fnis
    BY <1>2 DEF StampRivals, Typed, TodoTyped, LiveRivals, Rivals
  <2>4. RowsTyped' /\ MemTyped' /\ TasksTyped' /\ HaveRows'
    BY <2>1 DEF Typed, RowsTyped, MemTyped, TasksTyped, HaveRows
  <2> QED BY <1>2, <2>1, <2>2, <2>3, <2>4, PiKeeps DEF StampRivals, Typed, TodoTyped
<1> QED BY <1>1, <1>2

\* Dispatching a token.
LEMMA TypedDispatch ==
    ASSUME Typed, NEW token \in todo, Dispatch(token)
    PROVE  Typed'
<1> DEFINE n == token[1][2]
<1>t. token \in Tokens /\ token[1] \in AllFlows /\ token[2] \in Fnis /\ n \in AllNodes
  BY TargetIsNode, NoTokens DEF Typed, TodoTyped
<1>r. RowsTyped /\ MemTyped /\ RouteTyped /\ TasksTyped /\ HaveRows
  BY DEF Typed
<1>k. /\ GpaTyped' /\ HeldTyped' /\ TodoTyped' /\ StateTyped'
      /\ (errors' \in 0 .. MaxErrors => CountsTyped')
  BY DEF Dispatch, Consume, dbVars, ebgVars, Typed, GpaTyped, HeldTyped, TodoTyped, StateTyped, PiSteps, CountsTyped
<1>e. errors \in 0 .. MaxErrors
  BY DEF Typed, CountsTyped
<1>1. CASE StartNew(token)
  <2>1. PICK f \in NewFnis(n) :
        /\ rows' = [rows EXCEPT ![f] = [state |-> "active", prev |-> {token[2]}]]
        /\ mem' = [mem EXCEPT ![f] = "active"]
        /\ task' = [task EXCEPT ![f] = NewTask(IF IsJoin(n) THEN {token} ELSE {})]
        /\ routing' = IF IsJoin(n)
                      THEN [routing EXCEPT ![n] = [fni |-> f, arrived |-> {token[1]}]] ELSE routing
        /\ UNCHANGED errors
    BY <1>1 DEF StartNew
  <2>2. f \in Fnis
    BY DEF NewFnis
  <2>3. [state |-> "active", prev |-> {token[2]}] \in RowRecords
    BY <1>t DEF RowRecords, States
  <2>4. RowsTyped' /\ RowsStay /\ rows'[f].state # "none"
    BY <1>r, <2>1, <2>2, <2>3 DEF RowsTyped, RowsStay
  <2>5. MemTyped' /\ \A g \in Fnis : mem'[g] = IF g = f THEN "active" ELSE mem[g]
    BY <1>r, <2>1, <2>2, MemReplaced DEF States
  <2>6. HaveRows'
    BY <1>r, <2>4, <2>5 DEF HaveRows, RowsStay
  <2>7. NewTask(IF IsJoin(n) THEN {token} ELSE {}) \in TaskRecords
    BY <1>t, TasksOfTyped
  <2>8. TasksTyped'
    BY <1>r, <2>1, <2>2, <2>7, TaskReplaced
  <2>9. RouteTyped'
    <3>1. [fni |-> f, arrived |-> {token[1]}] \in RouteRecords
      BY <1>t, <2>2 DEF RouteRecords
    <3> QED BY <1>r, <2>1, <3>1 DEF RouteTyped
  <2> QED BY <1>k, <1>e, <2>1, <2>4, <2>5, <2>6, <2>8, <2>9 DEF Typed
<1>2. CASE StartFails(token)
  <2>1. PICK f \in NewFnis(n) : /\ errors < MaxErrors /\ errors' = errors + 1
                                /\ mem' = [mem EXCEPT ![f] = "fatal"]
                                /\ UNCHANGED <<rows, task, routing>>
    BY <1>2 DEF StartFails
  <2>2. f \in Fnis
    BY DEF NewFnis
  <2>3. MemTyped' /\ \A g \in Fnis : mem'[g] = IF g = f THEN "fatal" ELSE mem[g]
    BY <1>r, <2>1, <2>2, MemReplaced DEF States
  <2>4. RowsTyped' /\ RouteTyped' /\ TasksTyped'
    BY <1>r, <2>1 DEF RowsTyped, RouteTyped, TasksTyped
  <2>5. HaveRows'
    BY <1>r, <2>1, <2>3 DEF HaveRows
  <2>6. errors' \in 0 .. MaxErrors
    BY <1>e, <2>1, BoundsAssumption
  <2> QED BY <1>k, <2>3, <2>4, <2>5, <2>6 DEF Typed
<1>3. CASE RouteToJoin(token)
  <2> DEFINE f == routing[n].fni
             arrived == routing[n].arrived \cup {token[1]}
  <2>1. routing[n] \in RouteRecords
    BY <1>r, <1>t DEF RouteTyped
  <2>2. f \in Fnis /\ arrived \subseteq AllFlows \cup {NoFlow}
    BY <1>3, <1>t, <2>1 DEF RouteToJoin, LiveRoute, RouteRecords
  <2>3. RouteTyped'
    <3>1. NoRoute \in RouteRecords
      BY DEF NoRoute, RouteRecords
    <3>2. [routing[n] EXCEPT !.arrived = arrived] \in RouteRecords
      BY <2>1, <2>2 DEF RouteRecords
    <3>3. routing' = [routing EXCEPT ![n] = NoRoute] \/ routing' = [routing EXCEPT ![n] = [routing[n] EXCEPT !.arrived = arrived]]
      BY <1>3 DEF RouteToJoin
    <3> QED BY <1>r, <3>1, <3>2, <3>3 DEF RouteTyped
  <2>4. TasksTyped'
    <3>1. task[f] \in TaskRecords
      BY <1>r, <2>2 DEF TasksTyped
    <3>2. task' = task \/ task' = [task EXCEPT ![f] = [task[f] EXCEPT !.mail = Append(task[f].mail, token)]]
      BY <1>3 DEF RouteToJoin
    <3>3. [task[f] EXCEPT !.mail = Append(task[f].mail, token)] \in TaskRecords
      BY <1>t, <3>1, MailTyped
    <3> QED BY <1>r, <2>2, <3>2, <3>3, TaskReplaced DEF TasksTyped
  <2>5. RowsTyped' /\ MemTyped' /\ HaveRows' /\ errors' = errors
    BY <1>3, <1>r DEF RouteToJoin, RowsTyped, MemTyped, HaveRows
  <2> QED BY <1>k, <1>e, <2>3, <2>4, <2>5 DEF Typed
<1>4. CASE DuplicateArrival(token)
  <2> DEFINE f == routing[n].fni
  <2>1. f \in Fnis /\ Live(mem[f])
    BY <1>4, <1>r, <1>t DEF DuplicateArrival, LiveRoute, RouteTyped, RouteRecords
  <2>2. rows' = End(f, "fatal") /\ mem' = [mem EXCEPT ![f] = "fatal"] /\ UNCHANGED <<routing, task, errors>>
    BY <1>4 DEF DuplicateArrival
  <2>3. RowsTyped' /\ MemTyped' /\ TasksTyped' /\ HaveRows'
    BY <2>1, <2>2, TypedEnds DEF States
  <2>4. RouteTyped'
    BY <1>r, <2>2 DEF RouteTyped
  <2> QED BY <1>k, <1>e, <2>2, <2>3, <2>4 DEF Typed
<1> QED BY <1>1, <1>2, <1>3, <1>4 DEF Dispatch

\* The PI process is gone.
LEMMA TypedStop ==
    ASSUME Typed, Stop, pc' \in PiSteps, piRow' \in {"running", "finished", "fatal"},
           UNCHANGED <<rows, diagram, gpa, errors>>, crashes' \in 0 .. MaxCrashes
    PROVE  Typed'
<1>1. MemTyped' /\ HaveRows'
  BY DEF Stop, MemTyped, HaveRows, States
<1>2. RouteTyped'
  <2>1. NoRoute \in RouteRecords
    BY DEF NoRoute, RouteRecords
  <2> QED BY <2>1 DEF Stop, RouteTyped
<1>3. TasksTyped'
  BY TasksOfTyped DEF Stop, TasksTyped
<1>4. HeldTyped' /\ TodoTyped'
  BY DEF Stop, HeldTyped, TodoTyped
<1> QED BY <1>1, <1>2, <1>3, <1>4 DEF Typed, RowsTyped, GpaTyped, StateTyped, CountsTyped

\* Ending the FNIs that are still live.
LEMMA TypedInterrupt ==
    ASSUME Typed, Interrupt \/ Cascade \/ TransitionToFatal
    PROVE  Typed'
<1>1. CASE UNCHANGED <<rows, mem, task>> /\ UNCHANGED <<gpa, todo, routing, winner, losers, held, diagram, errors, crashes>>
           /\ pc' \in PiSteps /\ piRow' \in {"running", "finished", "fatal"}
  BY <1>1 DEF Typed, RowsTyped, GpaTyped, MemTyped, RouteTyped, HeldTyped, TodoTyped, TasksTyped,
              StateTyped, CountsTyped, HaveRows
<1>2. ASSUME NEW f \in Fnis, Live(mem[f]), NEW s \in {"interrupted", "fatal"}, rows' = End(f, s),
             mem' = [mem EXCEPT ![f] = rows'[f].state] \/ mem' = [mem EXCEPT ![f] = "fatal"],
             task' = [task EXCEPT ![f] = NoTask],
             UNCHANGED <<diagram, gpa, piRow, pc, todo, routing, winner, losers, held, errors, crashes>>
      PROVE  Typed'
  <2>1. s \in States \ {"none"} /\ "fatal" \in States
    BY DEF States
  <2>2. rows'[f] \in RowRecords
    BY <1>2, <2>1, EndTyped DEF Typed
  <2>3. PICK m \in States : mem' = [mem EXCEPT ![f] = m]
    BY <1>2, <2>1, <2>2 DEF RowRecords
  <2>4. RowsTyped' /\ MemTyped' /\ TasksTyped' /\ HaveRows'
    BY <1>2, <2>1, <2>3, TypedEnds
  <2>5. HeldTyped' /\ TodoTyped'
    BY <1>2 DEF Typed, HeldTyped, TodoTyped
  <2> QED BY <1>2, <2>4, <2>5, PiKeeps DEF Typed, StateTyped
<1>3. CASE Interrupt
  BY <1>1, <1>2, <1>3 DEF Interrupt, ebgVars, PiSteps, Typed, StateTyped
<1>4. CASE Cascade /\ \E f \in Fnis : Live(mem[f])
  BY <1>2, <1>4 DEF Cascade, ebgVars
<1>5. CASE Cascade /\ ~\E f \in Fnis : Live(mem[f])
  <2>1. Stop /\ pc' = "ended" /\ UNCHANGED <<rows, diagram, gpa, piRow, errors, crashes>>
    BY <1>5 DEF Cascade
  <2> QED BY <2>1, TypedStop DEF Typed, StateTyped, CountsTyped, PiSteps
<1>6. CASE TransitionToFatal
  BY <1>1, <1>6 DEF TransitionToFatal, ebgVars, PiSteps
<1> QED BY <1>3, <1>4, <1>5, <1>6

\* The end of a message.
LEMMA TypedEvaluate ==
    ASSUME Typed, Evaluate
    PROVE  Typed'
<1> DEFINE firing == {n \in DOMAIN diagram.kind : held = <<>> /\ ShouldFire(n)}
           states == {mem[f] : f \in Fnis}
<1>1. CASE "fatal" \notin states /\ Completed(states)
  <2>1. piRow' = "finished" /\ pc' = "ended" /\ Stop /\ UNCHANGED <<rows, diagram, gpa, errors, crashes>>
    BY <1>1 DEF Evaluate
  <2> QED BY <2>1, TypedStop DEF Typed, CountsTyped, PiSteps
<1>2. CASE ~("fatal" \notin states /\ Completed(states))
  <2>1. /\ routing' = [n \in AllNodes |-> IF n \in firing THEN NoRoute ELSE routing[n]]
        /\ task' = [f \in Fnis |->
                        IF \E n \in firing : routing[n].fni = f /\ task[f].step # "none"
                        THEN [task[f] EXCEPT !.mail = Append(@, Fire)] ELSE task[f]]
        /\ pc' \in {"cascade", "idle"} /\ piRow' \in {"fatal", piRow}
        /\ UNCHANGED <<diagram, rows, gpa, mem, todo, winner, losers, held, errors, crashes>>
    BY <1>2 DEF Evaluate, ebgVars
  <2> HIDE DEF firing
  <2>2. RouteTyped'
    <3>1. NoRoute \in RouteRecords
      BY DEF NoRoute, RouteRecords
    <3> QED BY <2>1, <3>1 DEF Typed, RouteTyped
  <2>3. TasksTyped'
    <3>1. \A f \in Fnis : task[f] \in TaskRecords
      BY DEF Typed, TasksTyped
    <3>2. \A f \in Fnis : [task[f] EXCEPT !.mail = Append(task[f].mail, Fire)] \in TaskRecords
      BY <3>1, MailTyped
    <3> QED BY <2>1, <3>1, <3>2 DEF TasksTyped
  <2>4. StateTyped'
    BY <2>1 DEF Typed, StateTyped, PiSteps
  <2> QED BY <2>1, <2>2, <2>3, <2>4 DEF Typed, RowsTyped, GpaTyped, MemTyped, HeldTyped, TodoTyped, CountsTyped, HaveRows
<1> QED BY <1>1, <1>2

-----------------------------------------------------------------------------
(* A crash and what follows.                                               *)

\* What was recorded as arrived at a join.
LEMMA ArrivalsTyped ==
    ASSUME GpaTyped, NEW f \in Fnis
    PROVE  /\ Arrivals(f) \subseteq Tokens \cup {Unknown}
           /\ Arrived(Arrivals(f)) \subseteq AllFlows \cup {NoFlow}
<1>1. Arrivals(f) \subseteq Tokens \cup {Unknown}
  BY DEF GpaTyped, Arrivals
<1>2. \A t \in Tokens \cup {Unknown} : t[1] \in AllFlows \cup {NoFlow}
  BY NoTokens
<1> QED BY <1>1, <1>2 DEF Arrived

\* The routing that is rebuilt names a live gateway FNI of the node.
LEMMA RebuiltRouteTyped ==
    ASSUME Typed, NEW n \in AllNodes
    PROVE  /\ RebuiltRoute(n) \in RouteRecords
           /\ RebuiltRoute(n).fni # NoFni => RebuiltRoute(n).fni \in LiveRows(n)
<1> DEFINE live     == LiveRows(n)
           arriving == {f \in live : Arrivals(f) # {}}
           route(S) == [fni |-> Latest(S), arrived |-> Arrived(Arrivals(Latest(S)))]
<1>1. live \subseteq Fnis /\ arriving \subseteq live
  BY DEF LiveRows
<1>2. ASSUME NEW S \in SUBSET live, S # {}
      PROVE  route(S) \in RouteRecords /\ route(S).fni \in live
  <2>1. Latest(S) \in S
    BY <1>1, <1>2, LatestIn
  <2>2. Arrived(Arrivals(Latest(S))) \subseteq AllFlows \cup {NoFlow}
    BY <1>1, <2>1, ArrivalsTyped DEF Typed
  <2> QED BY <1>1, <2>1, <2>2 DEF RouteRecords
<1>3. RebuiltRoute(n) = NoRoute \/ \E S \in SUBSET live : S # {} /\ RebuiltRoute(n) = route(S)
  BY DEF RebuiltRoute
<1>4. NoRoute \in RouteRecords /\ NoRoute.fni = NoFni
  BY DEF NoRoute, RouteRecords
<1> HIDE DEF route, live
<1>5. RebuiltRoute(n) \in RouteRecords /\ (RebuiltRoute(n).fni # NoFni => RebuiltRoute(n).fni \in live)
  BY <1>2, <1>3, <1>4
<1> QED BY <1>5 DEF live

\* What an FNI is resumed with.
LEMMA ResumedTaskTyped ==
    ASSUME Typed, NEW f \in Fnis
    PROVE  ResumedTask(f) \in TaskRecords
<1>1. Arrivals(f) \in SUBSET (Tokens \cup {Unknown})
  BY ArrivalsTyped DEF Typed
<1>2. \A s \in Steps : [step |-> s, mail |-> <<>>, acc |-> Arrivals(f)] \in TaskRecords
  <2>1. <<>> \in Seq(Tokens \cup {Fire})
    OBVIOUS
  <2> QED BY <1>1, <2>1 DEF TaskRecords
<1>3. [NoTask EXCEPT !.step = "receive"] \in TaskRecords
  <2>1. <<>> \in Seq(Tokens \cup {Fire})
    OBVIOUS
  <2> QED BY <2>1 DEF NoTask, TaskRecords, Steps
<1>4. NewTask({Unknown}) \in TaskRecords /\ NewTask({}) \in TaskRecords /\ NoTask \in TaskRecords
  BY TasksOfTyped
<1> QED BY <1>2, <1>3, <1>4 DEF ResumedTask, Steps

\* The engine stops, and boots.
LEMMA TypedBoot ==
    ASSUME Typed, Crash \/ CleanUp \/ Resume
    PROVE  Typed'
<1>1. CASE Crash
  <2>1. crashes' \in 0 .. MaxCrashes
    BY <1>1, BoundsAssumption DEF Crash, Typed, CountsTyped
  <2> QED BY <1>1, <2>1, TypedStop DEF Crash, dbVars, PiSteps, Typed, StateTyped
<1>2. CASE CleanUp
  <2>1. \A f \in Fnis : rows[f] \in RowRecords
    BY DEF Typed, RowsTyped
  <2>2. \A f \in Fnis : /\ [rows[f] EXCEPT !.state = "aborted"] \in RowRecords
                        /\ [rows[f] EXCEPT !.state = "aborted"].state = "aborted"
    BY <2>1 DEF RowRecords, States
  <2>3. RowsTyped'
    BY <1>2, <2>1, <2>2 DEF CleanUp, RowsTyped
  <2>4. RowsStay
    BY <1>2, <2>1, <2>2 DEF CleanUp, RowsStay
  <2>5. HaveRows'
    BY <1>2, <2>4, HaveRowsKept DEF CleanUp, Typed
  <2>6. UNCHANGED <<diagram, gpa, piRow, todo, mem, routing, winner, losers, held, task, errors, crashes>> /\ pc' = "ended"
    BY <1>2 DEF CleanUp, ebgVars
  <2> QED BY <2>3, <2>5, <2>6 DEF Typed, GpaTyped, MemTyped, RouteTyped, HeldTyped, TodoTyped, TasksTyped,
                                  StateTyped, CountsTyped, PiSteps
<1>3. CASE Resume
  <2>1. \A f \in Fnis : rows[f] \in RowRecords
    BY DEF Typed, RowsTyped
  <2>2. MemTyped' /\ HaveRows' /\ RowsTyped' /\ GpaTyped'
    <3>1. mem' = [f \in Fnis |-> rows[f].state] /\ UNCHANGED <<rows, gpa>>
      BY <1>3 DEF Resume, dbVars
    <3>2. \A f \in Fnis : rows[f].state \in States
      BY <2>1 DEF RowRecords
    <3> QED BY <3>1, <3>2 DEF MemTyped, HaveRows, Typed, RowsTyped, GpaTyped
  <2>3. RouteTyped'
    <3>1. NoRoute \in RouteRecords
      BY DEF NoRoute, RouteRecords
    <3> QED BY <1>3, <3>1, RebuiltRouteTyped DEF Resume, RouteTyped
  <2>4. TasksTyped'
    BY <1>3, ResumedTaskTyped DEF Resume, TasksTyped
  <2>5. todo' \subseteq Tokens
    <3>1. PICK taken \in [Lost -> UNION {Selections(f[1]) : f \in Lost}] :
              /\ \A f \in Lost : taken[f] \in Selections(f[1])
              /\ todo' = UNION {TokensOf(f, taken[f]) : f \in Lost}
      BY <1>3 DEF Resume
    <3>2. Lost \subseteq Fnis
      BY DEF Lost
    <3>3. \A f \in Lost : TokensOf(f, taken[f]) \subseteq Tokens
      BY <3>1, <3>2, SelectionsOut, TokensOfTyped DEF Typed, StateTyped
    <3> QED BY <3>1, <3>3
  <2>6. UNCHANGED <<diagram, piRow, winner, losers, held, errors, crashes>> /\ pc' \in PiSteps
    BY <1>3 DEF Resume, dbVars, ebgVars, PiSteps
  <2> QED BY <2>2, <2>3, <2>4, <2>5, <2>6 DEF Typed, HeldTyped, TodoTyped, StateTyped, CountsTyped
<1> QED BY <1>1, <1>2, <1>3

\* No step breaks the type.
LEMMA TypedStep == Typed /\ [Next]_vars => Typed'
<1> SUFFICES ASSUME Typed, [Next]_vars PROVE Typed'
  OBVIOUS
<1>1. CASE UNCHANGED vars
  BY <1>1 DEF vars, dbVars, ebgVars, Typed, RowsTyped, GpaTyped, MemTyped, RouteTyped, HeldTyped, TodoTyped,
              TasksTyped, StateTyped, CountsTyped, HaveRows
<1>2. CASE InstanceStep
  BY <1>2, TypedMessage, TypedRace, TypedDispatch, TypedInterrupt, TypedEvaluate DEF InstanceStep
<1>3. CASE Crash \/ CleanUp \/ Resume
  BY <1>3, TypedBoot
<1>4. CASE \E f \in Fnis : HandlerStep(f) \/ Trigger(f) \/ Fail(f)
  BY <1>4, TypedHandler
<1> QED BY <1>1, <1>2, <1>3, <1>4 DEF Next

\* Type correctness, for every set of diagrams and all bounds: also, what the PI
\* has in memory as live or finished has a row, across crashes and resumption.
THEOREM TokenTypeCorrect == Spec => []TypeOK
<1>1. Typed => TypeOK
  BY TypedImpliesTypeOK
<1> QED BY <1>1, TypedInit, TypedStep, PTL DEF Spec

-----------------------------------------------------------------------------
(* What a step does to the rows, the Tasks and the tokens they carry.       *)

\* A token that an FNI has been given: collected, in its mailbox, or recorded.
Carried(g, t) ==
    t \in task[g].acc \/ (\E i \in DOMAIN task[g].mail : task[g].mail[i] = t) \/ <<g, t>> \in gpa

\* A predecessor that an FNI names, or will name if it finishes.
Claims(g, s) ==
    s \in rows[g].prev \/ (Live(rows[g].state) /\ \E t \in Tokens : t[2] = s /\ Carried(g, t))

\* A row that exists goes on existing, one that has ended is not revived.
RowMoves(g) ==
    /\ (rows'[g].state = "none" <=> rows[g].state = "none")
    /\ Live(rows'[g].state) => Live(rows[g].state)

\* No FNI is given a token it did not carry, or claims a predecessor it did not.
CarriedKept == \A g \in Fnis, t \in Tokens : Carried(g, t)' => Carried(g, t)
ClaimsKept  == \A g, s \in Fnis : Claims(g, s)' => Claims(g, s)

\* Tasks carry no more, and rows name no more.
LEMMA ClaimsStay ==
    ASSUME CarriedKept, \A g \in Fnis : RowMoves(g) /\ rows'[g].prev = rows[g].prev
    PROVE  ClaimsKept
BY DEF CarriedKept, ClaimsKept, Claims, RowMoves

\* What a handler does to its own row and Task; it leaves the others alone.
HandlerMoves(f) ==
    /\ task[f].step \notin {"none", "ok"}
    /\ UNCHANGED <<diagram, piRow, pc, todo, mem, routing, winner, losers, held, crashes>>
    /\ \A g \in Fnis \ {f} : rows'[g] = rows[g] /\ task'[g].step = task[g].step
    /\ RowMoves(f)
    /\ task'[f].step = "ok" => ~Live(rows'[f].state)
    /\ \A a \in gpa' : a \in gpa \/ a[1] = f
    /\ CarriedKept
    /\ ClaimsKept

\* A Task that takes a step carries what it did.
LEMMA StepCarries ==
    ASSUME Typed, NEW f \in Fnis, NEW s \in Steps, Step(f, s), gpa' \subseteq gpa
    PROVE  CarriedKept
<1>1. \A g \in Fnis : task'[g].mail = task[g].mail /\ task'[g].acc = task[g].acc
  BY StepTyped DEF Typed
<1> QED BY <1>1 DEF CarriedKept, Carried

\* A row that ends moves.
LEMMA EndMoves ==
    ASSUME Typed, NEW f \in Fnis, NEW s \in States \ {"none"}, rows' = End(f, s)
    PROVE  /\ \A g \in Fnis : RowMoves(g) /\ rows'[g].prev = rows[g].prev
           /\ \A g \in Fnis \ {f} : rows'[g] = rows[g]
           /\ ~Live(s) => ~Live(rows'[f].state)
<1>1. /\ \A g \in Fnis : /\ rows'[g].prev = rows[g].prev
                         /\ rows'[g].state = IF g = f /\ Live(rows[f].state) THEN s ELSE rows[g].state
      /\ rows' \in [Fnis -> RowRecords]
  BY EndTyped DEF Typed
<1>2. \A g \in Fnis \ {f} : rows'[g] = rows[g]
  BY DEF End, Typed, RowsTyped
<1> QED BY <1>1, <1>2 DEF RowMoves, Live

\* Every step of a handler moves that way.
LEMMA HandlerMovesOwn ==
    ASSUME Typed, NEW f \in Fnis, HandlerStep(f) \/ Trigger(f) \/ Fail(f)
    PROVE  HandlerMoves(f)
<1>t. TasksTyped /\ task[f] \in TaskRecords
  BY DEF Typed, TasksTyped
<1>u. task[f].step \notin {"none", "ok"} /\ UNCHANGED <<diagram, piRow, pc, todo, mem, routing, winner, losers, held, crashes>>
  BY DEF HandlerStep, Enter, EnterJoin, Park, Receive, DeleteArrivals, FinishJoin, Trigger, Fail, dbVars, ebgVars
<1>1. CASE Enter(f) \/ Trigger(f) \/ Park(f)
  <2>1. PICK s \in {"finished", "waiting"}, st \in {"ok", "async"} :
          rows' = End(f, s) /\ Step(f, st) /\ (st = "ok" => s = "finished") /\ gpa' = gpa
    BY <1>1 DEF Enter, Trigger, Park
  <2>2. st \in Steps /\ s \in States \ {"none"}
    BY DEF Steps, States
  <2>3. /\ \A g \in Fnis : RowMoves(g) /\ rows'[g].prev = rows[g].prev
        /\ \A g \in Fnis \ {f} : rows'[g] = rows[g]
        /\ ~Live(s) => ~Live(rows'[f].state)
    BY <2>1, <2>2, EndMoves
  <2>4. \A g \in Fnis : task'[g].step = IF g = f THEN st ELSE task[g].step
    BY <1>t, <2>1, <2>2, StepTyped
  <2>5. CarriedKept
    BY <2>1, <2>2, StepCarries
  <2>6. ClaimsKept
    BY <2>3, <2>5, ClaimsStay
  <2>7. task'[f].step = "ok" => ~Live(rows'[f].state)
    BY <2>1, <2>3, <2>4 DEF Live
  <2> QED BY <1>u, <2>1, <2>3, <2>4, <2>5, <2>6, <2>7 DEF HandlerMoves
<1>2. CASE EnterJoin(f)
  <2>1. Step(f, "async") /\ gpa' = gpa \cup {<<f, token>> : token \in task[f].acc} /\ rows' = rows
    BY <1>2 DEF EnterJoin
  <2>2. \A g \in Fnis : /\ task'[g].step = IF g = f THEN "async" ELSE task[g].step
                        /\ task'[g].mail = task[g].mail /\ task'[g].acc = task[g].acc
    BY <1>t, <2>1, StepTyped DEF Steps
  <2>3. \A g \in Fnis, t \in Tokens : <<g, t>> \in gpa' => <<g, t>> \in gpa \/ t \in task[g].acc
    BY <2>1
  <2>4. CarriedKept
    BY <2>2, <2>3 DEF CarriedKept, Carried
  <2>5. \A g \in Fnis : RowMoves(g) /\ rows'[g].prev = rows[g].prev
    BY <2>1 DEF RowMoves
  <2>6. ClaimsKept
    BY <2>4, <2>5, ClaimsStay
  <2> QED BY <1>u, <2>1, <2>2, <2>4, <2>5, <2>6 DEF HandlerMoves
<1>3. CASE DeleteArrivals(f) \/ Fail(f)
  <2>1. PICK st \in {"finish", "error"} : Step(f, st) /\ gpa' \subseteq gpa /\ rows' = rows
    BY <1>3 DEF DeleteArrivals, Fail, dbVars
  <2>2. \A g \in Fnis : task'[g].step = IF g = f THEN st ELSE task[g].step
    BY <1>t, <2>1, StepTyped DEF Steps
  <2>3. CarriedKept
    BY <2>1, StepCarries DEF Steps
  <2>4. \A g \in Fnis : RowMoves(g) /\ rows'[g].prev = rows[g].prev
    BY <2>1 DEF RowMoves
  <2>5. ClaimsKept
    BY <2>3, <2>4, ClaimsStay
  <2> QED BY <1>u, <2>1, <2>2, <2>3, <2>4, <2>5 DEF HandlerMoves
<1>4. CASE Receive(f)
  <2> DEFINE message == Head(task[f].mail)
             rest == Tail(task[f].mail)
  <2>1. task[f].mail # <<>> /\ task[f].mail \in Seq(Tokens \cup {Fire})
    BY <1>4, <1>t DEF Receive, TaskRecords
  <2>2. /\ rest \in Seq(Tokens \cup {Fire}) /\ message = task[f].mail[1] /\ 1 \in DOMAIN task[f].mail
        /\ \A i \in DOMAIN rest : i + 1 \in DOMAIN task[f].mail /\ rest[i] = task[f].mail[i + 1]
        /\ message \in Tokens \cup {Fire}
    BY <2>1
  <2>3. PICK s \in {"delete", "receive", "error"}, acc \in {task[f].acc, task[f].acc \cup {message}} :
          /\ task' = [task EXCEPT ![f] = [step |-> s, mail |-> rest, acc |-> acc]]
          /\ acc # task[f].acc => message # Fire
          /\ gpa' = gpa \/ gpa' = gpa \cup {<<f, message>>}
          /\ rows' = rows
    BY <1>4 DEF Receive
  <2> HIDE DEF message, rest
  <2>4. \A g \in Fnis : task'[g] = IF g = f THEN [step |-> s, mail |-> rest, acc |-> acc] ELSE task[g]
    BY <1>t, <2>3 DEF TasksTyped
  <2>5. CarriedKept
    <3> SUFFICES ASSUME NEW g \in Fnis, NEW t \in Tokens, Carried(g, t)' PROVE Carried(g, t)
      BY DEF CarriedKept
    <3>1. <<g, t>> \in gpa' => <<g, t>> \in gpa \/ (g = f /\ t = message)
      BY <2>3
    <3>2. g # f => task'[g] = task[g]
      BY <2>4
    <3>3. g = f => task'[g].acc = acc /\ task'[g].mail = rest
      BY <2>4
    <3>4. t \in acc => t \in task[f].acc \/ t = message
      BY <2>3
    <3>5. \A i \in DOMAIN rest : rest[i] = t => \E j \in DOMAIN task[f].mail : task[f].mail[j] = t
      BY <2>2
    <3> QED BY <2>2, <3>1, <3>2, <3>3, <3>4, <3>5 DEF Carried
  <2>6. \A g \in Fnis : RowMoves(g) /\ rows'[g].prev = rows[g].prev
    BY <2>3 DEF RowMoves
  <2>7. ClaimsKept
    BY <2>5, <2>6, ClaimsStay
  <2>8. task'[f].step = s
    BY <2>4
  <2>9. \A a \in gpa' : a \in gpa \/ a[1] = f
    BY <2>3
  <2> QED BY <1>u, <2>3, <2>4, <2>5, <2>6, <2>7, <2>8, <2>9 DEF HandlerMoves
<1>5. CASE FinishJoin(f)
  <2> DEFINE sources == {token[2] : token \in task[f].acc} \ {NoFni}
  <2>1. Step(f, "ok") /\ gpa' = gpa
    BY <1>5 DEF FinishJoin
  <2>2. \A g \in Fnis : task'[g].step = IF g = f THEN "ok" ELSE task[g].step
    BY <1>t, <2>1, StepTyped DEF Steps
  <2>3. CarriedKept
    BY <2>1, StepCarries DEF Steps
  <2>4. CASE Live(rows[f].state) /\ sources # {}
    <3>1. rows' = [rows EXCEPT ![f] = [state |-> "finished", prev |-> sources]]
      BY <1>5, <2>4 DEF FinishJoin
    <3>2. task[f].acc \subseteq Tokens \cup {Unknown}
      BY <1>t DEF TaskRecords
    <3>3. \A s \in sources : Claims(f, s)
      <4>1. \A s \in sources : \E t \in task[f].acc \cap Tokens : t[2] = s
        BY <3>2, NoTokens
      <4> QED BY <2>4, <4>1 DEF Claims, Carried
    <3> HIDE DEF sources
    <3>4. /\ \A g \in Fnis \ {f} : rows'[g] = rows[g]
          /\ rows'[f].state = "finished" /\ rows'[f].prev = sources
      BY <3>1 DEF Typed, RowsTyped
    <3>5. RowMoves(f) /\ ~Live(rows'[f].state)
      BY <2>4, <3>4 DEF RowMoves, Live
    <3>6. ClaimsKept
      BY <2>3, <3>3, <3>4, <3>5 DEF ClaimsKept, Claims, CarriedKept
    <3> QED BY <1>u, <2>1, <2>2, <2>3, <3>4, <3>5, <3>6 DEF HandlerMoves
  <2>5. CASE ~(Live(rows[f].state) /\ sources # {})
    <3>1. rows' = End(f, "finished")
      BY <1>5, <2>5 DEF FinishJoin
    <3>2. /\ \A g \in Fnis : RowMoves(g) /\ rows'[g].prev = rows[g].prev
          /\ \A g \in Fnis \ {f} : rows'[g] = rows[g]
          /\ ~Live(rows'[f].state)
      BY <3>1, EndMoves DEF States, Live
    <3>3. ClaimsKept
      BY <2>3, <3>2, ClaimsStay
    <3> QED BY <1>u, <2>1, <2>2, <2>3, <3>2, <3>3 DEF HandlerMoves
  <2> QED BY <2>4, <2>5
<1> QED BY <1>1, <1>2, <1>3, <1>4, <1>5 DEF HandlerStep

\* What the PI does to the one FNI whose message it handles, or that it ends.
FniMoves(f) ==
    /\ Live(mem[f]) /\ mem'[f] # "none"
    /\ \A g \in Fnis \ {f} : rows'[g] = rows[g] /\ mem'[g] = mem[g] /\ task'[g].step = task[g].step
    /\ RowMoves(f)
    /\ task'[f].step \in {"none", "receive", task[f].step}
    /\ task[f].step # "ok" \/ ~Live(rows[f].state) => (Live(rows'[f].state) => Live(mem'[f]))
    /\ UNCHANGED <<diagram, gpa, piRow, crashes>>
    /\ CarriedKept
    /\ ClaimsKept

\* A Task is killed or left alone, a row ends or is left alone.
LEMMA FniEnds ==
    ASSUME Typed, NEW f \in Fnis, NEW m \in States \ {"none"}, Live(mem[f]),
           mem' = [mem EXCEPT ![f] = m],
           rows' = rows \/ \E s \in States \ {"none"} : rows' = End(f, s),
           task' = task \/ task' = [task EXCEPT ![f] = NoTask] \/ Step(f, "receive"),
           UNCHANGED <<diagram, gpa, piRow, crashes>>,
           task[f].step # "ok" \/ ~Live(rows[f].state) => (Live(rows'[f].state) => Live(m))
    PROVE  FniMoves(f)
<1>1. \A g \in Fnis : mem'[g] = IF g = f THEN m ELSE mem[g]
  BY MemReplaced DEF Typed
<1>2. (\A g \in Fnis : RowMoves(g) /\ rows'[g].prev = rows[g].prev) /\ \A g \in Fnis \ {f} : rows'[g] = rows[g]
  <2>1. CASE rows' = rows
    BY <2>1 DEF RowMoves
  <2>2. CASE \E s \in States \ {"none"} : rows' = End(f, s)
    BY <2>2, EndMoves
  <2> QED BY <2>1, <2>2
<1>3. /\ CarriedKept /\ \A g \in Fnis \ {f} : task'[g].step = task[g].step
      /\ task'[f].step \in {"none", "receive", task[f].step}
  <2>1. CASE task' = task
    BY <2>1 DEF CarriedKept, Carried
  <2>2. CASE task' = [task EXCEPT ![f] = NoTask]
    <3>1. \A g \in Fnis : task'[g] = IF g = f THEN NoTask ELSE task[g]
      BY <2>2 DEF Typed, TasksTyped
    <3>2. NoTask.acc = {} /\ DOMAIN NoTask.mail = {} /\ NoTask.step = "none"
      BY DEF NoTask
    <3> QED BY <3>1, <3>2 DEF CarriedKept, Carried
  <2>3. CASE Step(f, "receive")
    <3>1. CarriedKept
      BY <2>3, StepCarries DEF Steps
    <3> QED BY <2>3, <3>1, StepTyped DEF Steps, Typed
  <2> QED BY <2>1, <2>2, <2>3
<1>4. ClaimsKept
  BY <1>2, <1>3, ClaimsStay
<1>5. mem'[f] = m /\ m # "none"
  BY <1>1
<1> QED BY <1>1, <1>2, <1>3, <1>4, <1>5 DEF FniMoves

\* The PI's steps of that kind: the FNI they are about, and what else they do.
LEMMA PiMovesOne ==
    /\ \A f \in Fnis : Typed /\ (HandleAsync(f) \/ HandleError(f) \/ HandleLoser(f) \/ HandleOk(f)) => FniMoves(f)
    /\ Typed /\ CancelRival => \E f \in Fnis : FniMoves(f)
    /\ Typed /\ (Interrupt \/ Cascade) /\ (\E g \in Fnis : Live(mem[g])) => \E f \in Fnis : FniMoves(f)
    /\ \A t \in todo : Typed /\ Dispatch(t) /\ DuplicateArrival(t) => \E f \in Fnis : FniMoves(f)
<1>s. {"waiting", "interrupted", "fatal", "finished"} \subseteq States \ {"none"}
  BY DEF States
<1>l. Live("waiting") /\ ~Live("interrupted") /\ ~Live("fatal") /\ ~Live("finished")
  BY DEF Live
<1>1. ASSUME Typed, NEW f \in Fnis, HandleAsync(f) PROVE FniMoves(f)
  <2>1. /\ Live(mem[f]) /\ rows' = End(f, "waiting") /\ mem' = [mem EXCEPT ![f] = "waiting"]
        /\ Step(f, "receive") /\ UNCHANGED <<diagram, gpa, piRow, crashes>>
    BY <1>1 DEF HandleAsync
  <2> QED BY <1>1, <1>s, <1>l, <2>1, FniEnds
<1>2. ASSUME Typed, NEW f \in Fnis, HandleError(f) PROVE FniMoves(f)
  <2>1. /\ Live(mem[f]) /\ rows' = End(f, "fatal") /\ mem' = [mem EXCEPT ![f] = "fatal"]
        /\ task' = [task EXCEPT ![f] = NoTask] /\ UNCHANGED <<diagram, gpa, piRow, crashes>>
    BY <1>2 DEF HandleError
  <2>2. ~Live(rows'[f].state)
    BY <1>2, <1>s, <1>l, <2>1, EndMoves
  <2> QED BY <1>2, <1>s, <2>1, <2>2, FniEnds
<1>3. ASSUME Typed, NEW f \in Fnis, HandleLoser(f) PROVE FniMoves(f)
  <2>1. /\ Live(mem[f]) /\ rows' = End(f, "interrupted") /\ mem' = [mem EXCEPT ![f] = "interrupted"]
        /\ task' = [task EXCEPT ![f] = NoTask] /\ UNCHANGED <<diagram, gpa, piRow, crashes>>
    BY <1>3 DEF HandleLoser
  <2>2. ~Live(rows'[f].state)
    BY <1>3, <1>s, <1>l, <2>1, EndMoves
  <2> QED BY <1>3, <1>s, <2>1, <2>2, FniEnds
<1>4. ASSUME Typed, NEW f \in Fnis, HandleOk(f) PROVE FniMoves(f)
  <2>1. /\ Live(mem[f]) /\ rows' = rows /\ mem' = [mem EXCEPT ![f] = "finished"] /\ task[f].step = "ok"
        /\ task' = [task EXCEPT ![f] = NoTask] /\ UNCHANGED <<diagram, gpa, piRow, crashes>>
    BY <1>4 DEF HandleOk, dbVars
  <2> QED BY <1>4, <1>s, <2>1, FniEnds
<1>5. ASSUME Typed, CancelRival PROVE \E f \in Fnis : FniMoves(f)
  <2>1. PICK f \in Fnis :
          /\ mem[f] = "waiting" /\ rows' = End(f, "interrupted") /\ mem' = [mem EXCEPT ![f] = "interrupted"]
          /\ task' = [task EXCEPT ![f] = NoTask]
    BY <1>5 DEF CancelRival, LiveRivals, Rivals
  <2>2. UNCHANGED <<diagram, gpa, piRow, crashes>>
    BY <1>5 DEF CancelRival
  <2>3. ~Live(rows'[f].state)
    BY <1>5, <1>s, <1>l, <2>1, EndMoves
  <2> QED BY <1>5, <1>s, <1>l, <2>1, <2>2, <2>3, FniEnds
<1>6. ASSUME Typed, Interrupt \/ Cascade, \E g \in Fnis : Live(mem[g]) PROVE \E f \in Fnis : FniMoves(f)
  <2>1. PICK f \in Fnis, s \in {"interrupted", "fatal"} :
          /\ Live(mem[f]) /\ rows' = End(f, s)
          /\ mem' = [mem EXCEPT ![f] = rows'[f].state] \/ mem' = [mem EXCEPT ![f] = "fatal"]
          /\ task' = [task EXCEPT ![f] = NoTask]
    BY <1>6 DEF Interrupt, Cascade
  <2>2. UNCHANGED <<diagram, gpa, piRow, crashes>>
    BY <1>6 DEF Interrupt, Cascade
  <2>3. ~Live(rows'[f].state)
    BY <1>6, <1>s, <1>l, <2>1, EndMoves
  <2>4. rows'[f].state \in States
    <3>1. RowsTyped /\ s \in States
      BY <1>s, <1>6 DEF Typed
    <3>2. rows'[f] \in RowRecords
      BY <2>1, <3>1, EndTyped
    <3> QED BY <3>2 DEF RowRecords
  <2>5. rows'[f].state # "none"
    <3>1. rows[f].state # "none"
      BY <1>6, <2>1 DEF Typed, HaveRows, Live
    <3> QED BY <1>6, <1>s, <2>1, <3>1, EndMoves DEF RowMoves
  <2>6. PICK m \in States \ {"none"} : mem' = [mem EXCEPT ![f] = m]
    BY <1>s, <2>1, <2>4, <2>5
  <2> QED BY <1>6, <1>s, <2>1, <2>2, <2>3, <2>6, FniEnds
<1>7. ASSUME Typed, NEW t \in todo, Dispatch(t), DuplicateArrival(t) PROVE \E f \in Fnis : FniMoves(f)
  <2> DEFINE f == routing[t[1][2]].fni
  <2>1. t[1][2] \in AllNodes
    BY <1>7, TargetIsNode DEF Typed, TodoTyped
  <2>2. f \in Fnis /\ Live(mem[f])
    BY <1>7, <2>1 DEF DuplicateArrival, LiveRoute, Typed, RouteTyped, RouteRecords
  <2>3. /\ rows' = End(f, "fatal") /\ mem' = [mem EXCEPT ![f] = "fatal"] /\ task' = task
        /\ UNCHANGED <<diagram, gpa, piRow, crashes>>
    BY <1>7 DEF DuplicateArrival, Dispatch
  <2> HIDE DEF f
  <2>4. ~Live(rows'[f].state)
    BY <1>7, <1>s, <1>l, <2>2, <2>3, EndMoves
  <2> QED BY <1>7, <1>s, <2>2, <2>3, <2>4, FniEnds
<1> QED BY <1>1, <1>2, <1>3, <1>4, <1>5, <1>6, <1>7

-----------------------------------------------------------------------------
(* An instance that has ended is quiet.                                    *)

IsUp == pc \notin {"down", "ended"}

\* While the PI runs, it knows of every row, and of every live one as live.
KnowsRows ==
    IsUp => \A f \in Fnis : /\ Live(rows[f].state) => Live(mem[f])
                            /\ rows[f].state # "none" => mem[f] # "none"
\* A Task that reports success has finished its row; a Task has a row.
TasksHaveRows ==
    \A f \in Fnis : /\ task[f].step = "ok" => ~Live(rows[f].state)
                    /\ task[f].step # "none" => rows[f].state # "none"
ArrivalsHaveRows == \A a \in gpa : rows[a[1]].state # "none"
\* No Task outlives the PI, and only a PI that failed ends its FNIs in a cascade.
NoOrphanTasks == ~IsUp => \A f \in Fnis : task[f].step = "none"
CascadeIsFatal == pc = "cascade" => piRow # "running"

Quiet == KnowsRows /\ TasksHaveRows /\ ArrivalsHaveRows /\ NoOrphanTasks /\ CascadeIsFatal /\ EndedIsQuiet

\* It holds at the start.
LEMMA QuietInit == Init => Quiet
<1> SUFFICES ASSUME Init PROVE Quiet
  OBVIOUS
<1>1. \A f \in Fnis : rows[f].state = IF f = StartFni(diagram) THEN "active" ELSE "none"
  BY DEF Init, NoRow
<1>2. \A f \in Fnis : task[f].step = IF f = StartFni(diagram) THEN "enter" ELSE "none"
  BY DEF Init, NewTask, NoTask
<1>3. \A f \in Fnis : mem[f] = rows[f].state
  BY DEF Init
<1>4. pc = "evaluate" /\ gpa = {}
  BY DEF Init
<1> QED BY <1>1, <1>2, <1>3, <1>4 DEF Quiet, KnowsRows, TasksHaveRows, ArrivalsHaveRows, NoOrphanTasks, CascadeIsFatal,
           EndedIsQuiet, IsUp, Live

\* A handler keeps it.
LEMMA QuietHandler ==
    ASSUME Typed, Quiet, NEW f \in Fnis, HandlerMoves(f)
    PROVE  Quiet'
<1>1. \A g \in Fnis : RowMoves(g)
  BY DEF HandlerMoves, RowMoves
<1>2. UNCHANGED <<pc, mem, piRow>>
  BY DEF HandlerMoves
<1>3. \A g \in Fnis : task'[g].step # "none" => task[g].step # "none"
  BY DEF HandlerMoves
<1>4. \A g \in Fnis : task'[g].step = "ok" => ~Live(rows'[g].state)
  BY DEF HandlerMoves, Quiet, TasksHaveRows
<1>5. rows[f].state # "none"
  BY DEF HandlerMoves, Quiet, TasksHaveRows
<1>6. ArrivalsHaveRows'
  <2> SUFFICES ASSUME NEW a \in gpa' PROVE rows'[a[1]].state # "none"
    BY DEF ArrivalsHaveRows
  <2>1. a \in gpa \/ a[1] = f
    BY DEF HandlerMoves
  <2>2. a \in gpa => a[1] \in Fnis /\ rows[a[1]].state # "none"
    BY DEF Quiet, ArrivalsHaveRows, Typed, GpaTyped
  <2> QED BY <1>1, <1>5, <2>1, <2>2 DEF RowMoves
<1>7. KnowsRows' /\ TasksHaveRows' /\ EndedIsQuiet'
  BY <1>1, <1>2, <1>3, <1>4 DEF Quiet, KnowsRows, TasksHaveRows, EndedIsQuiet, IsUp, RowMoves
<1>8. NoOrphanTasks' /\ CascadeIsFatal'
  BY <1>2, <1>3 DEF Quiet, NoOrphanTasks, CascadeIsFatal, IsUp
<1> QED BY <1>6, <1>7, <1>8 DEF Quiet

\* So does the PI when it handles, or ends, one FNI.
LEMMA QuietFni ==
    ASSUME Typed, Quiet, NEW f \in Fnis, FniMoves(f), IsUp, IsUp', pc' = "cascade" => pc = "cascade"
    PROVE  Quiet'
<1>1. \A g \in Fnis : RowMoves(g)
  BY DEF FniMoves, RowMoves
<1>2. gpa' = gpa /\ piRow' = piRow
  BY DEF FniMoves
<1>3. rows[f].state # "none"
  BY DEF FniMoves, Typed, HaveRows, Live
<1>4. KnowsRows'
  <2>1. \A g \in Fnis \ {f} : rows'[g] = rows[g] /\ mem'[g] = mem[g]
    BY DEF FniMoves
  <2>2. mem'[f] # "none"
    BY DEF FniMoves
  <2>3. Live(rows'[f].state) => Live(mem'[f])
    BY DEF FniMoves, Quiet, TasksHaveRows
  <2> QED BY <2>1, <2>2, <2>3 DEF Quiet, KnowsRows
<1>5. TasksHaveRows'
  <2>1. \A g \in Fnis : g # f => (task'[g].step = task[g].step /\ rows'[g] = rows[g])
    BY DEF FniMoves
  <2>2. task'[f].step \in {"none", "receive", task[f].step}
    BY DEF FniMoves
  <2>3. rows'[f].state # "none"
    BY <1>1, <1>3 DEF RowMoves
  <2>4. task'[f].step = "ok" => ~Live(rows'[f].state)
    BY <1>1, <2>2 DEF Quiet, TasksHaveRows, RowMoves
  <2> QED BY <2>1, <2>3, <2>4 DEF Quiet, TasksHaveRows
<1>6. ArrivalsHaveRows'
  BY <1>1, <1>2 DEF Quiet, ArrivalsHaveRows, RowMoves, Typed, GpaTyped
<1>7. NoOrphanTasks' /\ CascadeIsFatal' /\ EndedIsQuiet'
  BY <1>2 DEF Quiet, NoOrphanTasks, CascadeIsFatal, EndedIsQuiet, IsUp
<1> QED BY <1>4, <1>5, <1>6, <1>7 DEF Quiet

\* What a token that starts an FNI, or fails to, finds: an entry that is free.
LEMMA FreeEntry ==
    ASSUME Typed, NEW n, NEW f \in NewFnis(n)
    PROVE  f \in Fnis /\ f[1] = n /\ mem[f] = "none"
<1>1. f \in Fnis /\ f[1] = n /\ f[2] \notin Instances(n)
  <2>1. f \in Fnis /\ f[1] = n /\ \A k \in Instances(n) : k < f[2]
    BY DEF NewFnis
  <2>2. f[2] \in Nat
    BY <2>1, NoTokens
  <2> QED BY <2>1, <2>2
<1>2. f = <<n, f[2]>> /\ f[2] \in 1 .. MaxInstances
  BY <1>1, NoTokens
<1> QED BY <1>1, <1>2 DEF Instances

\* A token starts an FNI: what changes.
LEMMA StartMoves ==
    ASSUME Typed, NEW token \in Tokens, StartNew(token)
    PROVE  \E f \in Fnis :
              /\ f[1] = token[1][2] /\ mem[f] = "none"
              /\ rows'[f].state = "active" /\ rows'[f].prev = {token[2]} /\ mem'[f] = "active"
              /\ task'[f].step = "enter" /\ task'[f].mail = <<>> /\ task'[f].acc \subseteq {token}
              /\ task'[f].acc # {} => IsJoin(f[1])
              /\ \A g \in Fnis \ {f} : rows'[g] = rows[g] /\ mem'[g] = mem[g] /\ task'[g] = task[g]
              /\ routing' = routing \/ routing' = [routing EXCEPT ![f[1]] = [fni |-> f, arrived |-> {token[1]}]]
<1> DEFINE n == token[1][2]
           tokens == IF IsJoin(n) THEN {token} ELSE {}
           row == [state |-> "active", prev |-> {token[2]}]
<1>1. PICK f \in NewFnis(n) :
        /\ rows' = [rows EXCEPT ![f] = row]
        /\ mem' = [mem EXCEPT ![f] = "active"]
        /\ task' = [task EXCEPT ![f] = NewTask(tokens)]
        /\ routing' = routing \/ routing' = [routing EXCEPT ![n] = [fni |-> f, arrived |-> {token[1]}]]
  BY DEF StartNew
<1>2. f \in Fnis /\ f[1] = n /\ mem[f] = "none"
  BY FreeEntry
<1>3. /\ NewTask(tokens).step = "enter" /\ NewTask(tokens).mail = <<>> /\ NewTask(tokens).acc \subseteq {token}
      /\ NewTask(tokens).acc # {} => IsJoin(n)
  BY DEF NewTask
<1>4. row.state = "active" /\ row.prev = {token[2]}
  OBVIOUS
<1> HIDE DEF tokens, row, n
<1>5. \A g \in Fnis : /\ rows'[g] = IF g = f THEN row ELSE rows[g]
                      /\ mem'[g] = IF g = f THEN "active" ELSE mem[g]
                      /\ task'[g] = IF g = f THEN NewTask(tokens) ELSE task[g]
  BY <1>1, <1>2 DEF Typed, RowsTyped, MemTyped, TasksTyped
<1>6. rows'[f] = row /\ mem'[f] = "active" /\ task'[f] = NewTask(tokens)
  BY <1>2, <1>5
<1>7. \A g \in Fnis \ {f} : rows'[g] = rows[g] /\ mem'[g] = mem[g] /\ task'[g] = task[g]
  BY <1>5
<1>8. routing' = routing \/ routing' = [routing EXCEPT ![f[1]] = [fni |-> f, arrived |-> {token[1]}]]
  BY <1>1, <1>2
<1>9. f[1] = token[1][2]
  BY <1>2 DEF n
<1>10. rows'[f].state = "active" /\ rows'[f].prev = {token[2]}
  BY <1>4, <1>6
<1>11. /\ task'[f].step = "enter" /\ task'[f].mail = <<>> /\ task'[f].acc \subseteq {token}
       /\ task'[f].acc # {} => IsJoin(f[1])
  BY <1>2, <1>3, <1>6
<1> QED BY <1>2, <1>6, <1>7, <1>8, <1>9, <1>10, <1>11, Zenon

\* A further token goes to a join's Task: what changes.
LEMMA RouteMoves ==
    ASSUME Typed, NEW token \in Tokens, RouteToJoin(token)
    PROVE  \E f \in Fnis :
              /\ f = routing[token[1][2]].fni /\ Live(mem[f])
              /\ \A g \in Fnis : task'[g].step = task[g].step
              /\ \A g \in Fnis, t \in Tokens : (Carried(g, t)' /\ gpa' = gpa) => Carried(g, t) \/ (g = f /\ t = token)
              /\ UNCHANGED <<rows, mem>>
<1> DEFINE f == routing[token[1][2]].fni
<1>1. f \in Fnis /\ Live(mem[f])
  <2>1. token[1][2] \in AllNodes
    BY TargetIsNode
  <2> QED BY <2>1 DEF RouteToJoin, LiveRoute, Typed, RouteTyped, RouteRecords
<1>2. task' = task \/ task' = [task EXCEPT ![f] = [task[f] EXCEPT !.mail = Append(task[f].mail, token)]]
  BY DEF RouteToJoin
<1>3. task[f] \in TaskRecords /\ task \in [Fnis -> TaskRecords]
  BY <1>1 DEF Typed, TasksTyped
<1> DEFINE t2 == [task[f] EXCEPT !.mail = Append(task[f].mail, token)]
<1>4. /\ t2.step = task[f].step /\ t2.acc = task[f].acc
      /\ \A i \in DOMAIN t2.mail : t2.mail[i] = token \/ (i \in DOMAIN task[f].mail /\ t2.mail[i] = task[f].mail[i])
  <2> DEFINE t1 == task[f]
             q  == Append(t1.mail, token)
  <2>1. t1 \in TaskRecords /\ token \in Tokens \cup {Fire}
    BY <1>3
  <2> HIDE DEF t1
  <2>2. /\ [t1 EXCEPT !.mail = q].step = t1.step
        /\ [t1 EXCEPT !.mail = q].acc = t1.acc
        /\ [t1 EXCEPT !.mail = q].mail = q
        /\ \A i \in DOMAIN q : q[i] = token \/ (i \in DOMAIN t1.mail /\ q[i] = t1.mail[i])
    BY <2>1, MailTyped
  <2>3. t2 = [t1 EXCEPT !.mail = q]
    BY DEF t1
  <2> HIDE DEF q, t2
  <2>4. /\ t2.step = t1.step /\ t2.acc = t1.acc
        /\ \A i \in DOMAIN t2.mail : t2.mail[i] = token \/ (i \in DOMAIN t1.mail /\ t2.mail[i] = t1.mail[i])
    BY <2>2, <2>3
  <2> QED BY <2>4 DEF t1
<1> HIDE DEF t2
<1>5. \A g \in Fnis : task'[g] = task[g] \/ (g = f /\ task'[g] = t2)
  BY <1>2, <1>3 DEF t2
<1>6. \A g \in Fnis : task'[g].step = task[g].step
  BY <1>4, <1>5
<1>7. ASSUME NEW g \in Fnis, NEW t \in Tokens, Carried(g, t)', gpa' = gpa
      PROVE  Carried(g, t) \/ (g = f /\ t = token)
  BY <1>4, <1>5, <1>7 DEF Carried
<1>8. UNCHANGED <<rows, mem>>
  BY DEF RouteToJoin
<1> HIDE DEF f
<1>9. f = routing[token[1][2]].fni
  BY DEF f
<1> QED BY <1>1, <1>6, <1>7, <1>8, <1>9

\* Dispatching a token keeps the instance quiet.
LEMMA QuietDispatch ==
    ASSUME Typed, Quiet, NEW token \in todo, Dispatch(token)
    PROVE  Quiet'
<1>1. token \in Tokens
  BY DEF Typed, TodoTyped
<1>2. pc = "dispatch" /\ pc' \in {"evaluate", "dispatch"} /\ UNCHANGED <<gpa, piRow>> /\ IsUp /\ IsUp'
  BY DEF Dispatch, Consume, IsUp
<1>3. NoOrphanTasks' /\ CascadeIsFatal' /\ EndedIsQuiet'
  BY <1>2 DEF NoOrphanTasks, CascadeIsFatal, EndedIsQuiet, IsUp
<1>4. CASE StartNew(token)
  <2>1. PICK f \in Fnis :
              /\ f[1] = token[1][2] /\ mem[f] = "none"
              /\ rows'[f].state = "active" /\ rows'[f].prev = {token[2]} /\ mem'[f] = "active"
              /\ task'[f].step = "enter" /\ task'[f].mail = <<>> /\ task'[f].acc \subseteq {token}
              /\ \A g \in Fnis \ {f} : rows'[g] = rows[g] /\ mem'[g] = mem[g] /\ task'[g] = task[g]
              /\ routing' = routing \/ routing' = [routing EXCEPT ![f[1]] = [fni |-> f, arrived |-> {token[1]}]]
    BY <1>1, <1>4, StartMoves
  <2>2. KnowsRows' /\ TasksHaveRows'
    BY <1>2, <2>1 DEF Quiet, KnowsRows, TasksHaveRows, Live
  <2>3. ArrivalsHaveRows'
    BY <1>2, <2>1 DEF Quiet, ArrivalsHaveRows, Typed, GpaTyped
  <2> QED BY <1>3, <2>2, <2>3 DEF Quiet
<1>5. CASE StartFails(token)
  <2>1. PICK f \in NewFnis(token[1][2]) : mem' = [mem EXCEPT ![f] = "fatal"] /\ UNCHANGED <<rows, task, routing>>
    BY <1>5 DEF StartFails
  <2>2. f \in Fnis /\ mem[f] = "none"
    BY FreeEntry
  <2>3. rows[f].state = "none"
    BY <1>2, <2>2 DEF Quiet, KnowsRows
  <2>4. \A g \in Fnis : mem'[g] = IF g = f THEN "fatal" ELSE mem[g]
    BY <2>1 DEF Typed, MemTyped
  <2>5. KnowsRows' /\ TasksHaveRows' /\ ArrivalsHaveRows'
    BY <1>2, <2>1, <2>3, <2>4 DEF Quiet, KnowsRows, TasksHaveRows, ArrivalsHaveRows, Live
  <2> QED BY <1>3, <2>5 DEF Quiet
<1>6. CASE RouteToJoin(token)
  <2>1. UNCHANGED <<rows, mem>> /\ \A g \in Fnis : task'[g].step = task[g].step
    BY <1>1, <1>6, RouteMoves
  <2>2. KnowsRows' /\ TasksHaveRows' /\ ArrivalsHaveRows'
    BY <1>2, <2>1 DEF Quiet, KnowsRows, TasksHaveRows, ArrivalsHaveRows
  <2> QED BY <1>3, <2>2 DEF Quiet
<1>7. CASE DuplicateArrival(token)
  BY <1>2, <1>7, PiMovesOne, QuietFni
<1> QED BY <1>4, <1>5, <1>6, <1>7 DEF Dispatch

\* The PI process stops: no Task is left.
LEMMA StopMoves ==
    ASSUME Stop
    PROVE  /\ \A f \in Fnis : task'[f] = NoTask /\ task'[f].step = "none" /\ mem'[f] = "none"
           /\ gpa' = gpa => CarriedKept
<1>1. NoTask.acc = {} /\ DOMAIN NoTask.mail = {} /\ NoTask.step = "none"
  BY DEF NoTask
<1>2. \A f \in Fnis : task'[f] = NoTask /\ mem'[f] = "none"
  BY DEF Stop
<1> QED BY <1>1, <1>2 DEF CarriedKept, Carried

\* It ends, or crashes, with the rows as they are.
LEMMA QuietStop ==
    ASSUME Typed, Quiet, Stop, UNCHANGED <<rows, gpa>>, ~IsUp', pc' # "ended" \/ EndedIsQuiet'
    PROVE  Quiet'
<1>1. \A f \in Fnis : task'[f].step = "none"
  BY StopMoves
<1> QED BY <1>1 DEF Quiet, KnowsRows, TasksHaveRows, ArrivalsHaveRows, NoOrphanTasks, CascadeIsFatal, EndedIsQuiet, IsUp

\* The end of a message: the PI goes on, fails, or ends when nothing it knows is live.
LEMMA QuietEvaluate ==
    ASSUME Typed, Quiet, Evaluate
    PROVE  Quiet'
<1> DEFINE firing == {n \in DOMAIN diagram.kind : held = <<>> /\ ShouldFire(n)}
           states == {mem[f] : f \in Fnis}
<1>u. IsUp
  BY DEF Evaluate, IsUp
<1>1. CASE "fatal" \notin states /\ Completed(states)
  <2>1. piRow' = "finished" /\ pc' = "ended" /\ Stop /\ UNCHANGED <<rows, gpa>>
    BY <1>1 DEF Evaluate
  <2>2. \A f \in Fnis : ~Live(rows[f].state)
    BY <1>1, <1>u DEF Completed, Quiet, KnowsRows
  <2>3. EndedIsQuiet'
    BY <2>1, <2>2 DEF EndedIsQuiet
  <2> QED BY <2>1, <2>3, QuietStop DEF IsUp
<1>2. CASE ~("fatal" \notin states /\ Completed(states))
  <2>1. /\ task' = [f \in Fnis |->
                        IF \E n \in firing : routing[n].fni = f /\ task[f].step # "none"
                        THEN [task[f] EXCEPT !.mail = Append(@, Fire)] ELSE task[f]]
        /\ \/ pc' = "cascade" /\ piRow' = "fatal"
           \/ pc' = "idle" /\ piRow' = piRow
        /\ UNCHANGED <<rows, gpa, mem>>
    BY <1>2 DEF Evaluate
  <2> HIDE DEF firing
  <2>2. \A f \in Fnis : task'[f].step = task[f].step
    <3>1. \A f \in Fnis : [task[f] EXCEPT !.mail = Append(task[f].mail, Fire)].step = task[f].step
      BY MailTyped DEF Typed, TasksTyped
    <3> QED BY <2>1, <3>1
  <2> QED BY <1>u, <2>1, <2>2 DEF Quiet, KnowsRows, TasksHaveRows, ArrivalsHaveRows, NoOrphanTasks, CascadeIsFatal, EndedIsQuiet, IsUp
<1> QED BY <1>1, <1>2

\* What is resumed: the Task of an FNI whose row is live, with what was recorded.
LEMMA ResumedTaskIs ==
    ASSUME Typed, NEW f \in Fnis
    PROVE  /\ ResumedTask(f).step # "ok" /\ ResumedTask(f).mail = <<>>
           /\ ResumedTask(f).step # "none" => Live(rows[f].state)
           /\ ResumedTask(f).acc \subseteq Arrivals(f) \cup {Unknown}
<1>1. /\ NoTask.step = "none" /\ NoTask.mail = <<>> /\ NoTask.acc = {}
      /\ [NoTask EXCEPT !.step = "receive"].step = "receive" /\ [NoTask EXCEPT !.step = "receive"].mail = <<>>
      /\ [NoTask EXCEPT !.step = "receive"].acc = {}
      /\ \A tokens : NewTask(tokens).step = "enter" /\ NewTask(tokens).mail = <<>> /\ NewTask(tokens).acc = tokens
  BY DEF NoTask, NewTask
<1>2. CASE ~Live(rows[f].state)
  BY <1>1, <1>2 DEF ResumedTask
<1>3. CASE Live(rows[f].state)
  <2>1. \/ ResumedTask(f) = NoTask \/ ResumedTask(f) = [NoTask EXCEPT !.step = "receive"]
        \/ \E tokens \in {{}, {Unknown}} : ResumedTask(f) = NewTask(tokens)
        \/ \E s \in {"delete", "async"} : ResumedTask(f) = [step |-> s, mail |-> <<>>, acc |-> Arrivals(f)]
    BY <1>3 DEF ResumedTask
  <2>2. CASE \E s \in {"delete", "async"} : ResumedTask(f) = [step |-> s, mail |-> <<>>, acc |-> Arrivals(f)]
    BY <1>3, <2>2
  <2>3. CASE ~\E s \in {"delete", "async"} : ResumedTask(f) = [step |-> s, mail |-> <<>>, acc |-> Arrivals(f)]
    BY <1>1, <1>3, <2>1, <2>3
  <2> QED BY <2>2, <2>3
<1> QED BY <1>2, <1>3

\* The engine stops and boots: whatever was live is known again, or was cleaned up.
LEMMA QuietBoot ==
    ASSUME Typed, Quiet, Crash \/ CleanUp \/ Resume
    PROVE  Quiet'
<1>1. CASE Crash
  BY <1>1, QuietStop DEF Crash, dbVars, IsUp
<1>2. CASE CleanUp
  <2>1. \A f \in Fnis : rows[f] \in RowRecords
    BY DEF Typed, RowsTyped
  <2>2. \A f \in Fnis : [rows[f] EXCEPT !.state = "aborted"].state = "aborted"
    BY <2>1 DEF RowRecords
  <2>3. \A f \in Fnis : RowMoves(f) /\ ~Live(rows'[f].state)
    BY <1>2, <2>2 DEF CleanUp, RowMoves, Live
  <2>4. pc' = "ended" /\ pc = "down" /\ piRow # "running" /\ UNCHANGED <<gpa, piRow, task>>
    BY <1>2 DEF CleanUp
  <2>5. ArrivalsHaveRows'
    BY <2>3, <2>4 DEF Quiet, ArrivalsHaveRows, RowMoves, Typed, GpaTyped
  <2> QED BY <2>3, <2>4, <2>5 DEF Quiet, KnowsRows, TasksHaveRows, NoOrphanTasks, CascadeIsFatal, EndedIsQuiet, IsUp
<1>3. CASE Resume
  <2>1. mem' = [f \in Fnis |-> rows[f].state] /\ task' = [f \in Fnis |-> ResumedTask(f)]
        /\ pc' \in {"evaluate", "dispatch"} /\ UNCHANGED <<rows, gpa, piRow>>
    BY <1>3 DEF Resume, dbVars
  <2>2. KnowsRows' /\ NoOrphanTasks' /\ CascadeIsFatal' /\ EndedIsQuiet' /\ ArrivalsHaveRows'
    BY <2>1 DEF Quiet, KnowsRows, NoOrphanTasks, CascadeIsFatal, EndedIsQuiet, ArrivalsHaveRows, IsUp
  <2>3. TasksHaveRows'
    BY <2>1, ResumedTaskIs DEF TasksHaveRows, Live
  <2> QED BY <2>2, <2>3 DEF Quiet
<1> QED BY <1>1, <1>2, <1>3

\* No step breaks it.
LEMMA QuietStep == Typed /\ Quiet /\ [Next]_vars => Quiet'
<1> SUFFICES ASSUME Typed, Quiet, [Next]_vars PROVE Quiet'
  OBVIOUS
<1>1. CASE UNCHANGED vars
  BY <1>1 DEF vars, dbVars, Quiet, KnowsRows, TasksHaveRows, ArrivalsHaveRows, NoOrphanTasks, CascadeIsFatal,
              EndedIsQuiet, IsUp
<1>2. CASE \E f \in Fnis : HandlerStep(f) \/ Trigger(f) \/ Fail(f)
  BY <1>2, HandlerMovesOwn, QuietHandler
<1>3. CASE \E f \in Fnis : HandleAsync(f) \/ HandleOk(f) \/ HandleLoser(f) \/ HandleError(f)
  <2>1. PICK f \in Fnis : HandleAsync(f) \/ HandleOk(f) \/ HandleLoser(f) \/ HandleError(f)
    BY <1>3
  <2>2. FniMoves(f)
    BY <2>1, PiMovesOne
  <2>3. pc = "idle" /\ pc' \in {"evaluate", "interrupt", "race", "dispatch", "fail"}
    BY <2>1 DEF HandleAsync, HandleOk, HandleLoser, HandleError, DispatchOrHold
  <2> QED BY <2>2, <2>3, QuietFni DEF IsUp
<1>4. CASE CancelRival
  <2>1. pc = "race" /\ pc' = "race"
    BY <1>4 DEF CancelRival
  <2> QED BY <1>4, <2>1, PiMovesOne, QuietFni DEF IsUp
<1>5. CASE StampRivals \/ TransitionToFatal
  <2>1. /\ UNCHANGED <<rows, mem, task, gpa>> /\ IsUp /\ IsUp'
        /\ piRow' \in {piRow, "fatal"}
        /\ pc' = "cascade" => piRow' = "fatal"
    BY <1>5 DEF StampRivals, TransitionToFatal, DispatchOrHold, dbVars, IsUp
  <2> QED BY <2>1 DEF Quiet, KnowsRows, TasksHaveRows, ArrivalsHaveRows, NoOrphanTasks, CascadeIsFatal, EndedIsQuiet, IsUp
<1>6. CASE \E token \in todo : Dispatch(token)
  BY <1>6, QuietDispatch
<1>7. CASE (Interrupt \/ Cascade) /\ \E g \in Fnis : Live(mem[g])
  <2>1. pc' = pc /\ pc \in {"interrupt", "cascade"}
    BY <1>7 DEF Interrupt, Cascade
  <2> QED BY <1>7, <2>1, PiMovesOne, QuietFni DEF IsUp
<1>8. CASE Interrupt /\ ~\E g \in Fnis : Live(mem[g])
  <2>1. pc = "interrupt" /\ pc' = "evaluate" /\ UNCHANGED <<rows, mem, task, gpa, piRow>>
    BY <1>8 DEF Interrupt
  <2> QED BY <2>1 DEF Quiet, KnowsRows, TasksHaveRows, ArrivalsHaveRows, NoOrphanTasks, CascadeIsFatal, EndedIsQuiet, IsUp
<1>9. CASE Cascade /\ ~\E g \in Fnis : Live(mem[g])
  <2>1. pc = "cascade" /\ pc' = "ended" /\ Stop /\ UNCHANGED <<rows, gpa, piRow>>
    BY <1>9 DEF Cascade
  <2>2. EndedIsQuiet'
    BY <1>9, <2>1 DEF EndedIsQuiet, Quiet, KnowsRows, CascadeIsFatal, IsUp
  <2> QED BY <2>1, <2>2, QuietStop DEF IsUp
<1>10. CASE Evaluate
  BY <1>10, QuietEvaluate
<1>11. CASE Crash \/ CleanUp \/ Resume
  BY <1>11, QuietBoot
<1> QED BY <1>1, <1>2, <1>3, <1>4, <1>5, <1>6, <1>7, <1>8, <1>9, <1>10, <1>11 DEF Next, InstanceStep

\* A PI that has ended left no live row behind, wherever the engine stopped on
\* the way. (finish_quiesced_pi, fatal_all_fnis, cleanup_orphaned_flow_node_instances)
THEOREM EndedInstanceIsQuiet == Spec => []EndedIsQuiet
<1>1. Typed /\ Quiet => EndedIsQuiet
  BY DEF Quiet
<1> QED BY <1>1, TypedInit, TypedStep, QuietInit, QuietStep, PTL DEF Spec

-----------------------------------------------------------------------------
(* A token is consumed once.                                               *)

HeldTokens == IF held = <<>> THEN {} ELSE held[1]
Pending    == todo \cup HeldTokens

\* An FNI that ended, so that no result of it will be handled any more.
Gone(s) == rows[s].state # "none" /\ ~Live(rows[s].state) /\ ~Live(mem[s])

\* No two FNIs of a flow node claim the same predecessor.
OneClaim == \A f, g, s \in Fnis : f # g /\ f[1] = g[1] => ~(Claims(f, s) /\ Claims(g, s))
\* No FNI claims the source of a token that is still to be dispatched to its node.
Unclaimed == \A t \in Pending, g \in Fnis : g[1] = t[1][2] => ~Claims(g, t[2])
\* No token is dispatched now and held for later.
Apart == todo \cap HeldTokens = {}
\* Whoever's token is under way, or has arrived, has ended.
GoneSources == /\ \A t \in Pending : Gone(t[2])
               /\ \A g, s \in Fnis : Claims(g, s) => Gone(s)
OwnTokens == \A t \in Pending : t[1][1] = t[2][1]
RoutesOwn == \A n \in AllNodes : routing[n].fni # NoFni => routing[n].fni[1] = n
NothingHeldDown == pc = "down" => held = <<>>

Once == OneClaim /\ Unclaimed /\ Apart /\ GoneSources /\ OwnTokens /\ RoutesOwn /\ NothingHeldDown

\* What is pending are tokens.
LEMMA PendingTokens ==
    ASSUME Typed
    PROVE  HeldTokens \subseteq Tokens /\ Pending \subseteq Tokens
BY DEF HeldTokens, Pending, Typed, HeldTyped, TodoTyped

\* A token is known by its source and the node it goes to.
LEMMA TokenOf ==
    ASSUME NEW t \in Tokens, NEW u \in Tokens, t[1][1] = t[2][1], u[1][1] = u[2][1],
           t[1][2] = u[1][2], t[2] = u[2]
    PROVE  t = u
<1>1. \A flow \in AllFlows : flow = <<flow[1], flow[2]>>
  <2> TAKE flow \in AllFlows
  <2>1. PICK d \in Diagrams : flow \in d.flows
    BY DEF AllFlows
  <2> QED BY <2>1, DiagramsAssumption
<1>2. t[1] = u[1]
  BY <1>1, NoTokens
<1> QED BY <1>2, NoTokens

\* The FNIs that have ended stay so, if rows and entries move as they do.
GoneStays == \A s \in Fnis : Gone(s) => Gone(s)'

\* What keeps it: no new claim, no new token, nobody revived.
LEMMA OnceKept ==
    ASSUME Typed, Once, ClaimsKept, GoneStays, Pending' \subseteq Pending, Apart', RoutesOwn', NothingHeldDown'
    PROVE  Once'
<1>1. OneClaim'
  BY DEF Once, OneClaim, ClaimsKept
<1>2. Unclaimed'
  <2> SUFFICES ASSUME NEW t \in Pending', NEW g \in Fnis, g[1] = t[1][2], Claims(g, t[2])' PROVE FALSE
    BY DEF Unclaimed
  <2>1. t \in Pending /\ t[2] \in Fnis
    BY PendingTokens, NoTokens
  <2>2. Claims(g, t[2])
    BY <2>1 DEF ClaimsKept
  <2> QED BY <2>1, <2>2 DEF Once, Unclaimed
<1>3. GoneSources'
  <2>1. \A t \in Pending' : Gone(t[2])'
    <3> TAKE t \in Pending'
    <3>1. t[2] \in Fnis /\ Gone(t[2])
      BY PendingTokens, NoTokens DEF Once, GoneSources
    <3> QED BY <3>1 DEF GoneStays
  <2>2. \A g, s \in Fnis : Claims(g, s)' => Gone(s)'
    BY DEF ClaimsKept, GoneStays, Once, GoneSources
  <2> QED BY <2>1, <2>2 DEF GoneSources
<1>4. OwnTokens'
  BY DEF Once, OwnTokens
<1> QED BY <1>1, <1>2, <1>3, <1>4 DEF Once

\* Nobody is revived by a handler ...
LEMMA GoneByRows ==
    ASSUME \A s \in Fnis : RowMoves(s) /\ (Live(mem'[s]) => Live(mem[s]))
    PROVE  GoneStays
BY DEF GoneStays, Gone, RowMoves

\* ... nor by the PI.
LEMMA GoneByFni ==
    ASSUME NEW f \in Fnis, FniMoves(f)
    PROVE  GoneStays
BY DEF GoneStays, Gone, FniMoves

\* Nothing was consumed at the start.
LEMMA OnceInit == Init => Once
<1> SUFFICES ASSUME Init PROVE Once
  OBVIOUS
<1>1. todo = {} /\ HeldTokens = {} /\ pc # "down" /\ gpa = {}
  BY DEF Init, HeldTokens
<1>2. \A f \in Fnis : rows[f].prev = {}
  BY DEF Init, NoRow
<1>3. \A f \in Fnis : task[f].acc = {} /\ DOMAIN task[f].mail = {}
  BY DEF Init, NewTask, NoTask
<1>4. \A f, s \in Fnis : ~Claims(f, s)
  BY <1>1, <1>2, <1>3 DEF Claims, Carried
<1>5. RoutesOwn
  BY DEF Init, RoutesOwn, NoRoute
<1> QED BY <1>1, <1>4, <1>5 DEF Once, OneClaim, Unclaimed, Apart, GoneSources, OwnTokens, NothingHeldDown, Pending

\* A handler passes on no token.
LEMMA OnceHandler ==
    ASSUME Typed, Once, NEW f \in Fnis, HandlerMoves(f)
    PROVE  Once'
<1>1. GoneStays
  <2>1. \A s \in Fnis : RowMoves(s) /\ mem'[s] = mem[s]
    BY DEF HandlerMoves, RowMoves
  <2> QED BY <2>1, GoneByRows
<1>2. Pending' \subseteq Pending /\ Apart' /\ RoutesOwn' /\ NothingHeldDown'
  BY DEF HandlerMoves, Pending, HeldTokens, Once, Apart, RoutesOwn, NothingHeldDown
<1> QED BY <1>1, <1>2, OnceKept DEF HandlerMoves

\* Neither does the PI when it parks, cancels or ends an FNI.
LEMMA OnceFni ==
    ASSUME Typed, Once, NEW f \in Fnis, FniMoves(f), UNCHANGED <<routing, held>>, todo' \subseteq todo, pc' # "down"
    PROVE  Once'
<1>1. GoneStays
  BY GoneByFni
<1>2. Pending' \subseteq Pending /\ Apart' /\ RoutesOwn' /\ NothingHeldDown'
  BY DEF Pending, HeldTokens, Once, Apart, RoutesOwn, NothingHeldDown
<1> QED BY <1>1, <1>2, OnceKept DEF FniMoves

\* The tokens held go on when the last stamped loser has reported.
LEMMA OnceLoser ==
    ASSUME Typed, Once, NEW f \in Fnis, HandleLoser(f)
    PROVE  Once'
<1>1. FniMoves(f)
  BY PiMovesOne
<1>2. CASE UNCHANGED <<todo, held>>
  BY <1>1, <1>2, OnceFni DEF HandleLoser
<1>3. CASE held # <<>> /\ todo' = held[1] /\ held' = <<>>
  <2>1. Pending' \subseteq Pending /\ Apart'
    BY <1>3 DEF Pending, HeldTokens, Apart
  <2>2. RoutesOwn' /\ NothingHeldDown'
    BY <1>3 DEF HandleLoser, Once, RoutesOwn, NothingHeldDown
  <2> QED BY <1>1, <2>1, <2>2, GoneByFni, OnceKept DEF FniMoves
<1> QED BY <1>2, <1>3 DEF HandleLoser

\* A finished FNI gives out its tokens: no FNI can have claimed it before.
LEMMA OnceOk ==
    ASSUME Typed, Quiet, Once, NEW f \in Fnis, HandleOk(f)
    PROVE  Once'
<1>1. FniMoves(f) /\ ClaimsKept /\ GoneStays
  BY PiMovesOne, GoneByFni DEF FniMoves
<1>2. PICK flows \in Taken(f[1]) :
         IF Kind(f[1]) = "terminate" \/ LiveRivals(f) # {}
         THEN /\ todo' = TokensOf(f, flows) /\ UNCHANGED held
              /\ pc' = IF Kind(f[1]) = "terminate" THEN "interrupt" ELSE "race"
         ELSE DispatchOrHold(TokensOf(f, flows))
  BY DEF HandleOk
<1> DEFINE new == TokensOf(f, flows)
<1>3. \A t \in new : t \in Tokens /\ t[2] = f /\ t[1][1] = f[1]
  BY TakenOut, TokensOfTyped DEF Typed, StateTyped
<1>4. /\ \/ todo' = new /\ held' = held
         \/ todo' = {} /\ held' = <<new>>
      /\ pc' # "down"
  BY <1>2 DEF DispatchOrHold
<1> HIDE DEF new
<1>5. Live(mem[f]) /\ ~Gone(f)
  BY DEF HandleOk, Gone
<1>6. Gone(f)'
  <2>1. rows' = rows /\ mem' = [mem EXCEPT ![f] = "finished"] /\ task[f].step = "ok"
    BY DEF HandleOk, dbVars
  <2>2. mem'[f] = "finished"
    BY <2>1 DEF Typed, MemTyped
  <2> QED BY <2>1, <2>2 DEF Gone, Quiet, TasksHaveRows, Live
<1>7. \A g \in Fnis : ~Claims(g, f)
  BY <1>5 DEF Once, GoneSources
<1>8. \A t \in HeldTokens : t[2] # f
  BY <1>5 DEF Once, GoneSources, Pending
<1>9. /\ \A t \in Pending' : t \in new \/ t \in HeldTokens
      /\ Apart'
  <2>1. CASE todo' = new /\ held' = held
    BY <1>3, <1>8, <2>1 DEF Pending, HeldTokens, Apart
  <2>2. CASE todo' = {} /\ held' = <<new>>
    BY <2>2 DEF Pending, HeldTokens, Apart
  <2> QED BY <1>4, <2>1, <2>2
<1>10. OneClaim'
  BY <1>1 DEF Once, OneClaim, ClaimsKept
<1>11. Unclaimed'
  <2> SUFFICES ASSUME NEW t \in Pending', NEW g \in Fnis, g[1] = t[1][2], Claims(g, t[2])' PROVE FALSE
    BY DEF Unclaimed
  <2>1. CASE t \in new
    <3>1. Claims(g, f)
      BY <1>1, <1>3, <2>1 DEF ClaimsKept
    <3> QED BY <1>7, <3>1
  <2>2. CASE t \in HeldTokens
    <3>1. t \in Pending /\ t[2] \in Fnis
      BY <2>2, PendingTokens, NoTokens DEF Pending
    <3>2. Claims(g, t[2])
      BY <1>1, <3>1 DEF ClaimsKept
    <3> QED BY <3>1, <3>2 DEF Once, Unclaimed
  <2> QED BY <1>9, <2>1, <2>2
<1>12. GoneSources'
  <2>1. \A t \in Pending' : Gone(t[2])'
    <3> TAKE t \in Pending'
    <3>1. CASE t \in new
      BY <1>3, <1>6, <3>1
    <3>2. CASE t \in HeldTokens
      <4>1. t \in Pending /\ t[2] \in Fnis
        BY <3>2, PendingTokens, NoTokens DEF Pending
      <4>2. Gone(t[2])
        BY <4>1 DEF Once, GoneSources
      <4> QED BY <1>1, <4>1, <4>2 DEF GoneStays
    <3> QED BY <1>9, <3>1, <3>2
  <2>2. \A g, s \in Fnis : Claims(g, s)' => Gone(s)'
    BY <1>1 DEF ClaimsKept, GoneStays, Once, GoneSources
  <2> QED BY <2>1, <2>2 DEF GoneSources
<1>13. OwnTokens'
  BY <1>3, <1>9 DEF Once, OwnTokens, Pending
<1>14. RoutesOwn' /\ NothingHeldDown'
  BY <1>4 DEF HandleOk, Once, RoutesOwn, NothingHeldDown
<1> QED BY <1>9, <1>10, <1>11, <1>12, <1>13, <1>14 DEF Once

\* A token is consumed: the FNI it starts, or the join it goes to, claims its source.
LEMMA OnceConsumed ==
    ASSUME Typed, Once, NEW token \in todo, NEW f \in Fnis, f[1] = token[1][2],
           \A g, s \in Fnis : Claims(g, s)' => Claims(g, s) \/ (g = f /\ s = token[2]),
           GoneStays, todo' = todo \ {token}, held' = held, RoutesOwn', pc' # "down"
    PROVE  Once'
<1>1. token \in Pending /\ token \in Tokens /\ token[2] \in Fnis /\ token \notin HeldTokens
  BY PendingTokens, NoTokens DEF Pending, Once, Apart
<1>2. Pending' \subseteq Pending /\ token \notin Pending' /\ Apart'
  BY <1>1 DEF Pending, HeldTokens, Once, Apart
<1>3. \A g \in Fnis : g[1] = f[1] => ~Claims(g, token[2])
  BY <1>1 DEF Once, Unclaimed
<1>4. OneClaim'
  BY <1>1, <1>3 DEF Once, OneClaim
<1>5. Unclaimed'
  <2> SUFFICES ASSUME NEW t \in Pending', NEW g \in Fnis, g[1] = t[1][2], Claims(g, t[2])' PROVE FALSE
    BY DEF Unclaimed
  <2>1. t \in Pending /\ t \in Tokens /\ t[2] \in Fnis
    BY <1>2, PendingTokens, NoTokens
  <2>2. ~Claims(g, t[2])
    BY <2>1 DEF Once, Unclaimed
  <2>3. g = f /\ t[2] = token[2]
    BY <2>1, <2>2
  <2>4. t = token
    BY <1>1, <2>1, <2>3, TokenOf DEF Once, OwnTokens
  <2> QED BY <1>2, <2>4
<1>6. GoneSources'
  <2>1. \A t \in Pending' : Gone(t[2])'
    <3> TAKE t \in Pending'
    <3>1. t[2] \in Fnis /\ Gone(t[2])
      BY <1>2, PendingTokens, NoTokens DEF Once, GoneSources
    <3> QED BY <3>1 DEF GoneStays
  <2>2. ASSUME NEW g \in Fnis, NEW s \in Fnis, Claims(g, s)' PROVE Gone(s)'
    <3>1. Claims(g, s) \/ s = token[2]
      BY <2>2
    <3>2. Gone(s)
      BY <1>1, <3>1 DEF Once, GoneSources
    <3> QED BY <3>2 DEF GoneStays
  <2> QED BY <2>1, <2>2 DEF GoneSources
<1>7. OwnTokens' /\ NothingHeldDown'
  BY <1>2 DEF Once, OwnTokens, NothingHeldDown
<1> QED BY <1>2, <1>4, <1>5, <1>6, <1>7 DEF Once

\* Dispatching a token consumes it, once.
LEMMA OnceDispatch ==
    ASSUME Typed, Quiet, Once, NEW token \in todo, Dispatch(token)
    PROVE  Once'
<1>1. token \in Tokens /\ token[2] \in Fnis /\ token[1][2] \in AllNodes
  BY TargetIsNode, NoTokens DEF Typed, TodoTyped
<1>2. /\ pc = "dispatch" /\ pc' # "down" /\ todo' = todo \ {token} /\ held' = held /\ gpa' = gpa /\ IsUp
  BY DEF Dispatch, Consume, IsUp, ebgVars
<1>3. CASE StartNew(token)
  <2>1. PICK f \in Fnis :
              /\ f[1] = token[1][2] /\ mem[f] = "none"
              /\ rows'[f].state = "active" /\ rows'[f].prev = {token[2]} /\ mem'[f] = "active"
              /\ task'[f].step = "enter" /\ task'[f].mail = <<>> /\ task'[f].acc \subseteq {token}
              /\ \A g \in Fnis \ {f} : rows'[g] = rows[g] /\ mem'[g] = mem[g] /\ task'[g] = task[g]
              /\ routing' = routing \/ routing' = [routing EXCEPT ![f[1]] = [fni |-> f, arrived |-> {token[1]}]]
    BY <1>1, <1>3, StartMoves
  <2>2. rows[f].state = "none"
    BY <1>2, <2>1 DEF Quiet, KnowsRows
  <2>3. \A t \in Tokens : <<f, t>> \notin gpa
    BY <2>2 DEF Quiet, ArrivalsHaveRows
  <2>4. \A s \in Fnis : Claims(f, s)' => s = token[2]
    <3>1. DOMAIN task'[f].mail = {}
      BY <2>1
    <3>2. \A t \in Tokens : Carried(f, t)' => t = token
      BY <1>2, <2>1, <2>3, <3>1 DEF Carried
    <3> QED BY <2>1, <3>2 DEF Claims
  <2>5. \A g \in Fnis \ {f}, s \in Fnis : Claims(g, s)' => Claims(g, s)
    <3> TAKE g \in Fnis \ {f}, s \in Fnis
    <3>1. rows'[g] = rows[g] /\ task'[g] = task[g] /\ gpa' = gpa
      BY <1>2, <2>1
    <3>2. \A t \in Tokens : Carried(g, t)' => Carried(g, t)
      BY <3>1 DEF Carried
    <3> QED BY <3>1, <3>2 DEF Claims
  <2>6. GoneStays
    BY <2>1, <2>2 DEF GoneStays, Gone
  <2>7. RoutesOwn'
    <3>1. CASE routing' = routing
      BY <3>1 DEF Once, RoutesOwn
    <3>2. CASE routing' = [routing EXCEPT ![f[1]] = [fni |-> f, arrived |-> {token[1]}]]
      BY <3>2 DEF Once, RoutesOwn, Typed, RouteTyped
    <3> QED BY <2>1, <3>1, <3>2
  <2>8. \A g, s \in Fnis : Claims(g, s)' => Claims(g, s) \/ (g = f /\ s = token[2])
    BY <2>4, <2>5
  <2> QED BY <1>2, <2>1, <2>6, <2>7, <2>8, OnceConsumed
<1>4. CASE RouteToJoin(token)
  <2>1. PICK f \in Fnis :
              /\ f = routing[token[1][2]].fni /\ Live(mem[f])
              /\ \A g \in Fnis : task'[g].step = task[g].step
              /\ \A g \in Fnis, t \in Tokens : (Carried(g, t)' /\ gpa' = gpa) => Carried(g, t) \/ (g = f /\ t = token)
              /\ UNCHANGED <<rows, mem>>
    BY <1>1, <1>4, RouteMoves
  <2>2. f[1] = token[1][2]
    BY <1>1, <2>1, NoTokens DEF Once, RoutesOwn
  <2>3. \A g, s \in Fnis : Claims(g, s)' => Claims(g, s) \/ (g = f /\ s = token[2])
    BY <1>2, <2>1 DEF Claims
  <2>4. GoneStays
    BY <2>1 DEF GoneStays, Gone
  <2>5. RoutesOwn'
    <3> DEFINE n == token[1][2]
    <3>1. PICK r : routing' = [routing EXCEPT ![n] = r] /\ (r = NoRoute \/ \E a : r = [routing[n] EXCEPT !.arrived = a])
      BY <1>4 DEF RouteToJoin
    <3>2. r.fni = NoFni \/ r.fni = routing[n].fni
      <4>1. routing[n] \in RouteRecords
        BY <1>1 DEF Typed, RouteTyped
      <4> QED BY <3>1, <4>1 DEF NoRoute, RouteRecords
    <3> QED BY <3>1, <3>2 DEF Once, RoutesOwn, Typed, RouteTyped
  <2> QED BY <1>2, <2>2, <2>3, <2>4, <2>5, OnceConsumed
<1>5. CASE StartFails(token)
  <2>1. PICK f \in NewFnis(token[1][2]) : mem' = [mem EXCEPT ![f] = "fatal"] /\ UNCHANGED <<rows, task, routing>>
    BY <1>5 DEF StartFails
  <2>2. \A g \in Fnis : Live(mem'[g]) => Live(mem[g])
    BY <2>1 DEF Typed, MemTyped, Live
  <2>3. GoneStays
    BY <2>1, <2>2 DEF GoneStays, Gone
  <2>4. ClaimsKept
    BY <1>2, <2>1 DEF ClaimsKept, Claims, Carried
  <2>5. Pending' \subseteq Pending /\ Apart' /\ RoutesOwn' /\ NothingHeldDown'
    BY <1>2, <2>1 DEF Pending, HeldTokens, Once, Apart, RoutesOwn, NothingHeldDown
  <2> QED BY <2>3, <2>4, <2>5, OnceKept
<1>6. CASE DuplicateArrival(token)
  <2>1. routing' = routing
    BY <1>6 DEF DuplicateArrival
  <2> QED BY <1>2, <1>6, <2>1, PiMovesOne, OnceFni
<1> QED BY <1>3, <1>4, <1>5, <1>6 DEF Dispatch

\* The losers of a race are stamped, the winner's token goes on or is held.
LEMMA OnceStamp ==
    ASSUME Typed, Once, StampRivals
    PROVE  Once'
<1>1. UNCHANGED <<rows, gpa, task, mem, routing>>
  BY DEF StampRivals, dbVars
<1>2. /\ \/ todo' = todo /\ held' = held
         \/ todo' = {} /\ held' = <<todo>>
      /\ pc' # "down"
  BY DEF StampRivals, DispatchOrHold
<1>3. ClaimsKept /\ GoneStays
  BY <1>1 DEF ClaimsKept, Claims, Carried, GoneStays, Gone
<1>4. Pending' \subseteq Pending /\ Apart'
  BY <1>2 DEF Pending, HeldTokens, Once, Apart
<1>5. RoutesOwn' /\ NothingHeldDown'
  BY <1>1, <1>2 DEF Once, RoutesOwn, NothingHeldDown
<1> QED BY <1>3, <1>4, <1>5, OnceKept

\* Nothing is consumed by the end of the PI process.
LEMMA OnceStop ==
    ASSUME Typed, Once, Stop, UNCHANGED <<rows, gpa>>
    PROVE  Once'
<1>1. (\A f \in Fnis : mem'[f] = "none") /\ CarriedKept
  BY StopMoves
<1>2. ClaimsKept
  BY <1>1, ClaimsStay DEF RowMoves
<1>3. GoneStays
  BY <1>1 DEF GoneStays, Gone, Live
<1>4. Pending' = {} /\ Apart' /\ RoutesOwn' /\ NothingHeldDown'
  BY DEF Stop, Pending, HeldTokens, Apart, RoutesOwn, NoRoute, NothingHeldDown
<1> QED BY <1>2, <1>3, <1>4, OnceKept

\* The end of a message gives no token to a join, only the sign to fire, or ends
\* the PI process.
LEMMA EvaluateMoves ==
    ASSUME Typed, Evaluate
    PROVE  /\ UNCHANGED <<rows, gpa, diagram, crashes>>
           /\ \/ Stop /\ pc' = "ended"
              \/ /\ CarriedKept /\ ClaimsKept /\ pc' \in {"cascade", "idle"}
                 /\ UNCHANGED <<mem, todo, winner, losers, held>>
                 /\ \A n \in AllNodes : routing'[n] \in {NoRoute, routing[n]}
<1> DEFINE firing == {n \in DOMAIN diagram.kind : held = <<>> /\ ShouldFire(n)}
           states == {mem[f] : f \in Fnis}
<1>1. UNCHANGED <<rows, gpa, diagram, crashes>>
  BY DEF Evaluate
<1>2. CASE "fatal" \notin states /\ Completed(states)
  <2>1. Stop /\ pc' = "ended"
    BY <1>2 DEF Evaluate
  <2> QED BY <1>1, <2>1
<1>3. CASE ~("fatal" \notin states /\ Completed(states))
  <2>1. /\ routing' = [n \in AllNodes |-> IF n \in firing THEN NoRoute ELSE routing[n]]
        /\ task' = [f \in Fnis |->
                        IF \E n \in firing : routing[n].fni = f /\ task[f].step # "none"
                        THEN [task[f] EXCEPT !.mail = Append(@, Fire)] ELSE task[f]]
        /\ pc' \in {"cascade", "idle"}
        /\ UNCHANGED <<mem, todo, winner, losers, held>>
    BY <1>3 DEF Evaluate, ebgVars
  <2> HIDE DEF firing
  <2>2. CarriedKept
    <3> SUFFICES ASSUME NEW f \in Fnis, NEW t \in Tokens, Carried(f, t)' PROVE Carried(f, t)
      BY DEF CarriedKept
    <3> DEFINE t1 == task[f]
               q  == Append(t1.mail, Fire)
    <3>1. t1 \in TaskRecords /\ Fire \in Tokens \cup {Fire} /\ t # Fire
      BY NoTokens DEF Typed, TasksTyped
    <3>2. task'[f] = t1 \/ task'[f] = [t1 EXCEPT !.mail = q]
      BY <2>1
    <3> HIDE DEF t1
    <3>3. /\ [t1 EXCEPT !.mail = q].acc = t1.acc
          /\ [t1 EXCEPT !.mail = q].mail = q
          /\ \A i \in DOMAIN q : q[i] = Fire \/ (i \in DOMAIN t1.mail /\ q[i] = t1.mail[i])
      BY <3>1, MailTyped
    <3> HIDE DEF q
    <3>4. t \in t1.acc \/ (\E i \in DOMAIN t1.mail : t1.mail[i] = t) \/ <<f, t>> \in gpa
      <4>1. CASE task'[f] = t1
        BY <1>1, <4>1 DEF Carried
      <4>2. CASE task'[f] = [t1 EXCEPT !.mail = q]
        <5>1. task'[f].acc = t1.acc /\ task'[f].mail = q /\ gpa' = gpa
          BY <1>1, <3>3, <4>2
        <5>2. t \in t1.acc \/ (\E i \in DOMAIN q : q[i] = t) \/ <<f, t>> \in gpa
          BY <5>1 DEF Carried
        <5>3. ASSUME NEW i \in DOMAIN q, q[i] = t PROVE \E j \in DOMAIN t1.mail : t1.mail[j] = t
          <6>1. i \in DOMAIN t1.mail /\ q[i] = t1.mail[i]
            BY <3>1, <3>3, <5>3
          <6> QED BY <5>3, <6>1
        <5> QED BY <5>2, <5>3
      <4> QED BY <3>2, <4>1, <4>2
    <3> QED BY <3>4 DEF Carried, t1
  <2>3. ClaimsKept
    BY <1>1, <2>2, ClaimsStay DEF RowMoves
  <2>4. \A n \in AllNodes : routing'[n] \in {NoRoute, routing[n]}
    BY <2>1
  <2> QED BY <1>1, <2>1, <2>2, <2>3, <2>4
<1> QED BY <1>2, <1>3

\* So it consumes nothing.
LEMMA OnceEvaluate ==
    ASSUME Typed, Once, Evaluate
    PROVE  Once'
<1>1. UNCHANGED <<rows, gpa>>
  BY EvaluateMoves
<1>2. CASE Stop
  BY <1>1, <1>2, OnceStop
<1>3. CASE /\ ClaimsKept /\ pc' \in {"cascade", "idle"} /\ UNCHANGED <<mem, todo, held>>
           /\ \A n \in AllNodes : routing'[n] \in {NoRoute, routing[n]}
  <2>1. GoneStays /\ Pending' \subseteq Pending /\ Apart' /\ NothingHeldDown'
    BY <1>1, <1>3 DEF GoneStays, Gone, Pending, HeldTokens, Once, Apart, NothingHeldDown
  <2>2. RoutesOwn'
    BY <1>3 DEF Once, RoutesOwn, NoRoute
  <2> QED BY <1>3, <2>1, <2>2, OnceKept
<1> QED BY <1>2, <1>3, EvaluateMoves

\* A resumed PI gives its Tasks what was recorded, and repairs what was lost.
LEMMA ResumeMoves ==
    ASSUME Typed, Once, Resume
    PROVE  /\ CarriedKept
           /\ \A t \in Pending' : t[2] \in Lost /\ t[1][1] = t[2][1] /\ t[1] \in diagram.flows
<1>1. task' = [f \in Fnis |-> ResumedTask(f)] /\ held' = <<>> /\ UNCHANGED gpa
  BY DEF Resume, dbVars, ebgVars, Once, NothingHeldDown
<1>2. CarriedKept
  <2> SUFFICES ASSUME NEW f \in Fnis, NEW t \in Tokens, Carried(f, t)' PROVE Carried(f, t)
    BY DEF CarriedKept
  <2>1. DOMAIN task'[f].mail = {} /\ task'[f].acc \subseteq Arrivals(f) \cup {Unknown}
    BY <1>1, ResumedTaskIs
  <2>2. \A a \in gpa : a = <<a[1], a[2]>>
    BY DEF Typed, GpaTyped
  <2>3. t \in Arrivals(f) => <<f, t>> \in gpa
    BY <2>2 DEF Arrivals
  <2> QED BY <1>1, <2>1, <2>3, NoTokens DEF Carried
<1>3. PICK taken \in [Lost -> UNION {Selections(f[1]) : f \in Lost}] :
         /\ \A f \in Lost : taken[f] \in Selections(f[1])
         /\ todo' = UNION {TokensOf(f, taken[f]) : f \in Lost}
  BY DEF Resume
<1>4. Lost \subseteq Fnis
  BY DEF Lost
<1>5. \A t \in Pending' : t[2] \in Lost /\ t[1][1] = t[2][1] /\ t[1] \in diagram.flows
  <2> SUFFICES ASSUME NEW t \in todo' PROVE t[2] \in Lost /\ t[1][1] = t[2][1] /\ t[1] \in diagram.flows
    BY <1>1 DEF Pending, HeldTokens
  <2>1. PICK f \in Lost : t \in TokensOf(f, taken[f])
    BY <1>3
  <2>2. taken[f] \subseteq diagram.flows /\ \A flow \in taken[f] : flow[1] = f[1]
    BY <1>3, SelectionsOut
  <2>3. t[2] = f /\ t[1] \in taken[f]
    BY <1>4, <2>1, <2>2, TokensOfTyped DEF Typed, StateTyped
  <2> QED BY <2>2, <2>3
<1> QED BY <1>2, <1>5

\* So it repairs only what nothing that is live could still consume.
LEMMA OnceResume ==
    ASSUME Typed, Once, Resume
    PROVE  Once'
<1>1. /\ mem' = [f \in Fnis |-> rows[f].state]
      /\ pc' \in {"evaluate", "dispatch"} /\ held' = <<>> /\ UNCHANGED <<rows, gpa>>
  BY DEF Resume, dbVars, ebgVars, Once, NothingHeldDown
<1>2. CarriedKept
  BY ResumeMoves
<1>3. ClaimsKept
  BY <1>1, <1>2, ClaimsStay DEF RowMoves
<1>4. GoneStays
  BY <1>1 DEF GoneStays, Gone
<1>6. Lost \subseteq Fnis
  BY DEF Lost
<1>7. \A t \in Pending' : t[2] \in Lost /\ t[1][1] = t[2][1]
  BY ResumeMoves
<1>8. \A f \in Lost : /\ rows[f].state = "finished"
                      /\ \A g \in Fnis : f \notin rows[g].prev /\ ~Live(rows[g].state)
  BY DEF Lost
<1>9. OneClaim'
  BY <1>3 DEF Once, OneClaim, ClaimsKept
<1>10. Unclaimed'
  BY <1>1, <1>7, <1>8 DEF Unclaimed, Claims
<1>11. GoneSources'
  <2>1. \A f \in Lost : Gone(f)'
    BY <1>1, <1>6, <1>8 DEF Gone, Live
  <2>2. \A g, s \in Fnis : Claims(g, s)' => Gone(s)'
    BY <1>3, <1>4 DEF ClaimsKept, GoneStays, Once, GoneSources
  <2> QED BY <1>7, <2>1, <2>2 DEF GoneSources
<1>12. Apart' /\ OwnTokens' /\ NothingHeldDown'
  BY <1>1, <1>7 DEF Apart, HeldTokens, OwnTokens, NothingHeldDown
<1>13. RoutesOwn'
  <2>1. \A n \in AllNodes : RebuiltRoute(n).fni # NoFni => RebuiltRoute(n).fni[1] = n
    BY RebuiltRouteTyped DEF LiveRows
  <2> QED BY <2>1 DEF Resume, RoutesOwn, NoRoute
<1> QED BY <1>9, <1>10, <1>11, <1>12, <1>13 DEF Once

\* No step breaks it.
LEMMA OnceStep == Typed /\ Quiet /\ Once /\ [Next]_vars => Once'
<1> SUFFICES ASSUME Typed, Quiet, Once, [Next]_vars PROVE Once'
  OBVIOUS
<1>0. ASSUME UNCHANGED <<rows, gpa, task, mem, routing, todo, held>>, pc' # "down" \/ pc = "down" PROVE Once'
  <2>1. ClaimsKept /\ GoneStays
    BY <1>0 DEF ClaimsKept, Claims, Carried, GoneStays, Gone
  <2>2. Pending' \subseteq Pending /\ Apart' /\ RoutesOwn' /\ NothingHeldDown'
    BY <1>0 DEF Pending, HeldTokens, Once, Apart, RoutesOwn, NothingHeldDown
  <2> QED BY <2>1, <2>2, OnceKept
<1>1. CASE UNCHANGED vars
  BY <1>0, <1>1 DEF vars, dbVars, ebgVars
<1>2. CASE \E f \in Fnis : HandlerStep(f) \/ Trigger(f) \/ Fail(f)
  BY <1>2, HandlerMovesOwn, OnceHandler
<1>3. CASE \E f \in Fnis : HandleAsync(f) \/ HandleError(f)
  <2>1. PICK f \in Fnis : HandleAsync(f) \/ HandleError(f)
    BY <1>3
  <2>2. FniMoves(f)
    BY <2>1, PiMovesOne
  <2>3. UNCHANGED <<routing, held, todo>> /\ pc' # "down"
    BY <2>1 DEF HandleAsync, HandleError, ebgVars
  <2> QED BY <2>2, <2>3, OnceFni
<1>4. CASE \E f \in Fnis : HandleOk(f) \/ HandleLoser(f)
  BY <1>4, OnceOk, OnceLoser
<1>5. CASE CancelRival
  <2>1. UNCHANGED <<routing, held, todo>> /\ pc' # "down"
    BY <1>5 DEF CancelRival, ebgVars
  <2> QED BY <1>5, <2>1, PiMovesOne, OnceFni
<1>6. CASE StampRivals
  BY <1>6, OnceStamp
<1>7. CASE \E token \in todo : Dispatch(token)
  BY <1>7, OnceDispatch
<1>8. CASE (Interrupt \/ Cascade) /\ \E g \in Fnis : Live(mem[g])
  <2>1. UNCHANGED <<routing, held, todo>> /\ pc' # "down"
    BY <1>8 DEF Interrupt, Cascade, ebgVars
  <2> QED BY <1>8, <2>1, PiMovesOne, OnceFni
<1>9. CASE Interrupt /\ ~\E g \in Fnis : Live(mem[g])
  BY <1>0, <1>9 DEF Interrupt, ebgVars
<1>10. CASE Cascade /\ ~\E g \in Fnis : Live(mem[g])
  BY <1>10, OnceStop DEF Cascade
<1>11. CASE TransitionToFatal
  BY <1>0, <1>11 DEF TransitionToFatal, ebgVars
<1>12. CASE Evaluate
  BY <1>12, OnceEvaluate
<1>13. CASE Crash
  BY <1>13, OnceStop DEF Crash, dbVars
<1>14. CASE CleanUp
  <2>1. \A f \in Fnis : rows[f] \in RowRecords
    BY DEF Typed, RowsTyped
  <2>2. \A f \in Fnis : /\ [rows[f] EXCEPT !.state = "aborted"].state = "aborted"
                        /\ [rows[f] EXCEPT !.state = "aborted"].prev = rows[f].prev
    BY <2>1 DEF RowRecords
  <2>3. \A f \in Fnis : RowMoves(f) /\ rows'[f].prev = rows[f].prev
    BY <1>14, <2>2 DEF CleanUp, RowMoves, Live
  <2>4. UNCHANGED <<gpa, task, mem, routing, todo, held>> /\ pc' = "ended"
    BY <1>14 DEF CleanUp, ebgVars
  <2>5. ClaimsKept
    BY <2>3, <2>4, ClaimsStay DEF CarriedKept, Carried
  <2>6. GoneStays
    BY <2>3, <2>4, GoneByRows
  <2>7. Pending' \subseteq Pending /\ Apart' /\ RoutesOwn' /\ NothingHeldDown'
    BY <2>4 DEF Pending, HeldTokens, Once, Apart, RoutesOwn, NothingHeldDown
  <2> QED BY <2>5, <2>6, <2>7, OnceKept
<1>15. CASE Resume
  BY <1>15, OnceResume
<1> QED BY <1>1, <1>2, <1>3, <1>4, <1>5, <1>6, <1>7, <1>8, <1>9, <1>10, <1>11, <1>12, <1>13, <1>14, <1>15
        DEF Next, InstanceStep

\* Whatever fails, and wherever the engine stops, a token is consumed once: no two
\* FNIs of a flow node name the same predecessor, on any diagram and however
\* often the PI is resumed. (dispatch_successors, fire_join, lost_successor_dispatches)
THEOREM TokenConsumedOnce == Spec => []ConsumedOnce
<1>1. Typed /\ Once => ConsumedOnce
  <2> SUFFICES ASSUME Typed, Once, NEW f \in Fnis, NEW g \in Fnis, f # g, f[1] = g[1],
                      NEW s \in rows[f].prev \cap rows[g].prev
               PROVE  FALSE
    BY DEF ConsumedOnce
  <2>1. s \in Fnis
    BY DEF Typed, RowsTyped, RowRecords
  <2>2. Claims(f, s) /\ Claims(g, s)
    BY DEF Claims
  <2> QED BY <2>1, <2>2 DEF Once, OneClaim
<1> QED BY <1>1, TypedInit, TypedStep, QuietInit, QuietStep, OnceInit, OnceStep, PTL DEF Spec
=============================================================================
