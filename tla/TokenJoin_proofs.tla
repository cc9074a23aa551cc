---------------------------- MODULE TokenJoin_proofs ----------------------------
(***************************************************************************)
(* Joins, and the tokens that flow into them, on every diagram. Across a   *)
(* crash, a pass of a parallel join that finished took one token from each *)
(* incoming flow. Without a crash, and where no event-based gateway holds  *)
(* tokens back, no token is lost: the second half of the module.           *)
(***************************************************************************)
EXTENDS TokenRace_proofs

-----------------------------------------------------------------------------
(* The invariant.                                                          *)

IsParallelJoin(f) == IsJoin(f[1]) /\ Kind(f[1]) = "parallel"

\* Tokens that took different flows.
OnePerFlow(tokens) == \A t, u \in tokens : t[1] = u[1] => t = u

\* Tokens take the flows of the diagram, from the node of their source to the
\* FNI that carries them.
PendingFits == \A t \in Pending : t[1] \in diagram.flows
CarriedFits == \A f \in Fnis, t \in Tokens : Carried(f, t) => t[1] \in In(f[1]) /\ t[1][1] = t[2][1]

\* The Task of a parallel join: it finishes only when it has a token of each
\* flow, and if it was entered without a token no other will reach it.
JoinTask(f) ==
    /\ OnePerFlow(task[f].acc)
    /\ task[f].step \in {"delete", "finish"} => Unknown \notin task[f].acc /\ Complete(f[1], task[f].acc)
    /\ \A i \in DOMAIN task[f].mail : task[f].mail[i] # Fire
    /\ Unknown \in task[f].acc => task[f].mail = <<>> /\ routing[f[1]].fni # f
JoinTasks == \A f \in Fnis : IsParallelJoin(f) => JoinTask(f)

\* Until the first crash every arrival is recorded with its token; they are what
\* the Task has collected, and what a resumed one starts from.
Recorded(f) ==
    /\ <<f, Unknown>> \notin gpa
    /\ \A t, u \in Tokens : <<f, t>> \in gpa /\ <<f, u>> \in gpa => (t[1] = u[1] => t = u)
Collected(f) ==
    /\ Unknown \notin task[f].acc
    /\ task[f].step # "none" => \A t \in Tokens : <<f, t>> \in gpa => t \in task[f].acc
RecordsSound ==
    /\ crashes = 0 \/ (crashes = 1 /\ pc = "down") => \A f \in Fnis : IsParallelJoin(f) => Recorded(f)
    /\ crashes = 0 => \A f \in Fnis : IsParallelJoin(f) => Collected(f)

CrashSeen == pc = "down" => crashes > 0

Joins == PendingFits /\ CarriedFits /\ JoinTasks /\ RecordsSound /\ CrashSeen /\ JoinComplete

\* What a second crash may break.
JoinsOnceCrashed == crashes <= 1 => Joins
-----------------------------------------------------------------------------
(* What the count of the arrivals says.                                    *)

\* As many tokens as there are flows, no two of them on one flow: one on each.
LEMMA CompleteIsAll ==
    ASSUME diagram \in Diagrams, NEW n, NEW tokens, \A t \in tokens : t[1] \in In(n),
           OnePerFlow(tokens), Complete(n, tokens)
    PROVE  {t[1] : t \in tokens} = In(n)
<1>1. IsFiniteSet(In(n))
  <2>1. IsFiniteSet(diagram.flows) /\ In(n) \subseteq diagram.flows
    BY DiagramsAssumption DEF In
  <2> QED BY <2>1, FS_Subset
<1> DEFINE h == [t \in tokens |-> t[1]]
<1>2. h \in Injection(tokens, In(n))
  BY DEF Injection, IsInjective, OnePerFlow
<1>3. /\ IsFiniteSet(tokens) /\ Cardinality(tokens) <= Cardinality(In(n))
      /\ Cardinality(tokens) = Cardinality(In(n)) <=> h \in Surjection(tokens, In(n))
  BY <1>1, <1>2, FS_Injection
<1>4. Cardinality(tokens) \in Nat /\ Cardinality(In(n)) \in Nat
  BY <1>1, <1>3, FS_CardinalityType
<1>5. h \in Surjection(tokens, In(n))
  BY <1>3, <1>4 DEF Complete
<1>6. \A flow \in In(n) : \E t \in tokens : h[t] = flow
  BY <1>5 DEF Surjection
<1> QED BY <1>6
\* The diagram of an instance does not change.
LEMMA SameDiagram ==
    ASSUME diagram' = diagram
    PROVE  /\ \A n : In(n)' = In(n)
           /\ \A n, tokens : Complete(n, tokens)' <=> Complete(n, tokens)
           /\ \A f : IsParallelJoin(f)' <=> IsParallelJoin(f)
<1>1. \A n : In(n)' = In(n) /\ Out(n)' = Out(n) /\ Kind(n)' = Kind(n)
  BY DEF In, Out, Kind
<1> QED BY <1>1 DEF Complete, IsParallelJoin, IsJoin, IsGateway

-----------------------------------------------------------------------------
(* The start, and what disturbs no join.                                   *)

\* At the start no token is under way.
LEMMA JoinsInit == Init => Joins
<1> SUFFICES ASSUME Init PROVE Joins
  OBVIOUS
<1>1. Pending = {} /\ gpa = {} /\ pc = "evaluate" /\ crashes = 0
  BY DEF Init, HeldTokens, Pending
<1>2. \A f \in Fnis : /\ task[f].acc = {} /\ task[f].mail = <<>> /\ DOMAIN task[f].mail = {}
                      /\ task[f].step \in {"none", "enter"} /\ rows[f].state # "finished"
  BY DEF Init, NewTask, NoTask, NoRow
<1>3. CarriedFits
  BY <1>1, <1>2 DEF CarriedFits, Carried
<1>4. JoinTasks
  BY <1>2 DEF JoinTasks, JoinTask, OnePerFlow
<1>5. RecordsSound
  BY <1>1, <1>2 DEF RecordsSound, Recorded, Collected
<1> QED BY <1>1, <1>2, <1>3, <1>4, <1>5 DEF Joins, PendingFits, CrashSeen, JoinComplete

\* A Task is left alone, killed, or takes a step that finishes no join.
TaskCalm(f) ==
    \/ task'[f] = task[f] \/ task'[f] = NoTask
    \/ /\ task'[f].acc = task[f].acc /\ task'[f].mail = task[f].mail
       /\ task[f].step # "none" /\ task'[f].step \notin {"delete", "finish"}

\* No join is finished.
RowsCalm ==
    \A f \in Fnis : IsParallelJoin(f) /\ rows'[f].state = "finished" =>
                        rows[f].state = "finished" /\ rows'[f].prev = rows[f].prev

\* A killed Task holds nothing.
LEMMA KilledTask ==
    /\ NoTask.acc = {} /\ NoTask.mail = <<>> /\ DOMAIN NoTask.mail = {} /\ NoTask.step = "none"
BY DEF NoTask

\* Routing is forgotten, or stays.
RoutesCalm == \A n \in AllNodes : routing'[n] \in {NoRoute, routing[n]}

\* The joins keep what they have, also when the engine stops the first time.
LEMMA JoinsCalm ==
    ASSUME Typed, Joins, diagram' = diagram, gpa' = gpa, CarriedKept, PendingFits', RowsCalm, RoutesCalm,
           \A f \in Fnis : IsParallelJoin(f) => TaskCalm(f),
           \/ crashes' = crashes /\ (pc' = "down" => pc = "down")
           \/ crashes = 0 /\ crashes' = 1 /\ pc' = "down"
    PROVE  Joins'
<1>d. /\ \A n : In(n)' = In(n)
      /\ \A n, tokens : Complete(n, tokens)' <=> Complete(n, tokens)
      /\ \A f : IsParallelJoin(f)' <=> IsParallelJoin(f)
  BY SameDiagram
<1>1. CarriedFits'
  BY <1>d DEF Joins, CarriedFits, CarriedKept
<1>2. JoinTasks'
  <2> SUFFICES ASSUME NEW f \in Fnis, IsParallelJoin(f) PROVE JoinTask(f)'
    BY <1>d DEF JoinTasks
  <2>1. JoinTask(f) /\ TaskCalm(f)
    BY DEF Joins, JoinTasks
  <2>2. routing[f[1]].fni # f => routing'[f[1]].fni # f
    BY NoTokens DEF RoutesCalm, NoRoute
  <2>3. CASE task'[f] = NoTask
    BY <2>3, KilledTask DEF JoinTask, OnePerFlow
  <2>4. CASE task'[f] = task[f]
    BY <1>d, <2>1, <2>2, <2>4 DEF JoinTask, OnePerFlow
  <2>5. CASE /\ task'[f].acc = task[f].acc /\ task'[f].mail = task[f].mail
             /\ task'[f].step \notin {"delete", "finish"}
    BY <2>1, <2>2, <2>5 DEF JoinTask, OnePerFlow
  <2> QED BY <2>1, <2>3, <2>4, <2>5 DEF TaskCalm
<1>3. RecordsSound'
  <2>1. ASSUME NEW f \in Fnis, IsParallelJoin(f), Recorded(f) PROVE Recorded(f)'
    BY <2>1 DEF Recorded
  <2>2. ASSUME NEW f \in Fnis, IsParallelJoin(f), Collected(f) PROVE Collected(f)'
    BY <2>2, KilledTask DEF Collected, TaskCalm
  <2> QED BY <1>d, <2>1, <2>2 DEF Joins, RecordsSound
<1>4. CrashSeen'
  BY DEF Joins, CrashSeen
<1>5. JoinComplete'
  BY <1>d DEF Joins, JoinComplete, RowsCalm, IsParallelJoin
<1> QED BY <1>1, <1>2, <1>3, <1>4, <1>5 DEF Joins

-----------------------------------------------------------------------------
(* The handler of a join.                                                  *)

\* A pass that finished names a source on each incoming flow.
Whole(f) == rows[f].state = "finished" => {<<g[1], f[1]>> : g \in rows[f].prev} = In(f[1])

\* A handler keeps the joins if it keeps its own.
LEMMA JoinsHandler ==
    ASSUME Typed, Quiet, Joins, NEW f \in Fnis, HandlerMoves(f),
           \A g \in Fnis \ {f} : task'[g] = task[g],
           IsParallelJoin(f) => JoinTask(f)' /\ Whole(f)' /\ (crashes = 0 => Recorded(f)' /\ Collected(f)')
    PROVE  Joins'
<1>d. /\ \A n : In(n)' = In(n)
      /\ \A n, tokens : Complete(n, tokens)' <=> Complete(n, tokens)
      /\ \A g : IsParallelJoin(g)' <=> IsParallelJoin(g)
  BY SameDiagram DEF HandlerMoves
<1>h. /\ UNCHANGED <<diagram, pc, todo, routing, held, crashes>> /\ CarriedKept
      /\ \A g \in Fnis \ {f} : rows'[g] = rows[g]
      /\ \A g \in Fnis \ {f} : \A t : <<g, t>> \in gpa' => <<g, t>> \in gpa
  BY DEF HandlerMoves
<1>u. pc # "down"
  BY DEF HandlerMoves, Quiet, NoOrphanTasks, IsUp
<1>1. PendingFits' /\ CrashSeen'
  BY <1>h DEF Joins, PendingFits, Pending, HeldTokens, CrashSeen
<1>2. CarriedFits'
  BY <1>d, <1>h DEF Joins, CarriedFits, CarriedKept
<1>3. JoinTasks'
  <2> SUFFICES ASSUME NEW g \in Fnis \ {f}, IsParallelJoin(g) PROVE JoinTask(g)'
    BY <1>d DEF JoinTasks
  <2>1. JoinTask(g) /\ task'[g] = task[g]
    BY DEF Joins, JoinTasks
  <2> QED BY <1>d, <1>h, <2>1 DEF JoinTask, OnePerFlow
<1>4. RecordsSound'
  <2> SUFFICES ASSUME crashes = 0, NEW g \in Fnis \ {f}, IsParallelJoin(g) PROVE Recorded(g)' /\ Collected(g)'
    BY <1>d, <1>h, <1>u DEF RecordsSound
  <2>1. Recorded(g) /\ Collected(g) /\ task'[g] = task[g]
    BY DEF Joins, RecordsSound
  <2> QED BY <1>h, <2>1 DEF Recorded, Collected
<1>5. JoinComplete'
  <2> SUFFICES ASSUME NEW g \in Fnis, rows'[g].state = "finished", IsParallelJoin(g)
               PROVE  {<<s[1], g[1]>> : s \in rows'[g].prev} = In(g[1])
    BY <1>d DEF JoinComplete, IsParallelJoin
  <2>1. CASE g = f
    BY <1>d, <2>1 DEF Whole
  <2>2. CASE g # f
    BY <1>h, <2>2 DEF Joins, JoinComplete, IsParallelJoin
  <2> QED BY <2>1, <2>2
<1> QED BY <1>1, <1>2, <1>3, <1>4, <1>5 DEF Joins

\* A handler of anything but a parallel join keeps the joins.
LEMMA JoinsOtherHandler ==
    ASSUME Typed, Quiet, Joins, NEW f \in Fnis, HandlerStep(f) \/ Trigger(f) \/ Fail(f)
    PROVE  /\ HandlerMoves(f) /\ \A g \in Fnis \ {f} : task'[g] = task[g]
           /\ ~IsParallelJoin(f) => Joins'
<1>1. HandlerMoves(f)
  BY HandlerMovesOwn
<1>2. \A g \in Fnis \ {f} : task'[g] = task[g]
  BY DEF HandlerStep, Enter, EnterJoin, Park, Receive, DeleteArrivals, FinishJoin, Trigger, Fail, Step, Typed, TasksTyped
<1> QED BY <1>1, <1>2, JoinsHandler

\* Entering a join records what it was entered with.
LEMMA JoinsEnter ==
    ASSUME Typed, Quiet, Joins, NEW f \in Fnis, EnterJoin(f) \/ DeleteArrivals(f) \/ Fail(f), IsParallelJoin(f)
    PROVE  Joins'
<1>1. PICK st \in {"async", "finish", "error"} :
        /\ Step(f, st) /\ rows' = rows /\ diagram' = diagram /\ routing' = routing /\ task[f].step # "none"
        /\ st = "finish" => task[f].step = "delete"
        /\ \A t \in Tokens \cup {Unknown} : <<f, t>> \in gpa' => <<f, t>> \in gpa \/ t \in task[f].acc
  BY DEF EnterJoin, DeleteArrivals, Fail, dbVars
<1>2. task'[f].step = st /\ task'[f].mail = task[f].mail /\ task'[f].acc = task[f].acc
  BY <1>1, StepTyped DEF Steps, Typed
<1>d. /\ \A n : In(n)' = In(n)
      /\ \A n, tokens : Complete(n, tokens)' <=> Complete(n, tokens)
  BY <1>1, SameDiagram
<1>3. JoinTask(f)
  BY DEF Joins, JoinTasks
<1>4. JoinTask(f)'
  BY <1>1, <1>2, <1>3, <1>d DEF JoinTask, OnePerFlow
<1>5. Whole(f)'
  BY <1>1, <1>d DEF Joins, JoinComplete, Whole, IsParallelJoin
<1>6. ASSUME crashes = 0 PROVE Recorded(f)' /\ Collected(f)'
  <2>1. Recorded(f) /\ Collected(f)
    BY <1>6 DEF Joins, RecordsSound
  <2>2. \A t \in Tokens \cup {Unknown} : <<f, t>> \in gpa' => t \in task[f].acc
    BY <1>1, <2>1 DEF Recorded, Collected
  <2>3. Recorded(f)'
    BY <1>3, <2>1, <2>2 DEF Recorded, Collected, JoinTask, OnePerFlow
  <2>4. Collected(f)'
    BY <1>2, <2>1, <2>2 DEF Collected
  <2> QED BY <2>3, <2>4
<1> QED BY <1>4, <1>5, <1>6, JoinsOtherHandler, JoinsHandler DEF HandlerStep

\* A token that reaches the Task of a join took a flow no other did.
LEMMA JoinsReceive ==
    ASSUME Typed, Quiet, Joins, NEW f \in Fnis, Receive(f), IsParallelJoin(f)
    PROVE  Joins'
<1> DEFINE message == Head(task[f].mail)
           rest    == Tail(task[f].mail)
           tokens  == task[f].acc \cup {message}
<1>1. JoinTask(f) /\ task[f].mail # <<>> /\ task[f].mail \in Seq(Tokens \cup {Fire})
  BY DEF Joins, JoinTasks, Receive, Typed, TasksTyped, TaskRecords
<1>2. /\ message \in Tokens /\ message # Unknown
      /\ \A i \in DOMAIN rest : rest[i] # Fire
  <2>1. message = task[f].mail[1] /\ 1 \in DOMAIN task[f].mail
        /\ \A i \in DOMAIN rest : i + 1 \in DOMAIN task[f].mail /\ rest[i] = task[f].mail[i + 1]
    BY <1>1
  <2>2. message \in Tokens \cup {Fire}
    BY <1>1
  <2> HIDE DEF message, rest
  <2> QED BY <1>1, <2>1, <2>2, NoTokens DEF JoinTask
<1>3. PICK s \in {"delete", "receive", "error"}, acc \in {task[f].acc, tokens} :
        /\ task' = [task EXCEPT ![f] = [step |-> s, mail |-> rest, acc |-> acc]]
        /\ s = "delete" => acc = tokens /\ Complete(f[1], tokens)
        /\ \/ gpa' = gpa
           \/ gpa' = gpa \cup {<<f, message>>} /\ acc = tokens
        /\ acc # task[f].acc => message[1] \notin Arrived(task[f].acc)
  <2>1. message # Fire /\ Kind(f[1]) = "parallel"
    BY <1>2, NoTokens DEF IsParallelJoin
  <2> QED BY <2>1 DEF Receive
<1> HIDE DEF message, rest
<1>4. /\ task'[f] = [step |-> s, mail |-> rest, acc |-> acc]
      /\ UNCHANGED <<rows, diagram, routing, crashes>> /\ task[f].step = "receive"
  BY <1>3 DEF Receive, Typed, TasksTyped
<1>d. /\ \A n : In(n)' = In(n)
      /\ \A n, ts : Complete(n, ts)' <=> Complete(n, ts)
  BY <1>4, SameDiagram
<1>5. Unknown \notin acc /\ OnePerFlow(acc)
  <2>1. Unknown \notin task[f].acc /\ OnePerFlow(task[f].acc)
    BY <1>1 DEF JoinTask
  <2>2. acc = task[f].acc \/ (acc = tokens /\ \A t \in task[f].acc : t[1] # message[1])
    BY <1>3 DEF Arrived
  <2> QED BY <1>2, <2>1, <2>2 DEF OnePerFlow
<1>6. JoinTask(f)'
  <2>1. task'[f].step = s /\ task'[f].mail = rest /\ task'[f].acc = acc
    BY <1>4
  <2>2. s \in {"delete", "finish"} => Complete(f[1], acc)
    BY <1>3
  <2> HIDE DEF tokens
  <2> QED BY <1>2, <1>5, <1>d, <2>1, <2>2 DEF JoinTask, OnePerFlow
<1>7. Whole(f)'
  BY <1>4, <1>d DEF Joins, JoinComplete, Whole, IsParallelJoin
<1>8. ASSUME crashes = 0 PROVE Recorded(f)' /\ Collected(f)'
  <2>1. Recorded(f) /\ Collected(f)
    BY <1>8 DEF Joins, RecordsSound
  <2>2. <<f, Unknown>> \notin gpa' /\ \A t \in Tokens : <<f, t>> \in gpa' => t \in acc
    BY <1>2, <1>3, <1>4, <2>1 DEF Recorded, Collected
  <2>3. Recorded(f)'
    BY <1>5, <2>2 DEF Recorded, OnePerFlow
  <2>4. Collected(f)'
    BY <1>4, <1>5, <2>2 DEF Collected
  <2> QED BY <2>3, <2>4
<1> QED BY <1>6, <1>7, <1>8, JoinsOtherHandler, JoinsHandler DEF HandlerStep

\* A join finishes with the sources of its tokens, one on each incoming flow.
LEMMA JoinsFinish ==
    ASSUME Typed, Quiet, Joins, NEW f \in Fnis, FinishJoin(f), IsParallelJoin(f)
    PROVE  Joins'
<1> DEFINE sources == {token[2] : token \in task[f].acc} \ {NoFni}
<1>1. Step(f, "ok") /\ UNCHANGED <<gpa, diagram, routing, crashes>> /\ task[f].step = "finish"
  BY DEF FinishJoin
<1>2. task'[f].step = "ok" /\ task'[f].mail = task[f].mail /\ task'[f].acc = task[f].acc
  BY <1>1, StepTyped DEF Steps, Typed
<1>d. \A n : In(n)' = In(n)
  BY <1>1, SameDiagram
<1>3. JoinTask(f) /\ Unknown \notin task[f].acc /\ Complete(f[1], task[f].acc) /\ OnePerFlow(task[f].acc)
  BY <1>1 DEF Joins, JoinTasks, JoinTask
<1>4. task[f].acc \subseteq Tokens
  BY <1>3 DEF Typed, TasksTyped, TaskRecords
<1>5. \A t \in task[f].acc : t[1] \in In(f[1]) /\ t[1][1] = t[2][1] /\ t[2] \in Fnis
  BY <1>4, NoTokens DEF Joins, CarriedFits, Carried
<1>6. {t[1] : t \in task[f].acc} = In(f[1])
  BY <1>3, <1>5, CompleteIsAll DEF Typed, StateTyped
<1>7. {<<s[1], f[1]>> : s \in sources} = In(f[1])
  <2>1. \A t \in task[f].acc : t[1] = <<t[2][1], f[1]>>
    <3> TAKE t \in task[f].acc
    <3>1. t[1] \in diagram.flows /\ t[1][2] = f[1]
      BY <1>5 DEF In
    <3> QED BY <1>5, <3>1, FlowsOfDiagram DEF Typed, StateTyped
  <2>2. sources = {t[2] : t \in task[f].acc}
    BY <1>5, NoTokens
  <2> HIDE DEF sources
  <2>3. \A s \in sources : <<s[1], f[1]>> \in In(f[1])
    BY <1>6, <2>1, <2>2
  <2>4. ASSUME NEW flow \in In(f[1]) PROVE \E s \in sources : flow = <<s[1], f[1]>>
    <3>1. PICK t \in task[f].acc : t[1] = flow
      BY <1>6
    <3>2. t[2] \in sources /\ flow = <<t[2][1], f[1]>>
      BY <2>1, <2>2, <3>1
    <3> QED BY <3>2
  <2> QED BY <2>3, <2>4
<1>8. Whole(f)'
  <2> SUFFICES ASSUME rows'[f].state = "finished" PROVE {<<s[1], f[1]>> : s \in rows'[f].prev} = In(f[1])
    BY <1>d DEF Whole
  <2>1. CASE Live(rows[f].state)
    <3>1. sources # {}
      <4>1. In(f[1]) # {}
        <5>1. Cardinality(In(f[1])) > 1
          BY DEF IsParallelJoin, IsJoin
        <5> QED BY <5>1, FS_EmptySet
      <4> HIDE DEF sources
      <4> QED BY <1>7, <4>1
    <3>2. rows' = [rows EXCEPT ![f] = [state |-> "finished", prev |-> sources]]
      BY <2>1, <3>1 DEF FinishJoin
    <3> HIDE DEF sources
    <3>3. rows'[f].prev = sources
      BY <3>2 DEF Typed, RowsTyped
    <3> QED BY <1>7, <3>3
  <2>2. CASE ~Live(rows[f].state)
    <3>1. rows' = rows
      BY <2>2 DEF FinishJoin, End
    <3> QED BY <3>1 DEF Joins, JoinComplete, IsParallelJoin
  <2> QED BY <2>1, <2>2
<1>9. JoinTask(f)'
  BY <1>1, <1>2, <1>3 DEF JoinTask, OnePerFlow
<1>10. crashes = 0 => Recorded(f)' /\ Collected(f)'
  BY <1>1, <1>2 DEF Joins, RecordsSound, Recorded, Collected
<1> QED BY <1>8, <1>9, <1>10, JoinsOtherHandler, JoinsHandler DEF HandlerStep

-----------------------------------------------------------------------------
(* The PI's messages.                                                      *)

\* The PI ends an FNI, lets its Task wait, or kills it.
LEMMA JoinsMessage ==
    ASSUME Typed, Joins, NEW f \in Fnis,
           rows' = rows \/ \E s \in States \ {"none", "finished"} : rows' = End(f, s),
           \/ task' = task \/ task' = [task EXCEPT ![f] = NoTask]
           \/ task[f].step # "none" /\ Step(f, "receive"),
           UNCHANGED <<diagram, gpa, routing, crashes>>, pc' # "down", PendingFits'
    PROVE  Joins'
<1>1. RowsCalm
  <2>1. CASE rows' = rows
    BY <2>1 DEF RowsCalm
  <2>2. CASE \E s \in States \ {"none", "finished"} : rows' = End(f, s)
    <3>1. PICK s \in States \ {"none", "finished"} : rows' = End(f, s)
      BY <2>2
    <3>2. \A g \in Fnis : /\ rows'[g].prev = rows[g].prev
                          /\ rows'[g].state = IF g = f /\ Live(rows[f].state) THEN s ELSE rows[g].state
      BY <3>1, EndTyped DEF Typed
    <3> QED BY <3>2 DEF RowsCalm
  <2> QED BY <2>1, <2>2
<1>2. \A g \in Fnis : /\ TaskCalm(g)
                      /\ \/ task'[g] = task[g] \/ task'[g] = NoTask
                         \/ task'[g].acc = task[g].acc /\ task'[g].mail = task[g].mail
  <2>1. CASE task' = task \/ task' = [task EXCEPT ![f] = NoTask]
    BY <2>1 DEF TaskCalm, Typed, TasksTyped
  <2>2. CASE task[f].step # "none" /\ Step(f, "receive")
    <3>1. \A g \in Fnis : /\ task'[g].step = IF g = f THEN "receive" ELSE task[g].step
                          /\ task'[g].mail = task[g].mail /\ task'[g].acc = task[g].acc
      BY <2>2, StepTyped DEF Steps, Typed
    <3>2. \A g \in Fnis \ {f} : task'[g] = task[g]
      BY <2>2 DEF Step, Typed, TasksTyped
    <3> QED BY <2>2, <3>1, <3>2 DEF TaskCalm
  <2> QED BY <2>1, <2>2
<1>3. CarriedKept
  BY <1>2, KilledTask DEF CarriedKept, Carried
<1>4. RoutesCalm
  BY DEF RoutesCalm
<1> QED BY <1>1, <1>2, <1>3, <1>4, JoinsCalm

\* The tokens of an FNI that finished take flows of the diagram.
LEMMA JoinsOk ==
    ASSUME Typed, Joins, NEW f \in Fnis, HandleOk(f)
    PROVE  Joins'
<1>1. PICK flows \in Taken(f[1]) :
         \/ todo' = TokensOf(f, flows) /\ held' = held /\ pc' \in {"interrupt", "race"}
         \/ DispatchOrHold(TokensOf(f, flows))
  BY DEF HandleOk
<1> DEFINE new == TokensOf(f, flows)
<1>2. \A t \in new : t[1] \in diagram.flows
  BY TakenOut, TokensOfTyped DEF Typed, StateTyped
<1>3. /\ \/ todo' = new /\ held' = held
         \/ todo' = {} /\ held' = <<new>>
      /\ pc' # "down"
  BY <1>1 DEF DispatchOrHold
<1> HIDE DEF new
<1>4. UNCHANGED <<rows, gpa, diagram, routing, crashes>> /\ task' = [task EXCEPT ![f] = NoTask]
  BY DEF HandleOk, dbVars
<1>5. \A t \in Pending' : t \in new \/ t \in Pending
  BY <1>3 DEF Pending, HeldTokens
<1>6. PendingFits'
  BY <1>2, <1>4, <1>5 DEF Joins, PendingFits
<1> QED BY <1>3, <1>4, <1>6, JoinsMessage

\* What is pending was pending before.
LEMMA PendingKept ==
    ASSUME Joins, diagram' = diagram, Pending' \subseteq Pending
    PROVE  PendingFits'
BY DEF Joins, PendingFits

\* The other messages, and the end of one FNI, hand out no new token.
LEMMA JoinsOtherMessage ==
    ASSUME Typed, Joins,
           \/ \E f \in Fnis : HandleAsync(f) \/ HandleLoser(f) \/ HandleError(f)
           \/ CancelRival \/ ((Interrupt \/ Cascade) /\ \E g \in Fnis : Live(mem[g]))
    PROVE  Joins'
<1>s. \A s \in {"waiting", "interrupted", "fatal"} : s \in States \ {"none", "finished"}
  BY DEF States
<1>1. CASE \E f \in Fnis : HandleAsync(f)
  <2>1. PICK f \in Fnis : HandleAsync(f)
    BY <1>1
  <2>2. /\ rows' = End(f, "waiting") /\ Step(f, "receive") /\ task[f].step # "none" /\ pc' # "down"
        /\ UNCHANGED <<diagram, gpa, todo, held, routing, crashes>>
    BY <2>1 DEF HandleAsync, ebgVars
  <2>3. PendingFits'
    BY <2>2, PendingKept DEF Pending, HeldTokens
  <2> QED BY <1>s, <2>2, <2>3, JoinsMessage
<1>2. CASE \E f \in Fnis : HandleLoser(f)
  <2>1. PICK f \in Fnis : HandleLoser(f)
    BY <1>2
  <2>2. /\ rows' = End(f, "interrupted") /\ task' = [task EXCEPT ![f] = NoTask] /\ pc' # "down"
        /\ UNCHANGED <<diagram, gpa, routing, crashes>>
        /\ UNCHANGED <<todo, held>> \/ (held # <<>> /\ todo' = held[1] /\ held' = <<>>)
    BY <2>1 DEF HandleLoser
  <2>3. PendingFits'
    BY <2>2, PendingKept DEF Pending, HeldTokens
  <2> QED BY <1>s, <2>2, <2>3, JoinsMessage
<1>3. CASE \E f \in Fnis : HandleError(f)
  <2>1. PICK f \in Fnis : HandleError(f)
    BY <1>3
  <2>2. /\ rows' = End(f, "fatal") /\ task' = [task EXCEPT ![f] = NoTask] /\ pc' # "down"
        /\ UNCHANGED <<diagram, gpa, todo, held, routing, crashes>>
    BY <2>1 DEF HandleError, ebgVars
  <2>3. PendingFits'
    BY <2>2, PendingKept DEF Pending, HeldTokens
  <2> QED BY <1>s, <2>2, <2>3, JoinsMessage
<1>4. CASE CancelRival \/ ((Interrupt \/ Cascade) /\ \E g \in Fnis : Live(mem[g]))
  <2>1. PICK f \in Fnis, s \in {"interrupted", "fatal"} :
          rows' = End(f, s) /\ task' = [task EXCEPT ![f] = NoTask]
    BY <1>4 DEF CancelRival, LiveRivals, Rivals, Interrupt, Cascade
  <2>2. pc' # "down" /\ UNCHANGED <<diagram, gpa, todo, held, routing, crashes>>
    BY <1>4 DEF CancelRival, Interrupt, Cascade, ebgVars
  <2>3. PendingFits'
    BY <2>2, PendingKept DEF Pending, HeldTokens
  <2> QED BY <1>s, <2>1, <2>2, <2>3, JoinsMessage
<1> QED BY <1>1, <1>2, <1>3, <1>4

-----------------------------------------------------------------------------
(* Dispatching a token.                                                    *)

\* A pass of a join starts with the token that opens it.
LEMMA JoinsStart ==
    ASSUME Typed, Quiet, Once, Joins, NEW token \in todo, Dispatch(token), StartNew(token), PendingFits'
    PROVE  Joins'
<1>1. token \in Tokens /\ token \in Pending /\ token # Unknown
  BY NoTokens DEF Typed, TodoTyped, Pending
<1>2. /\ UNCHANGED <<diagram, gpa, crashes>> /\ pc = "dispatch" /\ pc' # "down" /\ IsUp
  BY DEF Dispatch, Consume, IsUp
<1>d. /\ \A n : In(n)' = In(n)
      /\ \A n, tokens : Complete(n, tokens)' <=> Complete(n, tokens)
      /\ \A f : IsParallelJoin(f)' <=> IsParallelJoin(f)
  BY <1>2, SameDiagram
<1>3. PICK f \in Fnis :
        /\ f[1] = token[1][2] /\ mem[f] = "none"
        /\ rows'[f].state = "active" /\ rows'[f].prev = {token[2]} /\ mem'[f] = "active"
        /\ task'[f].step = "enter" /\ task'[f].mail = <<>> /\ task'[f].acc \subseteq {token}
        /\ task'[f].acc # {} => IsJoin(f[1])
        /\ \A g \in Fnis \ {f} : rows'[g] = rows[g] /\ mem'[g] = mem[g] /\ task'[g] = task[g]
        /\ routing' = routing \/ routing' = [routing EXCEPT ![f[1]] = [fni |-> f, arrived |-> {token[1]}]]
  BY <1>1, StartMoves
<1>4. \A t : <<f, t>> \notin gpa
  <2>1. rows[f].state = "none"
    BY <1>2, <1>3 DEF Quiet, KnowsRows
  <2> QED BY <2>1 DEF Quiet, ArrivalsHaveRows
<1>5. DOMAIN task'[f].mail = {} /\ Unknown \notin task'[f].acc
  BY <1>1, <1>3
<1>6. CarriedFits'
  <2> SUFFICES ASSUME NEW g \in Fnis, NEW t \in Tokens, Carried(g, t)' PROVE t[1] \in In(g[1]) /\ t[1][1] = t[2][1]
    BY <1>d DEF CarriedFits
  <2>1. CASE g = f
    <3>1. t = token
      BY <1>2, <1>3, <1>4, <1>5, <2>1 DEF Carried
    <3>2. token[1] \in diagram.flows /\ token[1][1] = token[2][1]
      BY <1>1 DEF Joins, PendingFits, Once, OwnTokens
    <3> QED BY <1>3, <2>1, <3>1, <3>2 DEF In
  <2>2. CASE g # f
    <3>1. task'[g] = task[g]
      BY <1>3, <2>2
    <3>2. Carried(g, t)
      BY <1>2, <3>1 DEF Carried
    <3> QED BY <3>2 DEF Joins, CarriedFits
  <2> QED BY <2>1, <2>2
<1>7. JoinTasks'
  <2> SUFFICES ASSUME NEW g \in Fnis, IsParallelJoin(g) PROVE JoinTask(g)'
    BY <1>d DEF JoinTasks
  <2>1. CASE g = f
    <3>1. \A t, u \in task'[f].acc : t = u
      BY <1>3
    <3> QED BY <1>3, <1>5, <2>1, <3>1 DEF JoinTask, OnePerFlow
  <2>2. CASE g # f
    <3>1. JoinTask(g) /\ task'[g] = task[g]
      BY <1>3, <2>2 DEF Joins, JoinTasks
    <3>2. g[1] \in AllNodes /\ f[1] \in AllNodes
      BY NoTokens
    <3>3. routing[g[1]].fni # g => routing'[g[1]].fni # g
      BY <1>3, <2>2, <3>2 DEF Typed, RouteTyped
    <3> QED BY <1>d, <3>1, <3>3 DEF JoinTask, OnePerFlow
  <2> QED BY <2>1, <2>2
<1>8. RecordsSound'
  <2> SUFFICES ASSUME crashes = 0, NEW g \in Fnis, IsParallelJoin(g) PROVE Recorded(g)' /\ Collected(g)'
    BY <1>2, <1>d DEF RecordsSound
  <2>1. Recorded(g) /\ Collected(g)
    BY DEF Joins, RecordsSound
  <2>2. CASE g = f
    BY <1>2, <1>4, <1>5, <2>2 DEF Recorded, Collected
  <2>3. CASE g # f
    <3>1. task'[g] = task[g]
      BY <1>3, <2>3
    <3> QED BY <1>2, <2>1, <3>1 DEF Recorded, Collected
  <2> QED BY <2>2, <2>3
<1>9. CrashSeen'
  BY <1>2 DEF CrashSeen
<1>10. JoinComplete'
  BY <1>3, <1>d DEF Joins, JoinComplete, IsParallelJoin
<1> QED BY <1>6, <1>7, <1>8, <1>9, <1>10 DEF Joins

\* A further token goes to the Task of the pass that the PI has routed.
LEMMA RouteTask ==
    ASSUME Typed, NEW token \in Tokens, RouteToJoin(token)
    PROVE  \E f \in Fnis :
              /\ f = routing[token[1][2]].fni
              /\ \A g \in Fnis : task'[g].step = task[g].step /\ task'[g].acc = task[g].acc
              /\ \A g \in Fnis \ {f} : task'[g].mail = task[g].mail
              /\ \A i \in DOMAIN task'[f].mail :
                     task'[f].mail[i] = token \/ (i \in DOMAIN task[f].mail /\ task'[f].mail[i] = task[f].mail[i])
              /\ \A n \in AllNodes : routing'[n].fni \in {NoFni, routing[n].fni}
<1> DEFINE n == token[1][2]
           f == routing[n].fni
           t1 == task[f]
           q  == Append(t1.mail, token)
           t2 == [t1 EXCEPT !.mail = q]
<1>1. n \in AllNodes /\ f \in Fnis
  <2>1. n \in AllNodes
    BY TargetIsNode
  <2> QED BY <2>1 DEF RouteToJoin, LiveRoute, Typed, RouteTyped, RouteRecords
<1>2. task' = task \/ task' = [task EXCEPT ![f] = [task[f] EXCEPT !.mail = Append(task[f].mail, token)]]
  BY DEF RouteToJoin
<1>3. task[f] \in TaskRecords /\ task \in [Fnis -> TaskRecords]
  BY <1>1 DEF Typed, TasksTyped
<1>4. task' = task \/ task' = [task EXCEPT ![f] = t2]
  BY <1>2
<1>5. t1 \in TaskRecords /\ token \in Tokens \cup {Fire}
  BY <1>3
<1>6. PICK r : routing' = [routing EXCEPT ![n] = r] /\ (r = NoRoute \/ \E a : r = [routing[n] EXCEPT !.arrived = a])
  BY DEF RouteToJoin
<1>7. r.fni = NoFni \/ r.fni = routing[n].fni
  <2>1. routing[n] \in RouteRecords
    BY <1>1 DEF Typed, RouteTyped
  <2> QED BY <1>6, <2>1 DEF NoRoute, RouteRecords
<1>8. \A m \in AllNodes : routing'[m].fni \in {NoFni, routing[m].fni}
  BY <1>6, <1>7 DEF Typed, RouteTyped
<1>e. task[f] = t1 /\ f = routing[token[1][2]].fni
  OBVIOUS
<1> HIDE DEF t1, n
<1>9. /\ t2.step = t1.step /\ t2.acc = t1.acc /\ t2.mail = q
      /\ \A i \in DOMAIN q : q[i] = token \/ (i \in DOMAIN t1.mail /\ q[i] = t1.mail[i])
  BY <1>5, MailTyped
<1> HIDE DEF q, t2, f
<1>10. \A g \in Fnis \ {f} : task'[g] = task[g]
  BY <1>3, <1>4
<1>11. \/ task'[f] = t1
       \/ /\ task'[f].step = t1.step /\ task'[f].acc = t1.acc
          /\ \A i \in DOMAIN task'[f].mail :
                 task'[f].mail[i] = token \/ (i \in DOMAIN t1.mail /\ task'[f].mail[i] = t1.mail[i])
  BY <1>1, <1>3, <1>4, <1>9, <1>e
<1>12. /\ task'[f].step = task[f].step /\ task'[f].acc = task[f].acc
       /\ \A i \in DOMAIN task'[f].mail :
              task'[f].mail[i] = token \/ (i \in DOMAIN task[f].mail /\ task'[f].mail[i] = task[f].mail[i])
  BY <1>11, <1>e
<1> QED BY <1>1, <1>8, <1>10, <1>12, <1>e

\* No Task that was resumed from an arrival without a token is routed.
LEMMA JoinsRoute ==
    ASSUME Typed, Quiet, Once, Joins, NEW token \in todo, Dispatch(token), RouteToJoin(token), PendingFits'
    PROVE  Joins'
<1>1. token \in Tokens /\ token \in Pending /\ token # Fire /\ token[1][2] \in AllNodes
  BY NoTokens, TargetIsNode DEF Typed, TodoTyped, Pending
<1>2. /\ UNCHANGED <<diagram, gpa, rows, crashes>> /\ pc = "dispatch" /\ pc' # "down"
  BY DEF Dispatch, Consume, RouteToJoin
<1>d. /\ \A n : In(n)' = In(n)
      /\ \A n, tokens : Complete(n, tokens)' <=> Complete(n, tokens)
      /\ \A f : IsParallelJoin(f)' <=> IsParallelJoin(f)
  BY <1>2, SameDiagram
<1>3. PICK f \in Fnis :
        /\ f = routing[token[1][2]].fni
        /\ \A g \in Fnis : task'[g].step = task[g].step /\ task'[g].acc = task[g].acc
        /\ \A g \in Fnis \ {f} : task'[g].mail = task[g].mail
        /\ \A i \in DOMAIN task'[f].mail :
               task'[f].mail[i] = token \/ (i \in DOMAIN task[f].mail /\ task'[f].mail[i] = task[f].mail[i])
        /\ \A n \in AllNodes : routing'[n].fni \in {NoFni, routing[n].fni}
  BY <1>1, RouteTask
<1>4. f[1] = token[1][2]
  BY <1>1, <1>3, NoTokens DEF Once, RoutesOwn
<1>5. CarriedFits'
  <2> SUFFICES ASSUME NEW g \in Fnis, NEW t \in Tokens, Carried(g, t)' PROVE t[1] \in In(g[1]) /\ t[1][1] = t[2][1]
    BY <1>d DEF CarriedFits
  <2>1. Carried(g, t) \/ (g = f /\ t = token)
    BY <1>2, <1>3 DEF Carried
  <2>2. token[1] \in diagram.flows /\ token[1][1] = token[2][1]
    BY <1>1 DEF Joins, PendingFits, Once, OwnTokens
  <2> QED BY <1>4, <2>1, <2>2 DEF In, Joins, CarriedFits
<1>6. JoinTasks'
  <2> SUFFICES ASSUME NEW g \in Fnis, IsParallelJoin(g) PROVE JoinTask(g)'
    BY <1>d DEF JoinTasks
  <2>1. JoinTask(g) /\ task'[g].step = task[g].step /\ task'[g].acc = task[g].acc
    BY <1>3 DEF Joins, JoinTasks
  <2>2. routing[g[1]].fni # g => routing'[g[1]].fni # g
    BY <1>3, NoTokens
  <2>3. CASE g = f
    <3>1. Unknown \notin task'[g].acc
      BY <1>3, <1>4, <2>1, <2>3 DEF JoinTask
    <3>2. \A i \in DOMAIN task'[g].mail : task'[g].mail[i] # Fire
      BY <1>1, <1>3, <2>1, <2>3 DEF JoinTask
    <3> QED BY <1>d, <2>1, <3>1, <3>2 DEF JoinTask, OnePerFlow
  <2>4. CASE g # f
    <3>1. task'[g].mail = task[g].mail
      BY <1>3, <2>4
    <3> QED BY <1>d, <2>1, <2>2, <3>1 DEF JoinTask, OnePerFlow
  <2> QED BY <2>3, <2>4
<1>7. RecordsSound'
  <2> SUFFICES ASSUME crashes = 0, NEW g \in Fnis, IsParallelJoin(g) PROVE Recorded(g)' /\ Collected(g)'
    BY <1>2, <1>d DEF RecordsSound
  <2>1. Recorded(g) /\ Collected(g) /\ task'[g].step = task[g].step /\ task'[g].acc = task[g].acc
    BY <1>3 DEF Joins, RecordsSound
  <2> QED BY <1>2, <2>1 DEF Recorded, Collected
<1>8. CrashSeen'
  BY <1>2 DEF CrashSeen
<1>9. JoinComplete'
  BY <1>2, <1>d DEF Joins, JoinComplete, IsParallelJoin
<1> QED BY <1>5, <1>6, <1>7, <1>8, <1>9 DEF Joins

\* Whatever becomes of a token, the joins keep what they have.
LEMMA JoinsDispatch ==
    ASSUME Typed, Quiet, Once, Joins, NEW token \in todo, Dispatch(token)
    PROVE  Joins'
<1>1. /\ UNCHANGED <<diagram, gpa, held, crashes>> /\ todo' = todo \ {token} /\ pc' # "down"
  BY DEF Dispatch, Consume, ebgVars
<1>2. PendingFits'
  BY <1>1, PendingKept DEF Pending, HeldTokens
<1>3. CASE StartFails(token)
  <2>1. UNCHANGED <<rows, task, routing>>
    BY <1>3 DEF StartFails
  <2>2. CarriedKept /\ RowsCalm /\ RoutesCalm /\ \A f \in Fnis : TaskCalm(f)
    BY <1>1, <2>1 DEF CarriedKept, Carried, RowsCalm, RoutesCalm, TaskCalm
  <2> QED BY <1>1, <1>2, <2>2, JoinsCalm
<1>4. CASE DuplicateArrival(token)
  <2>1. PICK f \in Fnis : rows' = End(f, "fatal") /\ UNCHANGED <<task, routing>>
    <3>1. token[1][2] \in AllNodes
      BY TargetIsNode DEF Typed, TodoTyped
    <3> QED BY <1>4, <3>1 DEF DuplicateArrival, LiveRoute, Typed, RouteTyped, RouteRecords
  <2>2. "fatal" \in States \ {"none", "finished"}
    BY DEF States
  <2> QED BY <1>1, <1>2, <2>1, <2>2, JoinsMessage
<1> QED BY <1>2, <1>3, <1>4, JoinsStart, JoinsRoute DEF Dispatch

-----------------------------------------------------------------------------
(* The end of a message, the end of the engine, and its boot.              *)

\* Tasks die with the PI, the first crash included.
LEMMA JoinsStop ==
    ASSUME Typed, Joins, Stop, UNCHANGED <<rows, gpa, diagram>>,
           (crashes' = crashes /\ pc' # "down") \/ (crashes = 0 /\ crashes' = 1 /\ pc' = "down")
    PROVE  Joins'
<1>1. CarriedKept /\ \A f \in Fnis : TaskCalm(f)
  BY StopMoves DEF TaskCalm
<1>2. PendingFits' /\ RoutesCalm /\ RowsCalm
  BY DEF Stop, PendingFits, Pending, HeldTokens, RoutesCalm, RowsCalm
<1> QED BY <1>1, <1>2, JoinsCalm

\* Only inclusive joins are told to fire.
LEMMA JoinsEvaluate ==
    ASSUME Typed, Once, Joins, Evaluate
    PROVE  Joins'
<1>1. UNCHANGED <<rows, gpa, diagram, crashes>>
  BY EvaluateMoves
<1>2. CASE Stop /\ pc' = "ended"
  BY <1>1, <1>2, JoinsStop
<1>3. CASE ~(Stop /\ pc' = "ended")
  <2>1. CarriedKept /\ pc' # "down" /\ UNCHANGED <<todo, held>> /\ RoutesCalm
    BY <1>3, EvaluateMoves DEF RoutesCalm
  <2>2. PendingFits'
    BY <1>1, <2>1, PendingKept DEF Pending, HeldTokens
  <2>3. ASSUME NEW f \in Fnis, IsParallelJoin(f) PROVE TaskCalm(f)
    <3>1. \/ task'[f] = task[f]
          \/ \E n \in DOMAIN diagram.kind : ShouldFire(n) /\ routing[n].fni = f
      BY <1>3 DEF Evaluate
    <3>2. ASSUME NEW n \in DOMAIN diagram.kind, ShouldFire(n), routing[n].fni = f PROVE FALSE
      <4>1. n \in AllNodes
        BY DEF AllNodes, Typed, StateTyped
      <4>2. f[1] = n
        BY <3>2, <4>1, NoTokens DEF Once, RoutesOwn
      <4> QED BY <2>3, <3>2, <4>2 DEF ShouldFire, IsParallelJoin
    <3> QED BY <3>1, <3>2 DEF TaskCalm
  <2>4. RowsCalm
    BY <1>1 DEF RowsCalm
  <2> QED BY <1>1, <2>1, <2>2, <2>3, <2>4, JoinsCalm
<1> QED BY <1>2, <1>3

\* The orphans of a PI that has ended are aborted.
LEMMA JoinsCleanUp ==
    ASSUME Typed, Joins, CleanUp
    PROVE  Joins'
<1>1. UNCHANGED <<diagram, gpa, task, routing, todo, held, crashes>> /\ pc' = "ended"
  BY DEF CleanUp, ebgVars
<1>2. RowsCalm
  <2> SUFFICES ASSUME NEW f \in Fnis, rows'[f].state = "finished" PROVE rows'[f] = rows[f]
    BY DEF RowsCalm
  <2>1. rows[f] \in RowRecords
    BY DEF Typed, RowsTyped
  <2>2. [rows[f] EXCEPT !.state = "aborted"].state = "aborted"
    BY <2>1 DEF RowRecords
  <2> QED BY <2>2 DEF CleanUp
<1>3. PendingFits'
  BY <1>1, PendingKept DEF Pending, HeldTokens
<1>4. CarriedKept /\ RoutesCalm /\ \A f \in Fnis : TaskCalm(f)
  BY <1>1 DEF CarriedKept, Carried, RoutesCalm, TaskCalm
<1> QED BY <1>1, <1>2, <1>3, <1>4, JoinsCalm

\* The Task of a resumed parallel join has the tokens recorded for it, or, when
\* it is not the one the PI has routed, is entered without one.
LEMMA ResumedJoin ==
    ASSUME NEW f \in Fnis, IsParallelJoin(f)
    PROVE  \/ ResumedTask(f) = NoTask
           \/ /\ ResumedTask(f).acc = Arrivals(f) /\ ResumedTask(f).mail = <<>>
              /\ ResumedTask(f).step \in {"delete", "async"}
              /\ ResumedTask(f).step = "delete" => Complete(f[1], Arrivals(f))
           \/ /\ ResumedTask(f).acc = {Unknown} /\ ResumedTask(f).mail = <<>>
              /\ ResumedTask(f).step = "enter" /\ RebuiltRoute(f[1]).fni # f
<1>1. IsGateway(f[1]) /\ IsJoin(f[1]) /\ ~IsCatch(f[1])
  BY DEF IsParallelJoin, IsJoin, IsGateway, IsCatch
<1>2. NewTask({Unknown}).acc = {Unknown} /\ NewTask({Unknown}).mail = <<>> /\ NewTask({Unknown}).step = "enter"
  BY DEF NewTask
<1>3. CASE Live(rows[f].state) /\ RebuiltRoute(f[1]).fni = f
  <2> DEFINE s == IF Complete(f[1], Arrivals(f)) THEN "delete" ELSE "async"
  <2>1. ResumedTask(f) = [step |-> s, mail |-> <<>>, acc |-> Arrivals(f)]
    BY <1>1, <1>3 DEF ResumedTask
  <2> QED BY <2>1
<1>4. CASE ~Live(rows[f].state)
  BY <1>4 DEF ResumedTask
<1>5. CASE Live(rows[f].state) /\ RebuiltRoute(f[1]).fni # f
  <2>1. ResumedTask(f) = NewTask({Unknown}) \/ ResumedTask(f) = NoTask
    BY <1>1, <1>5 DEF ResumedTask
  <2> QED BY <1>2, <1>5, <2>1
<1> QED BY <1>3, <1>4, <1>5

\* After the first crash every join resumes from what it had collected.
LEMMA JoinsResume ==
    ASSUME Typed, Once, Joins, Resume, crashes <= 1
    PROVE  Joins'
<1>1. /\ UNCHANGED <<rows, gpa, diagram, crashes>> /\ pc = "down" /\ pc' # "down"
      /\ task' = [f \in Fnis |-> ResumedTask(f)]
      /\ \A n \in AllNodes : routing'[n] \in {RebuiltRoute(n), NoRoute}
  BY DEF Resume, dbVars
<1>2. crashes = 1
  BY <1>1 DEF Joins, CrashSeen, Typed, CountsTyped
<1>d. /\ \A n : In(n)' = In(n)
      /\ \A n, tokens : Complete(n, tokens)' <=> Complete(n, tokens)
      /\ \A f : IsParallelJoin(f)' <=> IsParallelJoin(f)
  BY <1>1, SameDiagram
<1>3. PendingFits' /\ CarriedKept
  BY <1>1, ResumeMoves DEF PendingFits
<1>4. CarriedFits'
  BY <1>d, <1>3 DEF Joins, CarriedFits, CarriedKept
<1>5. JoinTasks'
  <2> SUFFICES ASSUME NEW f \in Fnis, IsParallelJoin(f) PROVE JoinTask(f)'
    BY <1>d DEF JoinTasks
  <2>1. task'[f] = ResumedTask(f)
    BY <1>1
  <2>2. Recorded(f)
    BY <1>1, <1>2 DEF Joins, RecordsSound
  <2>3. Unknown \notin Arrivals(f) /\ OnePerFlow(Arrivals(f))
    <3>1. \A a \in gpa : a = <<a[1], a[2]>> /\ a[2] \in Tokens \cup {Unknown}
      BY DEF Typed, GpaTyped
    <3>2. \A t \in Arrivals(f) : <<f, t>> \in gpa /\ t \in Tokens \cup {Unknown}
      BY <3>1 DEF Arrivals
    <3> QED BY <2>2, <3>2 DEF Recorded, OnePerFlow
  <2>4. CASE ResumedTask(f) = NoTask
    BY <2>1, <2>4, KilledTask DEF JoinTask, OnePerFlow
  <2>5. CASE /\ ResumedTask(f).acc = Arrivals(f) /\ ResumedTask(f).mail = <<>>
             /\ ResumedTask(f).step \in {"delete", "async"}
             /\ ResumedTask(f).step = "delete" => Complete(f[1], Arrivals(f))
    <3>1. DOMAIN ResumedTask(f).mail = {}
      BY <2>5
    <3> QED BY <1>d, <2>1, <2>3, <2>5, <3>1 DEF JoinTask, OnePerFlow
  <2>6. CASE /\ ResumedTask(f).acc = {Unknown} /\ ResumedTask(f).mail = <<>>
             /\ ResumedTask(f).step = "enter" /\ RebuiltRoute(f[1]).fni # f
    <3>1. DOMAIN ResumedTask(f).mail = {}
      BY <2>6
    <3>2. routing'[f[1]].fni # f
      BY <1>1, <2>6, NoTokens DEF NoRoute
    <3> QED BY <2>1, <2>6, <3>1, <3>2 DEF JoinTask, OnePerFlow
  <2> QED BY <2>4, <2>5, <2>6, ResumedJoin
<1>6. RecordsSound' /\ CrashSeen'
  BY <1>1, <1>2 DEF RecordsSound, CrashSeen
<1>7. JoinComplete'
  BY <1>1, <1>d DEF Joins, JoinComplete, IsParallelJoin
<1> QED BY <1>3, <1>4, <1>5, <1>6, <1>7 DEF Joins

\* No step breaks it, until the engine stops a second time.
LEMMA JoinsStep ==
    Typed /\ Quiet /\ Once /\ JoinsOnceCrashed /\ [Next]_vars => JoinsOnceCrashed'
<1> SUFFICES ASSUME Typed, Quiet, Once, crashes <= 1 => Joins, [Next]_vars, crashes' <= 1 PROVE Joins'
  BY DEF JoinsOnceCrashed
<1>c. crashes \in Nat
  BY BoundsAssumption DEF Typed, CountsTyped
<1>1. CASE Crash
  <2>1. crashes' = crashes + 1 /\ Stop /\ pc' = "down" /\ UNCHANGED <<rows, gpa, diagram>>
    BY <1>1 DEF Crash, dbVars
  <2>2. crashes = 0
    BY <1>c, <2>1
  <2> QED BY <2>1, <2>2, JoinsStop
<1>2. CASE UNCHANGED vars
  BY <1>2, JoinsCalm DEF vars, dbVars, ebgVars, Joins, PendingFits, Pending, HeldTokens, CarriedKept, Carried,
                         RowsCalm, RoutesCalm, TaskCalm
<1>3. CASE \E f \in Fnis : HandlerStep(f) \/ Trigger(f) \/ Fail(f)
  <2>1. PICK f \in Fnis : HandlerStep(f) \/ Trigger(f) \/ Fail(f)
    BY <1>3
  <2>2. HandlerMoves(f)
    BY <2>1, HandlerMovesOwn
  <2>3. Joins
    BY <2>2 DEF HandlerMoves
  <2>4. CASE IsParallelJoin(f)
    <3>1. IsJoin(f[1]) /\ ~IsCatch(f[1])
      BY <2>4 DEF IsParallelJoin, IsCatch
    <3>2. EnterJoin(f) \/ Receive(f) \/ DeleteArrivals(f) \/ FinishJoin(f) \/ Fail(f)
      BY <2>1, <3>1 DEF HandlerStep, Enter, Park, Trigger
    <3> QED BY <2>3, <2>4, <3>2, JoinsEnter, JoinsReceive, JoinsFinish
  <2>5. CASE ~IsParallelJoin(f)
    BY <2>1, <2>3, <2>5, JoinsOtherHandler
  <2> QED BY <2>4, <2>5
<1>4. CASE \E f \in Fnis : HandleOk(f)
  <2>1. crashes' = crashes
    BY <1>4 DEF HandleOk
  <2> QED BY <1>4, <2>1, JoinsOk
<1>5. CASE \/ \E f \in Fnis : HandleAsync(f) \/ HandleLoser(f) \/ HandleError(f)
           \/ CancelRival \/ ((Interrupt \/ Cascade) /\ \E g \in Fnis : Live(mem[g]))
  <2>1. crashes' = crashes
    BY <1>5 DEF HandleAsync, HandleLoser, HandleError, CancelRival, Interrupt, Cascade
  <2> QED BY <1>5, <2>1, JoinsOtherMessage
<1>6. CASE StampRivals \/ TransitionToFatal \/ (Interrupt /\ ~\E g \in Fnis : Live(mem[g]))
  <2>1. UNCHANGED <<rows, gpa, task, diagram, routing, crashes>> /\ pc' # "down"
    BY <1>6 DEF StampRivals, TransitionToFatal, Interrupt, DispatchOrHold, dbVars
  <2>2. \/ UNCHANGED <<todo, held>>
        \/ todo' = {} /\ held' = <<todo>>
    BY <1>6 DEF StampRivals, TransitionToFatal, Interrupt, DispatchOrHold, ebgVars
  <2>3. PendingFits'
    BY <2>1, <2>2, PendingKept DEF Pending, HeldTokens
  <2>4. CarriedKept /\ RowsCalm /\ RoutesCalm /\ \A f \in Fnis : TaskCalm(f)
    BY <2>1 DEF CarriedKept, Carried, RowsCalm, RoutesCalm, TaskCalm
  <2> QED BY <2>1, <2>3, <2>4, JoinsCalm
<1>7. CASE \E token \in todo : Dispatch(token)
  <2>1. crashes' = crashes
    BY <1>7 DEF Dispatch
  <2> QED BY <1>7, <2>1, JoinsDispatch
<1>8. CASE Cascade /\ ~\E g \in Fnis : Live(mem[g])
  <2>1. Stop /\ UNCHANGED <<rows, gpa, diagram, crashes>> /\ pc' # "down"
    BY <1>8 DEF Cascade
  <2> QED BY <2>1, JoinsStop
<1>9. CASE Evaluate
  <2>1. crashes' = crashes
    BY <1>9 DEF Evaluate
  <2> QED BY <1>9, <2>1, JoinsEvaluate
<1>10. CASE CleanUp
  <2>1. crashes' = crashes
    BY <1>10 DEF CleanUp
  <2> QED BY <1>10, <2>1, JoinsCleanUp
<1>11. CASE Resume
  <2>1. crashes' = crashes
    BY <1>11 DEF Resume
  <2> QED BY <1>11, <2>1, JoinsResume
<1> QED BY <1>1, <1>2, <1>3, <1>4, <1>5, <1>6, <1>7, <1>8, <1>9, <1>10, <1>11 DEF Next, InstanceStep

\* Until the engine stops a second time, a parallel join that finished took one
\* token from each of its incoming flows, on every diagram and whatever failed.
\* (join_receive_loop, fire_join, handle_resume, rebuild_join_routing)
THEOREM JoinTakesEveryFlow == Spec => [](crashes <= 1 => JoinComplete)
<1>1. JoinsOnceCrashed => (crashes <= 1 => JoinComplete)
  BY DEF JoinsOnceCrashed, Joins
<1>2. Init => JoinsOnceCrashed
  BY JoinsInit DEF JoinsOnceCrashed
<1> QED BY <1>1, <1>2, TypedInit, TypedStep, QuietInit, QuietStep, OnceInit, OnceStep, JoinsStep, PTL DEF Spec
-----------------------------------------------------------------------------
(* No token is lost.                                                       *)

\* Until the engine stops or a terminate end event finishes, and with no
\* event-based gateway, which has one place to hold the tokens of all races.
NoEventGateway == \A n \in DOMAIN diagram.kind : Kind(n) # "eventGateway"
Calm == crashes = 0 /\ NoEventGateway /\ ~TerminateFinished

\* An FNI has failed, and the PI will.
Failing == piRow = "fatal" \/ pc \in {"fail", "cascade"} \/ \E f \in Fnis : mem[f] = "fatal"

\* Nothing is held, cancelled or interrupted, and the PI has seen to a failure
\* by the end of its message.
Peaceful ==
    /\ losers = {} /\ held = <<>> /\ pc \notin {"race", "interrupt"}
    /\ piRow = "fatal" => pc \in {"cascade", "ended"}
    /\ pc = "cascade" => piRow = "fatal"
    /\ (\E f \in Fnis : mem[f] = "fatal") => pc \in {"dispatch", "evaluate", "fail", "cascade"}

\* A Task runs while its FNI is live in the PI's memory, and has finished its row
\* when it reports success.
Matched(f) ==
    /\ task[f].step = "none" => task[f].acc = {} /\ task[f].mail = <<>>
    /\ task[f].step # "none" <=> Live(mem[f])
    /\ task[f].step \notin {"none", "ok"} => Live(rows[f].state)
    /\ task[f].step = "ok" => rows[f].state = "finished"
    /\ rows[f].state = "none" => rows[f].prev = {}

\* Only joins collect.
Empty(f) == task[f].acc = {} /\ task[f].mail = <<>> /\ task[f].step \notin {"delete", "finish"}

\* No token that a parallel join was sent takes a flow that another took, and the
\* PI knows of them all while it has the join routed.
Distinct(f) ==
    /\ \A i, j \in DOMAIN task[f].mail : task[f].mail[i][1] = task[f].mail[j][1] => i = j
    /\ \A i \in DOMAIN task[f].mail : task[f].mail[i][1] \notin Arrived(task[f].acc)
    /\ routing[f[1]].fni = f =>
          /\ routing[f[1]].arrived \subseteq In(f[1]) /\ ~Complete(f[1], routing[f[1]].arrived)
          /\ Arrived(task[f].acc) \subseteq routing[f[1]].arrived
          /\ \A i \in DOMAIN task[f].mail : task[f].mail[i][1] \in routing[f[1]].arrived

\* A join that fires has taken all it was sent, it has the token of every source
\* its row names, and then its row names the source of every token.
Passing(f) ==
    /\ task[f].acc \subseteq Tokens
    /\ task[f].step \in {"delete", "finish", "ok"} => task[f].mail = <<>> /\ routing[f[1]].fni # f
    /\ task[f].step = "ok" => \A t \in task[f].acc : t[2] \in rows[f].prev
    /\ task[f].step \notin {"none", "ok"} => \A s \in rows[f].prev : \E t \in task[f].acc : t[2] = s
    /\ \A i \in DOMAIN task[f].mail :
           task[f].mail[i] = Fire => i = Len(task[f].mail) /\ routing[f[1]].fni # f
    /\ Kind(f[1]) = "parallel" => Distinct(f)

Sound(f) == Matched(f) /\ (IF IsJoin(f[1]) THEN Passing(f) ELSE Empty(f))

\* A token that an FNI of the node it goes to has consumed, collected or been sent.
Has(g, t) ==
    /\ g[1] = t[1][2]
    /\ t[2] \in rows[g].prev \/ t \in task[g].acc \/ \E i \in DOMAIN task[g].mail : task[g].mail[i] = t

\* The flows on which a token of f is to be dispatched or has been.
Onward(f) == {flow \in Out(f[1]) : <<flow, f>> \in todo \/ \E g \in Fnis : Has(g, <<flow, f>>)}

JoinsRouted == \A n \in DOMAIN diagram.kind : routing[n].fni # NoFni => IsJoin(n)
Dispatching == todo # {} => pc = "dispatch"
GoneOnward ==
    \A f \in Fnis : rows[f].state = "finished" /\ task[f].step = "none" => Onward(f) \in Selections(f[1])

Flowing == (\A f \in Fnis : Sound(f)) /\ JoinsRouted /\ Dispatching /\ GoneOnward

Kept == Calm => Peaceful /\ (~Failing => Flowing)
-----------------------------------------------------------------------------
(* What ends stays ended, and what fails goes on to.                        *)

\* A row that has ended is not written again.
LEMMA EndedStays ==
    ASSUME Typed, Quiet, [Next]_vars, NEW f \in Fnis,
           rows[f].state # "none", ~Live(rows[f].state)
    PROVE  rows'[f] = rows[f]
<1>e. \A g \in Fnis : \A s : rows' = End(g, s) => rows'[f] = rows[f]
  BY DEF End, Typed, RowsTyped
<1>1. CASE UNCHANGED vars
  BY <1>1 DEF vars, dbVars
<1>2. CASE \E g \in Fnis : HandlerStep(g) \/ Trigger(g) \/ Fail(g)
  <2>1. PICK g \in Fnis : HandlerStep(g) \/ Trigger(g) \/ Fail(g)
    BY <1>2
  <2>2. CASE FinishJoin(g)
    <3>1. \/ \E r : Live(rows[g].state) /\ rows' = [rows EXCEPT ![g] = r]
          \/ rows' = End(g, "finished")
      BY <2>2 DEF FinishJoin
    <3> QED BY <1>e, <3>1 DEF Typed, RowsTyped
  <2>3. CASE ~FinishJoin(g)
    <3>1. rows' = rows \/ \E s : rows' = End(g, s)
      BY <2>1, <2>3 DEF HandlerStep, Enter, EnterJoin, Park, Receive, DeleteArrivals, Trigger, Fail, dbVars
    <3> QED BY <1>e, <3>1
  <2> QED BY <2>2, <2>3
<1>3. CASE InstanceStep /\ ~\E token \in todo : Dispatch(token)
  <2>1. rows' = rows \/ \E g \in Fnis : \E s : rows' = End(g, s)
    BY <1>3 DEF InstanceStep, HandleAsync, HandleOk, HandleLoser, HandleError, CancelRival, LiveRivals, Rivals,
                StampRivals, Interrupt, Evaluate, TransitionToFatal, Cascade, dbVars
  <2> QED BY <1>e, <2>1
<1>4. CASE \E token \in todo : Dispatch(token)
  <2>1. PICK token \in todo : Dispatch(token)
    BY <1>4
  <2>2. token \in Tokens /\ token[1][2] \in AllNodes
    BY <2>1, TargetIsNode DEF Typed, TodoTyped
  <2>3. CASE StartNew(token)
    <3>1. PICK g \in Fnis : mem[g] = "none" /\ rows'[f] = IF f = g THEN rows'[f] ELSE rows[f]
      <4>1. PICK g \in NewFnis(token[1][2]) : \E r : rows' = [rows EXCEPT ![g] = r]
        BY <2>3 DEF StartNew
      <4> QED BY <4>1, FreeEntry DEF Typed, RowsTyped
    <3>2. mem[f] # "none"
      BY <2>1 DEF Quiet, KnowsRows, IsUp, Dispatch
    <3> QED BY <3>1, <3>2
  <2>4. CASE DuplicateArrival(token)
    <3>1. routing[token[1][2]].fni \in Fnis
      BY <2>2, <2>4 DEF DuplicateArrival, LiveRoute, Typed, RouteTyped, RouteRecords
    <3> QED BY <1>e, <2>4, <3>1 DEF DuplicateArrival
  <2> QED BY <2>1, <2>3, <2>4 DEF Dispatch, StartFails, RouteToJoin
<1>5. CASE Crash \/ CleanUp \/ Resume
  BY <1>5 DEF Crash, CleanUp, Resume, dbVars
<1> QED BY <1>1, <1>2, <1>3, <1>4, <1>5 DEF Next

\* The diagram stays, and the count of crashes grows.
LEMMA DiagramStays ==
    ASSUME Typed, [Next]_vars
    PROVE  /\ diagram' = diagram
           /\ crashes' = 0 => crashes = 0 /\ ~Crash
<1>c. crashes \in Nat
  BY BoundsAssumption DEF Typed, CountsTyped
<1>1. CASE UNCHANGED vars \/ Crash \/ CleanUp \/ Resume
  <2>1. Crash => crashes' = crashes + 1
    BY DEF Crash
  <2> QED BY <1>1, <1>c, <2>1 DEF vars, Crash, CleanUp, Resume
<1>2. CASE \E g \in Fnis : HandlerStep(g) \/ Trigger(g) \/ Fail(g)
  <2>1. UNCHANGED <<diagram, crashes>> /\ ~Crash
    <3>1. UNCHANGED <<diagram, crashes>>
      BY <1>2 DEF HandlerStep, Enter, EnterJoin, Park, Receive, DeleteArrivals, FinishJoin, Trigger, Fail
    <3>2. Crash => crashes' = crashes + 1
      BY DEF Crash
    <3> QED BY <1>c, <3>1, <3>2
  <2> QED BY <2>1
<1>3. CASE InstanceStep
  <2>1. UNCHANGED <<diagram, crashes>>
    BY <1>3 DEF InstanceStep, HandleAsync, HandleOk, HandleLoser, HandleError, CancelRival,
                StampRivals, Dispatch, Interrupt, Evaluate, TransitionToFatal, Cascade
  <2>2. Crash => crashes' = crashes + 1
    BY DEF Crash
  <2> QED BY <1>c, <2>1, <2>2
<1> QED BY <1>1, <1>2, <1>3 DEF Next

\* What is calm now was calm before.
LEMMA CalmBefore ==
    ASSUME Typed, Quiet, [Next]_vars, Calm'
    PROVE  Calm /\ diagram' = diagram /\ ~Crash
<1>1. diagram' = diagram /\ crashes = 0 /\ ~Crash
  BY DiagramStays DEF Calm
<1>2. \A n : Kind(n)' = Kind(n)
  BY <1>1 DEF Kind
<1>3. NoEventGateway
  BY <1>1, <1>2 DEF Calm, NoEventGateway
<1>4. ~TerminateFinished
  <2> SUFFICES ASSUME NEW f \in Fnis, rows[f].state = "finished", Kind(f[1]) = "terminate" PROVE FALSE
    BY DEF TerminateFinished
  <2>1. rows'[f] = rows[f]
    BY EndedStays DEF Live
  <2> QED BY <1>2, <2>1 DEF Calm, TerminateFinished
<1> QED BY <1>1, <1>3, <1>4 DEF Calm

\* With no event-based gateway there is nothing to cancel.
LEMMA NoRivals ==
    ASSUME Typed, Race, NoEventGateway, NEW f \in Fnis
    PROVE  LiveRivals(f) = {}
<1> SUFFICES ASSUME NEW e \in rows[f].prev, Kind(e[1]) = "eventGateway" PROVE FALSE
  BY DEF LiveRivals, Rivals
<1>1. e \in Fnis
  BY DEF Typed, RowsTyped, RowRecords
<1>2. <<e[1], f[1]>> \in diagram.flows
  BY <1>1 DEF Race, FlowsOnly, Claims
<1> DEFINE flow == <<e[1], f[1]>>
<1>3. flow[1] \in DOMAIN diagram.kind
  BY <1>2, FlowsOfDiagram DEF Typed, StateTyped
<1> QED BY <1>3 DEF NoEventGateway

\* A result that the PI accepts: the tokens of the FNI are dispatched at once.
LEMMA OkGoesOn ==
    ASSUME Typed, Race, Calm, Peaceful, ~Failing => Flowing, NEW f \in Fnis, HandleOk(f)
    PROVE  /\ Flowing /\ rows[f].state = "finished" /\ UNCHANGED <<losers, held>>
           /\ \E flows \in Selections(f[1]) :
                  todo' = TokensOf(f, flows) /\ pc' = IF todo' = {} THEN "evaluate" ELSE "dispatch"
<1>1. pc = "idle" /\ task[f].step = "ok" /\ losers' = losers
  BY DEF HandleOk
<1>2. Flowing
  BY <1>1 DEF Peaceful, Failing
<1>3. rows[f].state = "finished"
  BY <1>1, <1>2 DEF Flowing, Sound, Matched
<1>4. Kind(f[1]) # "terminate"
  BY <1>3 DEF Calm, TerminateFinished
<1>5. LiveRivals(f) = {}
  BY NoRivals DEF Calm
<1>6. PICK flows \in Taken(f[1]) : DispatchOrHold(TokensOf(f, flows))
  BY <1>4, <1>5 DEF HandleOk
<1>7. flows \in Selections(f[1])
  BY DEF Taken
<1>8. todo' = TokensOf(f, flows) /\ held' = held /\ pc' = IF todo' = {} THEN "evaluate" ELSE "dispatch"
  BY <1>1, <1>6 DEF DispatchOrHold, Peaceful
<1> QED BY <1>1, <1>2, <1>3, <1>7, <1>8

\* A failure is not forgotten.
LEMMA FailingStays ==
    ASSUME Typed, Quiet, Race, Peaceful, Failing, [Next]_vars, ~Crash
    PROVE  Failing'
<1>d. pc # "down"
  BY DEF Race
<1>1. CASE UNCHANGED vars
  BY <1>1 DEF vars, dbVars, Failing
<1>2. CASE \E g \in Fnis : HandlerStep(g) \/ Trigger(g) \/ Fail(g)
  BY <1>2, HandlerMovesOwn DEF HandlerMoves, Failing
<1>3. CASE \E f \in Fnis : HandleAsync(f) \/ HandleOk(f) \/ HandleLoser(f) \/ HandleError(f)
  BY <1>3 DEF HandleAsync, HandleOk, HandleLoser, HandleError, Peaceful, Failing
<1>4. CASE CancelRival \/ StampRivals \/ Interrupt
  BY <1>4 DEF CancelRival, StampRivals, Interrupt, Peaceful
<1>5. CASE \E token \in todo : Dispatch(token)
  <2>1. PICK token \in todo : Dispatch(token)
    BY <1>5
  <2>2. pc = "dispatch" /\ piRow' = piRow
    BY <2>1 DEF Dispatch
  <2>3. PICK f \in Fnis : mem[f] = "fatal"
    BY <2>2 DEF Failing, Peaceful
  <2>4. token \in Tokens /\ token[1][2] \in AllNodes
    BY <2>1, TargetIsNode DEF Typed, TodoTyped
  <2>5. CASE StartNew(token) \/ StartFails(token)
    <3>1. PICK g \in NewFnis(token[1][2]), s \in {"active", "fatal"} : mem' = [mem EXCEPT ![g] = s]
      BY <2>5 DEF StartNew, StartFails
    <3>2. g \in Fnis /\ mem[g] = "none"
      BY FreeEntry
    <3>3. mem'[f] = "fatal"
      BY <2>3, <3>1, <3>2 DEF Typed, MemTyped
    <3> QED BY <3>3 DEF Failing
  <2>6. CASE RouteToJoin(token)
    BY <2>3, <2>6 DEF RouteToJoin, Failing
  <2>7. CASE DuplicateArrival(token)
    <3>1. mem' = [mem EXCEPT ![routing[token[1][2]].fni] = "fatal"]
      BY <2>7 DEF DuplicateArrival
    <3>2. mem'[f] = "fatal"
      BY <2>3, <3>1 DEF Typed, MemTyped
    <3> QED BY <3>2 DEF Failing
  <2> QED BY <2>1, <2>5, <2>6, <2>7 DEF Dispatch
<1>6. CASE Evaluate
  <2>1. piRow # "fatal" /\ pc = "evaluate"
    BY <1>6 DEF Evaluate, Peaceful
  <2>2. \E f \in Fnis : mem[f] = "fatal"
    BY <2>1 DEF Failing
  <2>3. piRow' = "fatal"
    BY <1>6, <2>2 DEF Evaluate
  <2> QED BY <2>3 DEF Failing
<1>7. CASE TransitionToFatal \/ Cascade
  BY <1>7 DEF TransitionToFatal, Cascade, Peaceful, Failing
<1>8. CASE CleanUp \/ Resume
  BY <1>d, <1>8 DEF CleanUp, Resume
<1> QED BY <1>1, <1>2, <1>3, <1>4, <1>5, <1>6, <1>7, <1>8 DEF Next, InstanceStep

\* The peace is kept.
LEMMA PeacefulStep ==
    ASSUME Typed, Quiet, Race, Calm, Peaceful, ~Failing => Flowing, [Next]_vars, ~Crash
    PROVE  Peaceful'
<1>d. pc # "down"
  BY DEF Race
<1>1. CASE UNCHANGED vars
  BY <1>1 DEF vars, dbVars, ebgVars, Peaceful
<1>2. CASE \E g \in Fnis : HandlerStep(g) \/ Trigger(g) \/ Fail(g)
  BY <1>2, HandlerMovesOwn DEF HandlerMoves, Peaceful
<1>3. CASE \E f \in Fnis : HandleAsync(f) \/ HandleError(f)
  BY <1>3 DEF HandleAsync, HandleError, ebgVars, Peaceful, Typed, MemTyped
<1>4. CASE \E f \in Fnis : HandleOk(f)
  <2>1. PICK f \in Fnis : HandleOk(f)
    BY <1>4
  <2>2. UNCHANGED <<losers, held>> /\ pc' \in {"evaluate", "dispatch"}
    BY <2>1, OkGoesOn
  <2>3. pc = "idle" /\ piRow' = piRow /\ mem' = [mem EXCEPT ![f] = "finished"]
    BY <2>1 DEF HandleOk, dbVars
  <2> QED BY <2>2, <2>3 DEF Peaceful, Typed, MemTyped
<1>5. CASE (\E f \in Fnis : HandleLoser(f)) \/ CancelRival \/ StampRivals \/ Interrupt
  BY <1>5 DEF HandleLoser, CancelRival, StampRivals, Interrupt, Peaceful
<1>6. CASE \E token \in todo : Dispatch(token)
  BY <1>6 DEF Dispatch, Consume, ebgVars, Peaceful
<1>7. CASE Evaluate
  <2>1. piRow # "fatal"
    BY <1>7 DEF Evaluate, Peaceful
  <2>2. CASE Stop /\ pc' = "ended" /\ piRow' = "finished"
    BY <2>2 DEF Stop, Peaceful
  <2>3. CASE ~(Stop /\ pc' = "ended" /\ piRow' = "finished")
    <3>1. /\ IF \E f \in Fnis : mem[f] = "fatal" THEN piRow' = "fatal" /\ pc' = "cascade"
             ELSE pc' = "idle" /\ piRow' = piRow
          /\ UNCHANGED <<mem, losers, held>>
      BY <1>7, <2>3 DEF Evaluate, ebgVars
    <3> QED BY <2>1, <3>1 DEF Peaceful
  <2> QED BY <2>2, <2>3
<1>8. CASE TransitionToFatal
  BY <1>8 DEF TransitionToFatal, ebgVars, Peaceful
<1>9. CASE Cascade
  <2>1. pc = "cascade" /\ piRow = "fatal" /\ piRow' = "fatal"
    BY <1>9 DEF Cascade, Peaceful
  <2>2. CASE pc' = "ended" /\ Stop
    BY <2>1, <2>2 DEF Stop, Peaceful
  <2>3. CASE UNCHANGED <<pc, losers, held>>
    BY <2>1, <2>3 DEF Peaceful
  <2> QED BY <1>9, <2>2, <2>3 DEF Cascade, ebgVars
<1>10. CASE CleanUp \/ Resume
  BY <1>d, <1>10 DEF CleanUp, Resume
<1> QED BY <1>1, <1>2, <1>3, <1>4, <1>5, <1>6, <1>7, <1>8, <1>9, <1>10 DEF Next, InstanceStep

-----------------------------------------------------------------------------
(* What keeps the flow.                                                    *)

\* The nodes of an instance do not change.
LEMMA SameNodes ==
    ASSUME diagram' = diagram
    PROVE  /\ \A n : In(n)' = In(n) /\ Out(n)' = Out(n) /\ Kind(n)' = Kind(n) /\ (IsJoin(n)' <=> IsJoin(n))
           /\ \A n : Selections(n)' = Selections(n)
           /\ \A n, tokens : Complete(n, tokens)' <=> Complete(n, tokens)
<1>1. \A n : In(n)' = In(n) /\ Out(n)' = Out(n) /\ Kind(n)' = Kind(n)
  BY DEF In, Out, Kind
<1>2. \A n : IsJoin(n)' <=> IsJoin(n)
  BY <1>1 DEF IsJoin, IsGateway
<1>3. \A n : Selections(n)' = Selections(n)
  BY <1>1, <1>2 DEF Selections
<1>4. \A n, tokens : Complete(n, tokens)' <=> Complete(n, tokens)
  BY <1>1 DEF Complete
<1> QED BY <1>1, <1>2, <1>3, <1>4

\* An FNI that is left alone stays sound.
LEMMA SoundKept ==
    ASSUME NEW f \in Fnis, Sound(f), diagram' = diagram, task'[f] = task[f], rows'[f] = rows[f],
           Live(mem'[f]) <=> Live(mem[f]),
           routing'[f[1]].fni = f => routing'[f[1]] = routing[f[1]]
    PROVE  Sound(f)'
<1>n. /\ \A n : In(n)' = In(n) /\ Kind(n)' = Kind(n) /\ (IsJoin(n)' <=> IsJoin(n))
      /\ \A n, tokens : Complete(n, tokens)' <=> Complete(n, tokens)
  BY SameNodes
<1>1. Matched(f)'
  BY DEF Sound, Matched
<1>2. Empty(f) => Empty(f)'
  BY DEF Empty
<1>3. Distinct(f) => Distinct(f)'
  BY <1>n DEF Distinct
<1>4. Passing(f) => Passing(f)'
  BY <1>n, <1>3 DEF Passing
<1> QED BY <1>n, <1>1, <1>2, <1>4 DEF Sound

\* A token of its source that is under way or has arrived.
UnderWay(t) == t \in todo \/ \E g \in Fnis : Has(g, t)
OwnFlow(t)  == t[1][1] = t[2][1]

\* The tokens on a flow of an FNI.
LEMMA OnwardTokens ==
    ASSUME Typed, NEW f \in Fnis, NEW flow \in Out(f[1])
    PROVE  <<flow, f>> \in Tokens /\ OwnFlow(<<flow, f>>)
<1>1. flow \in diagram.flows /\ flow[1] = f[1]
  BY DEF Out
<1>2. flow \in AllFlows
  BY <1>1, FlowsOfDiagram DEF Typed, StateTyped
<1> QED BY <1>1, <1>2 DEF Tokens, OwnFlow

\* If no token appears or disappears, they went on as they did.
LEMMA FlowsOn ==
    ASSUME Typed, Flowing, diagram' = diagram, \A f \in Fnis : Sound(f)', JoinsRouted', Dispatching',
           \A f \in Fnis : rows'[f].state = "finished" /\ task'[f].step = "none" =>
                               rows[f].state = "finished" /\ task[f].step = "none",
           \A t \in Tokens : OwnFlow(t) => (UnderWay(t)' <=> UnderWay(t))
    PROVE  Flowing'
<1>1. ASSUME NEW f \in Fnis PROVE Onward(f)' = Onward(f)
  <2>1. Out(f[1])' = Out(f[1])
    BY SameNodes
  <2>2. Onward(f)' = {flow \in Out(f[1]) : UnderWay(<<flow, f>>)'}
    BY <2>1 DEF Onward, UnderWay
  <2>3. Onward(f) = {flow \in Out(f[1]) : UnderWay(<<flow, f>>)}
    BY DEF Onward, UnderWay
  <2>4. ASSUME NEW flow \in Out(f[1]) PROVE UnderWay(<<flow, f>>)' <=> UnderWay(<<flow, f>>)
    BY OnwardTokens
  <2> QED BY <2>2, <2>3, <2>4
<1>2. GoneOnward'
  BY <1>1, SameNodes DEF Flowing, GoneOnward
<1> QED BY <1>2 DEF Flowing

\* A handler lets the flow be if its own FNI stays sound and has the same tokens.
LEMMA FlowingHandler ==
    ASSUME Typed, Flowing, NEW f \in Fnis, HandlerMoves(f), \A g \in Fnis \ {f} : task'[g] = task[g],
           Sound(f)', task'[f].step # "none", \A t \in Tokens : OwnFlow(t) => (Has(f, t)' <=> Has(f, t))
    PROVE  Flowing'
<1>h. /\ UNCHANGED <<diagram, pc, todo, mem, routing>>
      /\ \A g \in Fnis \ {f} : rows'[g] = rows[g]
  BY DEF HandlerMoves
<1>1. ASSUME NEW g \in Fnis PROVE Sound(g)'
  BY <1>h, SoundKept DEF Flowing
<1>2. JoinsRouted'
  BY <1>h, SameNodes DEF Flowing, JoinsRouted
<1>3. Dispatching'
  BY <1>h DEF Flowing, Dispatching
<1>4. ASSUME NEW t \in Tokens, OwnFlow(t) PROVE UnderWay(t)' <=> UnderWay(t)
  <2>1. \A g \in Fnis \ {f} : Has(g, t)' <=> Has(g, t)
    BY <1>h DEF Has
  <2> QED BY <1>h, <1>4, <2>1 DEF UnderWay
<1> QED BY <1>h, <1>1, <1>2, <1>3, <1>4, FlowsOn

\* A Task that takes a step with what it has.
LEMMA StepSound ==
    ASSUME Typed, NEW f \in Fnis, Sound(f), NEW st \in Steps \ {"none"}, Step(f, st),
           task[f].step \notin {"none", "ok"},
           UNCHANGED <<diagram, routing>>, Live(mem'[f]), rows'[f].prev = rows[f].prev,
           IF st = "ok" THEN rows'[f].state = "finished" /\ ~IsJoin(f[1]) ELSE Live(rows'[f].state),
           st \in {"delete", "finish"} => task[f].step = "delete"
    PROVE  Sound(f)' /\ \A t : Has(f, t)' <=> Has(f, t)
<1>n. /\ \A n : In(n)' = In(n) /\ Kind(n)' = Kind(n) /\ (IsJoin(n)' <=> IsJoin(n))
      /\ \A n, tokens : Complete(n, tokens)' <=> Complete(n, tokens)
  BY SameNodes
<1>1. task'[f].step = st /\ task'[f].mail = task[f].mail /\ task'[f].acc = task[f].acc
  BY StepTyped DEF Typed
<1>2. Matched(f)'
  BY <1>1 DEF Matched, Live
<1>3. ~IsJoin(f[1]) => Empty(f)'
  BY <1>1 DEF Sound, Empty
<1>4. Distinct(f) => Distinct(f)'
  BY <1>n, <1>1 DEF Distinct
<1>5. IsJoin(f[1]) => Passing(f)'
  BY <1>n, <1>1, <1>4 DEF Sound, Passing
<1>6. \A t : Has(f, t)' <=> Has(f, t)
  BY <1>1 DEF Has
<1> QED BY <1>n, <1>2, <1>3, <1>5, <1>6 DEF Sound

\* Every step of a handler but taking a message and finishing a join is one.
LEMMA FlowingStep ==
    ASSUME Typed, Quiet, Flowing, NEW f \in Fnis,
           Enter(f) \/ EnterJoin(f) \/ Park(f) \/ Trigger(f) \/ DeleteArrivals(f) \/ Fail(f)
    PROVE  Flowing'
<1>1. HandlerMoves(f) /\ Sound(f)
  BY HandlerMovesOwn DEF HandlerStep, Flowing
<1>2. UNCHANGED <<diagram, routing, mem>> /\ task[f].step \notin {"none", "ok"}
  BY <1>1 DEF HandlerMoves
<1>3. Live(mem[f]) /\ Live(rows[f].state)
  BY <1>1, <1>2 DEF Sound, Matched
<1>c. IsCatch(f[1]) => ~IsJoin(f[1])
  BY DEF IsCatch, IsJoin, IsGateway
<1>4. PICK st \in {"ok", "async", "finish", "error"} :
        /\ Step(f, st)
        /\ IF st = "ok" THEN rows' = End(f, "finished") /\ ~IsJoin(f[1])
           ELSE rows' = rows \/ rows' = End(f, "waiting")
        /\ st = "finish" => task[f].step = "delete"
  BY <1>c DEF Enter, EnterJoin, Park, Trigger, DeleteArrivals, Fail, dbVars
<1>5. /\ rows'[f].prev = rows[f].prev
      /\ IF st = "ok" THEN rows'[f].state = "finished" ELSE Live(rows'[f].state)
  <2>1. \A s \in {"finished", "waiting"} : s \in States
    BY DEF States
  <2>2. \A s \in States : rows' = End(f, s) => rows'[f].prev = rows[f].prev /\ rows'[f].state = s
    BY <1>3, EndTyped DEF Typed
  <2> QED BY <1>3, <1>4, <2>1, <2>2 DEF Live
<1>6. Sound(f)' /\ \A t : Has(f, t)' <=> Has(f, t)
  <2>1. st \in Steps \ {"none"}
    BY DEF Steps
  <2> QED BY <1>1, <1>2, <1>3, <1>4, <1>5, <2>1, StepSound
<1>7. \A g \in Fnis \ {f} : task'[g] = task[g]
  BY <1>4 DEF Step, Typed, TasksTyped
<1>8. task'[f].step # "none"
  BY <1>4 DEF Step, Typed, TasksTyped, TaskRecords
<1> QED BY <1>1, <1>6, <1>7, <1>8, FlowingHandler

\* A mailbox without its first message.
LEMMA MailTail ==
    ASSUME NEW S, NEW q \in Seq(S), q # <<>>
    PROVE  /\ Head(q) = q[1] /\ 1 \in DOMAIN q /\ Tail(q) \in Seq(S) /\ Len(Tail(q)) = Len(q) - 1 /\ Len(q) \in Nat
           /\ \A i \in DOMAIN Tail(q) : i \in Nat /\ i + 1 \in DOMAIN q /\ Tail(q)[i] = q[i + 1] /\ i + 1 # 1
           /\ \A i \in DOMAIN q : i = 1 \/ (i - 1 \in DOMAIN Tail(q) /\ Tail(q)[i - 1] = q[i])
OBVIOUS

\* What a parallel join that has all its tokens leaves in its mailbox: nothing.
LEMMA AllTaken ==
    ASSUME Typed, Joins, Flowing, NEW f \in Fnis, IsParallelJoin(f), Distinct(f), task[f].acc \subseteq Tokens,
           task[f].mail # <<>>, Head(task[f].mail) \in Tokens,
           Complete(f[1], task[f].acc \cup {Head(task[f].mail)})
    PROVE  Tail(task[f].mail) = <<>> /\ routing[f[1]].fni # f
<1> DEFINE q == task[f].mail
           m == Head(q)
           tokens == task[f].acc \cup {m}
<1>1. q \in Seq(Tokens \cup {Fire})
  BY DEF Typed, TasksTyped, TaskRecords
<1>2. /\ m = q[1] /\ 1 \in DOMAIN q /\ Tail(q) \in Seq(Tokens \cup {Fire})
      /\ \A i \in DOMAIN Tail(q) : i + 1 \in DOMAIN q /\ Tail(q)[i] = q[i + 1] /\ i + 1 # 1
  BY <1>1, MailTail
<1>3. m[1] \notin Arrived(task[f].acc)
  BY <1>2 DEF Distinct
<1>4. JoinTask(f)
  BY DEF Joins, JoinTasks
<1>5. OnePerFlow(tokens)
  BY <1>3, <1>4 DEF JoinTask, OnePerFlow, Arrived
<1>6. \A t \in tokens : t[1] \in In(f[1])
  <2>1. \A t \in tokens : t \in Tokens /\ Carried(f, t)
    BY <1>2 DEF Carried
  <2> QED BY <2>1 DEF Joins, CarriedFits
<1>7. {t[1] : t \in tokens} = In(f[1])
  <2>1. Complete(f[1], tokens)
    OBVIOUS
  <2> HIDE DEF tokens
  <2> QED BY <1>5, <1>6, <2>1, CompleteIsAll DEF Typed, StateTyped
<1>8. DOMAIN Tail(q) = {}
  <2> SUFFICES ASSUME NEW i \in DOMAIN Tail(q) PROVE FALSE
    OBVIOUS
  <2>1. PICK j \in DOMAIN q : j # 1 /\ Tail(q)[i] = q[j]
    BY <1>2
  <2>2. q[j] \in Tokens
    BY <1>1, <1>4 DEF JoinTask
  <2>3. q[j][1] \in In(f[1])
    BY <2>2 DEF Joins, CarriedFits, Carried
  <2>4. q[j][1] \notin Arrived(task[f].acc) /\ q[j][1] # q[1][1]
    BY <1>2, <2>1 DEF Distinct
  <2>5. q[j][1] \notin {t[1] : t \in tokens}
    BY <1>2, <2>4 DEF Arrived
  <2> QED BY <1>7, <2>3, <2>5
<1>9. Tail(q) = <<>>
  BY <1>2, <1>8
<1>10. routing[f[1]].fni # f
  <2> SUFFICES ASSUME routing[f[1]].fni = f PROVE FALSE
    OBVIOUS
  <2>1. /\ routing[f[1]].arrived \subseteq In(f[1]) /\ ~Complete(f[1], routing[f[1]].arrived)
        /\ Arrived(task[f].acc) \subseteq routing[f[1]].arrived /\ m[1] \in routing[f[1]].arrived
    BY <1>2 DEF Distinct
  <2>2. {t[1] : t \in tokens} \subseteq routing[f[1]].arrived
    BY <2>1 DEF Arrived
  <2>3. routing[f[1]].arrived = In(f[1])
    BY <1>7, <2>1, <2>2
  <2>4. Cardinality(In(f[1])) \in Nat
    <3>1. IsFiniteSet(diagram.flows) /\ In(f[1]) \subseteq diagram.flows
      BY DiagramsAssumption DEF In, Typed, StateTyped
    <3> QED BY <3>1, FS_Subset, FS_CardinalityType
  <2> QED BY <2>1, <2>3, <2>4 DEF Complete
<1> QED BY <1>9, <1>10

\* A message that a join takes: no token gets lost on the way, and none was taken
\* on the flow before.
LEMMA FlowingReceive ==
    ASSUME Typed, Quiet, Joins, Flowing, NEW f \in Fnis, Receive(f)
    PROVE  Flowing'
<1> DEFINE q == task[f].mail
           message == Head(q)
           rest    == Tail(q)
           tokens  == task[f].acc \cup {message}
<1>1. HandlerMoves(f) /\ Sound(f)
  BY HandlerMovesOwn DEF HandlerStep, Flowing
<1>2. UNCHANGED <<diagram, routing, mem, rows>> /\ task[f].step = "receive" /\ q # <<>>
  BY <1>1 DEF HandlerMoves, Receive
<1>3. IsJoin(f[1]) /\ Passing(f) /\ Matched(f)
  BY <1>1, <1>2 DEF Sound, Empty
<1>4. q \in Seq(Tokens \cup {Fire})
  BY DEF Typed, TasksTyped, TaskRecords
<1>5. /\ message = q[1] /\ 1 \in DOMAIN q /\ rest \in Seq(Tokens \cup {Fire}) /\ Len(rest) = Len(q) - 1 /\ Len(q) \in Nat
      /\ \A i \in DOMAIN rest : i \in Nat /\ i + 1 \in DOMAIN q /\ rest[i] = q[i + 1] /\ i + 1 # 1
      /\ \A i \in DOMAIN q : i = 1 \/ (i - 1 \in DOMAIN rest /\ rest[i - 1] = q[i])
  BY <1>2, <1>4, MailTail
<1>6. message \in Tokens \cup {Fire}
  BY <1>4, <1>5
<1>n. /\ \A n : In(n)' = In(n) /\ Kind(n)' = Kind(n) /\ (IsJoin(n)' <=> IsJoin(n))
      /\ \A n, ts : Complete(n, ts)' <=> Complete(n, ts)
  BY <1>2, SameNodes
<1>7. PICK s \in {"delete", "receive"}, acc \in {task[f].acc, tokens} :
        /\ task' = [task EXCEPT ![f] = [step |-> s, mail |-> rest, acc |-> acc]]
        /\ s = "delete" => rest = <<>> /\ routing[f[1]].fni # f
        /\ message = Fire => acc = task[f].acc /\ s = "delete"
        /\ message # Fire => acc = tokens
  <2>1. CASE message = Fire
    <3>1. 1 = Len(q) /\ routing[f[1]].fni # f
      BY <1>3, <1>5, <2>1 DEF Passing
    <3>2. rest = <<>>
      BY <1>5, <3>1
    <3> QED BY <2>1, <3>1, <3>2 DEF Receive
  <2>2. CASE message # Fire /\ Kind(f[1]) = "parallel"
    <3>1. Distinct(f) /\ message \in Tokens
      BY <1>3, <1>6, <2>2 DEF Passing
    <3>2. message[1] \notin Arrived(task[f].acc)
      BY <1>5, <3>1 DEF Distinct
    <3>3. Complete(f[1], tokens) => rest = <<>> /\ routing[f[1]].fni # f
      BY <1>2, <1>3, <2>2, <3>1, AllTaken DEF IsParallelJoin, Passing
    <3>4. PICK s \in {"delete", "receive"} :
            /\ task' = [task EXCEPT ![f] = [step |-> s, mail |-> rest, acc |-> tokens]]
            /\ s = "delete" => Complete(f[1], tokens)
      BY <2>2, <3>2 DEF Receive
    <3> QED BY <2>2, <3>3, <3>4
  <2>3. CASE message # Fire /\ Kind(f[1]) # "parallel"
    <3>1. task' = [task EXCEPT ![f] = [step |-> "receive", mail |-> rest, acc |-> tokens]]
      BY <2>3 DEF Receive
    <3> QED BY <2>3, <3>1
  <2> QED BY <2>1, <2>2, <2>3
<1>8. /\ task'[f].step = s /\ task'[f].mail = rest /\ task'[f].acc = acc
      /\ \A g \in Fnis \ {f} : task'[g] = task[g]
  BY <1>7 DEF Typed, TasksTyped
<1>9. task[f].acc \subseteq acc /\ acc \subseteq Tokens
  <2>1. task[f].acc \subseteq Tokens
    BY <1>3 DEF Passing
  <2> QED BY <1>6, <1>7, <2>1
<1>e. q = task[f].mail
  OBVIOUS
<1>t. message # Fire => acc = task[f].acc \cup {message}
  BY <1>7
<1> HIDE DEF q, message, rest, tokens
<1>10. Matched(f)'
  BY <1>2, <1>3, <1>8 DEF Matched
<1>11. \A i \in DOMAIN rest : rest[i] = Fire => i = Len(rest) /\ routing[f[1]].fni # f
  <2> SUFFICES ASSUME NEW i \in DOMAIN rest, rest[i] = Fire PROVE i = Len(rest) /\ routing[f[1]].fni # f
    OBVIOUS
  <2>1. i + 1 \in DOMAIN q /\ q[i + 1] = Fire /\ i \in Nat
    BY <1>5
  <2>2. i + 1 = Len(q) /\ routing[f[1]].fni # f
    BY <1>3, <1>e, <2>1 DEF Passing
  <2> QED BY <1>5, <2>1, <2>2
<1>12. Kind(f[1]) = "parallel" => Distinct(f)'
  <2> SUFFICES ASSUME Kind(f[1]) = "parallel" PROVE Distinct(f)'
    OBVIOUS
  <2>1. Distinct(f)
    BY <1>3 DEF Passing
  <2>2. \A i, j \in DOMAIN rest : rest[i][1] = rest[j][1] => i = j
    <3> SUFFICES ASSUME NEW i \in DOMAIN rest, NEW j \in DOMAIN rest, rest[i][1] = rest[j][1] PROVE i = j
      OBVIOUS
    <3>1. i + 1 \in DOMAIN q /\ j + 1 \in DOMAIN q /\ q[i + 1][1] = q[j + 1][1] /\ i \in Nat /\ j \in Nat
      BY <1>5
    <3>2. i + 1 = j + 1
      BY <1>e, <2>1, <3>1 DEF Distinct
    <3> QED BY <3>1, <3>2
  <2>3. \A i \in DOMAIN rest : rest[i][1] \notin Arrived(acc)
    <3> SUFFICES ASSUME NEW i \in DOMAIN rest PROVE rest[i][1] \notin Arrived(acc)
      OBVIOUS
    <3>1. PICK j \in DOMAIN q : j # 1 /\ rest[i] = q[j]
      BY <1>5
    <3>2. q[j][1] \notin Arrived(task[f].acc) /\ q[j][1] # message[1]
      BY <1>5, <1>e, <2>1, <3>1 DEF Distinct
    <3>3. acc = task[f].acc \/ acc = task[f].acc \cup {message}
      BY <1>7, <1>t
    <3> QED BY <3>1, <3>2, <3>3 DEF Arrived
  <2>4. ASSUME routing[f[1]].fni = f
        PROVE  /\ routing[f[1]].arrived \subseteq In(f[1]) /\ ~Complete(f[1], routing[f[1]].arrived)
               /\ Arrived(acc) \subseteq routing[f[1]].arrived
               /\ \A i \in DOMAIN rest : rest[i][1] \in routing[f[1]].arrived
    <3>1. /\ routing[f[1]].arrived \subseteq In(f[1]) /\ ~Complete(f[1], routing[f[1]].arrived)
          /\ Arrived(task[f].acc) \subseteq routing[f[1]].arrived
          /\ \A i \in DOMAIN q : q[i][1] \in routing[f[1]].arrived
      BY <1>e, <2>1, <2>4 DEF Distinct
    <3>2. acc = task[f].acc \/ acc = task[f].acc \cup {message}
      BY <1>7, <1>t
    <3>3. Arrived(acc) \subseteq routing[f[1]].arrived
      BY <1>5, <3>1, <3>2 DEF Arrived
    <3> QED BY <1>5, <3>1, <3>3
  <2> QED BY <1>2, <1>n, <1>8, <2>2, <2>3, <2>4 DEF Distinct
<1>13. Passing(f)'
  <2>1. s \notin {"finish", "ok", "none"}
    OBVIOUS
  <2>2. \A x \in rows[f].prev : \E t \in acc : t[2] = x
    BY <1>2, <1>3, <1>9 DEF Passing
  <2> QED BY <1>2, <1>n, <1>7, <1>8, <1>9, <1>11, <1>12, <2>1, <2>2 DEF Passing
<1>14. Sound(f)'
  BY <1>3, <1>n, <1>10, <1>13 DEF Sound
<1>15. ASSUME NEW t \in Tokens PROVE Has(f, t)' <=> Has(f, t)
  <2>1. t # Fire
    BY NoTokens
  <2>2. (t \in acc \/ \E i \in DOMAIN rest : rest[i] = t) <=> (t \in task[f].acc \/ \E i \in DOMAIN q : q[i] = t)
    <3>1. (\E i \in DOMAIN q : q[i] = t) <=> (t = message \/ \E i \in DOMAIN rest : rest[i] = t)
      BY <1>5
    <3>2. t \in acc <=> t \in task[f].acc \/ (t = message /\ message # Fire)
      BY <1>7, <1>t
    <3> QED BY <2>1, <3>1, <3>2
  <2> QED BY <1>2, <1>8, <1>e, <2>2 DEF Has
<1>16. task'[f].step # "none"
  BY <1>8
<1> QED BY <1>1, <1>8, <1>14, <1>15, <1>16, FlowingHandler

\* A join that finishes names the source of every token it took, and of no other.
LEMMA FlowingFinish ==
    ASSUME Typed, Quiet, Joins, Flowing, NEW f \in Fnis, FinishJoin(f)
    PROVE  Flowing'
<1> DEFINE sources == {token[2] : token \in task[f].acc} \ {NoFni}
<1>1. HandlerMoves(f) /\ Sound(f)
  BY HandlerMovesOwn DEF HandlerStep, Flowing
<1>2. UNCHANGED <<diagram, routing, mem>> /\ task[f].step = "finish" /\ Step(f, "ok")
  BY <1>1 DEF HandlerMoves, FinishJoin
<1>3. IsJoin(f[1]) /\ Passing(f) /\ Matched(f)
  BY <1>1, <1>2 DEF Sound, Empty
<1>4. task[f].acc \subseteq Tokens /\ task[f].mail = <<>> /\ routing[f[1]].fni # f /\ Live(rows[f].state)
  BY <1>2, <1>3 DEF Passing, Matched
<1>5. sources = {t[2] : t \in task[f].acc} /\ sources \subseteq Fnis
  BY <1>4, NoTokens
<1>6. rows[f].prev \subseteq sources
  BY <1>2, <1>3, <1>5 DEF Passing
<1>n. /\ \A n : In(n)' = In(n) /\ Kind(n)' = Kind(n) /\ (IsJoin(n)' <=> IsJoin(n))
      /\ \A n, ts : Complete(n, ts)' <=> Complete(n, ts)
  BY <1>2, SameNodes
<1>7. rows'[f].state = "finished" /\ rows'[f].prev = sources
  <2>1. CASE sources # {}
    <3>1. rows' = [rows EXCEPT ![f] = [state |-> "finished", prev |-> sources]]
      BY <1>4, <2>1 DEF FinishJoin
    <3> HIDE DEF sources
    <3> QED BY <3>1 DEF Typed, RowsTyped
  <2>2. CASE sources = {}
    <3>1. rows' = End(f, "finished")
      BY <2>2 DEF FinishJoin
    <3>2. rows'[f].prev = rows[f].prev /\ rows'[f].state = "finished"
      BY <1>4, <3>1, EndTyped DEF Typed, States
    <3> HIDE DEF sources
    <3> QED BY <1>6, <2>2, <3>2
  <2> QED BY <2>1, <2>2
<1> HIDE DEF sources
<1>8. task'[f].step = "ok" /\ task'[f].mail = task[f].mail /\ task'[f].acc = task[f].acc
  BY <1>2, StepTyped DEF Steps, Typed
<1>9. Matched(f)'
  BY <1>2, <1>3, <1>7, <1>8 DEF Matched
<1>10. DOMAIN task[f].mail = {}
  BY <1>4
<1>11. Distinct(f)'
  BY <1>2, <1>4, <1>8, <1>10 DEF Distinct
<1>12. Passing(f)'
  BY <1>2, <1>4, <1>5, <1>7, <1>8, <1>10, <1>11 DEF Passing
<1>13. Sound(f)'
  BY <1>3, <1>n, <1>9, <1>12 DEF Sound
<1>14. ASSUME NEW t \in Tokens, OwnFlow(t) PROVE Has(f, t)' <=> Has(f, t)
  <2>1. ASSUME f[1] = t[1][2], t[2] \in sources PROVE t \in task[f].acc
    <3>1. PICK u \in task[f].acc : u[2] = t[2]
      BY <1>5, <2>1
    <3>2. u \in Tokens /\ u[1] \in In(f[1]) /\ u[1][1] = u[2][1]
      BY <1>4 DEF Joins, CarriedFits, Carried
    <3>3. u[1][2] = f[1]
      BY <3>2 DEF In
    <3>4. t = u
      BY <1>14, <2>1, <3>1, <3>2, <3>3, TokenOf DEF OwnFlow
    <3> QED BY <3>4
  <2> QED BY <1>6, <1>7, <1>8, <2>1 DEF Has
<1>15. \A g \in Fnis \ {f} : task'[g] = task[g]
  BY <1>2 DEF Step, Typed, TasksTyped
<1> QED BY <1>1, <1>8, <1>13, <1>14, <1>15, FlowingHandler

-----------------------------------------------------------------------------
(* What the PI does.                                                       *)

\* A handler that waits goes on waiting.
LEMMA FlowingAsync ==
    ASSUME Typed, Flowing, NEW f \in Fnis, HandleAsync(f)
    PROVE  Flowing'
<1>1. /\ UNCHANGED <<diagram, routing, todo>> /\ pc = "idle" /\ task[f].step = "async" /\ Step(f, "receive")
      /\ rows' = End(f, "waiting") /\ mem' = [mem EXCEPT ![f] = "waiting"] /\ Live(mem[f])
  BY DEF HandleAsync
<1>2. Sound(f) /\ Live(rows[f].state)
  BY <1>1 DEF Flowing, Sound, Matched
<1>3. rows'[f].prev = rows[f].prev /\ rows'[f].state = "waiting"
  BY <1>1, <1>2, EndTyped DEF Typed, States
<1>4. \A g \in Fnis : mem'[g] = IF g = f THEN "waiting" ELSE mem[g]
  BY <1>1 DEF Typed, MemTyped
<1>5. \A g \in Fnis \ {f} : rows'[g] = rows[g] /\ task'[g] = task[g]
  BY <1>1 DEF End, Step, Typed, RowsTyped, TasksTyped
<1>6. Sound(f)' /\ \A t : Has(f, t)' <=> Has(f, t)
  BY <1>1, <1>2, <1>3, <1>4, StepSound DEF Steps, Live
<1>7. \A g \in Fnis : Sound(g)'
  BY <1>1, <1>4, <1>5, <1>6, SoundKept DEF Flowing
<1>8. JoinsRouted' /\ Dispatching'
  BY <1>1, SameNodes DEF Flowing, JoinsRouted, Dispatching
<1>9. ASSUME NEW t \in Tokens PROVE UnderWay(t)' <=> UnderWay(t)
  <2>1. \A g \in Fnis \ {f} : Has(g, t)' <=> Has(g, t)
    BY <1>5 DEF Has
  <2> QED BY <1>1, <1>6, <2>1 DEF UnderWay
<1>10. rows'[f].state # "finished"
  BY <1>3
<1> QED BY <1>1, <1>5, <1>7, <1>8, <1>9, <1>10, FlowsOn

\* A finished FNI gives its tokens to the flows of one selection; what its Task
\* had collected its row names.
LEMMA FlowingOk ==
    ASSUME Typed, Race, Calm, Peaceful, ~Failing => Flowing, NEW f \in Fnis, HandleOk(f)
    PROVE  Flowing'
<1>1. /\ UNCHANGED <<diagram, routing, rows>> /\ pc = "idle" /\ task[f].step = "ok" /\ Live(mem[f])
      /\ mem' = [mem EXCEPT ![f] = "finished"] /\ task' = [task EXCEPT ![f] = NoTask]
  BY DEF HandleOk, dbVars
<1>2. Flowing /\ rows[f].state = "finished"
  BY OkGoesOn
<1>3. PICK flows \in Selections(f[1]) :
        todo' = TokensOf(f, flows) /\ pc' = IF todo' = {} THEN "evaluate" ELSE "dispatch"
  BY OkGoesOn
<1>n. /\ \A n : In(n)' = In(n) /\ Out(n)' = Out(n) /\ Kind(n)' = Kind(n) /\ (IsJoin(n)' <=> IsJoin(n))
      /\ \A n : Selections(n)' = Selections(n)
      /\ \A n, ts : Complete(n, ts)' <=> Complete(n, ts)
  BY <1>1, SameNodes
<1>4. \A g \in Fnis : /\ mem'[g] = IF g = f THEN "finished" ELSE mem[g]
                      /\ task'[g] = IF g = f THEN NoTask ELSE task[g]
  BY <1>1 DEF Typed, MemTyped, TasksTyped
<1>5. task'[f].acc = {} /\ task'[f].mail = <<>> /\ DOMAIN task'[f].mail = {} /\ task'[f].step = "none"
  BY <1>4, KilledTask
<1>6. Sound(f)'
  <2>1. Matched(f)'
    BY <1>1, <1>2, <1>4, <1>5 DEF Matched, Live
  <2>2. IsJoin(f[1]) => Passing(f)'
    BY <1>1, <1>2, <1>5 DEF Flowing, Sound, Passing, Distinct, Arrived
  <2>3. Empty(f)'
    BY <1>5 DEF Empty
  <2> QED BY <1>n, <2>1, <2>2, <2>3 DEF Sound
<1>7. \A g \in Fnis : Sound(g)'
  BY <1>1, <1>2, <1>4, <1>6, SoundKept DEF Flowing
<1>8. JoinsRouted' /\ Dispatching'
  BY <1>1, <1>2, <1>3, <1>n DEF Flowing, JoinsRouted, Dispatching
<1>9. ASSUME NEW g \in Fnis, NEW t \in Tokens PROVE Has(g, t)' <=> Has(g, t)
  <2>1. CASE g = f
    <3>1. task[f].mail = <<>> /\ \A u \in task[f].acc : u[2] \in rows[f].prev
      BY <1>1, <1>2 DEF Flowing, Sound, Passing, Empty
    <3>2. DOMAIN task[f].mail = {}
      BY <3>1
    <3> QED BY <1>1, <1>5, <2>1, <3>1, <3>2 DEF Has
  <2>2. CASE g # f
    BY <1>1, <1>4, <2>2 DEF Has
  <2> QED BY <2>1, <2>2
<1>10. todo = {}
  BY <1>1, <1>2 DEF Flowing, Dispatching
<1>11. flows \subseteq Out(f[1])
  BY <1>2 DEF Selections
<1>12. \A g \in Fnis, t \in Tokens : Has(g, t) => t[2] # f
  <2> SUFFICES ASSUME NEW g \in Fnis, NEW t \in Tokens, Has(g, t), t[2] = f PROVE FALSE
    OBVIOUS
  <2>1. Named(g, f)
    BY DEF Has, Named, Carried
  <2> QED BY <1>1, <2>1 DEF Race, NamedEnded, Gone
<1>13. ASSUME NEW s \in Fnis, rows'[s].state = "finished", task'[s].step = "none" PROVE Onward(s)' \in Selections(s[1])'
  <2>1. Onward(s)' = {flow \in Out(s[1]) : <<flow, s>> \in todo' \/ \E g \in Fnis : Has(g, <<flow, s>>)'}
    BY <1>n DEF Onward
  <2>2. \A flow \in Out(s[1]) : <<flow, s>> \in Tokens
    BY OnwardTokens
  <2>3. CASE s = f
    <3>1. \A flow \in Out(s[1]) : <<flow, s>> \in todo' <=> flow \in flows
      BY <1>3, <2>3 DEF TokensOf
    <3>2. \A flow \in Out(s[1]), g \in Fnis : ~Has(g, <<flow, s>>)'
      BY <1>9, <1>12, <2>2, <2>3
    <3>3. Onward(s)' = flows
      BY <1>11, <2>1, <2>3, <3>1, <3>2
    <3> QED BY <1>n, <2>3, <3>3
  <2>4. CASE s # f
    <3>1. \A flow \in Out(s[1]) : <<flow, s>> \notin todo'
      BY <1>3, <2>4 DEF TokensOf
    <3>2. Onward(s)' = Onward(s)
      BY <1>9, <1>10, <2>1, <2>2, <3>1 DEF Onward
    <3>3. rows[s].state = "finished" /\ task[s].step = "none"
      BY <1>1, <1>4, <1>13, <2>4
    <3>4. Onward(s) \in Selections(s[1])
      BY <1>2, <3>3 DEF Flowing, GoneOnward
    <3> QED BY <1>n, <3>2, <3>4
  <2> QED BY <2>3, <2>4
<1>14. GoneOnward'
  BY <1>13 DEF GoneOnward
<1> QED BY <1>7, <1>8, <1>14 DEF Flowing

\* One flow is not all the flows of a join.
LEMMA OneIsNotAll ==
    ASSUME Typed, NEW n, IsJoin(n), NEW flow
    PROVE  ~Complete(n, {flow})
<1>1. IsFiniteSet(diagram.flows) /\ In(n) \subseteq diagram.flows
  BY DiagramsAssumption DEF In, Typed, StateTyped
<1>2. Cardinality(In(n)) \in Nat
  BY <1>1, FS_Subset, FS_CardinalityType
<1>3. Cardinality({flow}) = 1
  BY FS_Singleton
<1> QED BY <1>2, <1>3 DEF IsJoin, Complete

\* A token that starts an FNI is named by its row, and collected if it is a join.
LEMMA FlowingStart ==
    ASSUME Typed, Quiet, Once, Joins, Flowing, NEW token \in todo, Dispatch(token), StartNew(token)
    PROVE  Flowing'
<1> DEFINE n == token[1][2]
           tokens == IF IsJoin(n) THEN {token} ELSE {}
           row == [state |-> "active", prev |-> {token[2]}]
<1>1. /\ token \in Tokens /\ token \in Pending /\ OwnFlow(token) /\ token[1] \in diagram.flows /\ n \in AllNodes
  BY TargetIsNode DEF Typed, TodoTyped, Pending, Once, OwnTokens, OwnFlow, Joins, PendingFits
<1>2. UNCHANGED diagram /\ pc = "dispatch" /\ todo' = todo \ {token} /\ Dispatching' /\ IsUp
  BY DEF Dispatch, Consume, IsUp, Dispatching
<1>3. PICK f \in NewFnis(n) :
        /\ rows' = [rows EXCEPT ![f] = row]
        /\ mem' = [mem EXCEPT ![f] = "active"]
        /\ task' = [task EXCEPT ![f] = NewTask(tokens)]
        /\ routing' = IF IsJoin(n) THEN [routing EXCEPT ![n] = [fni |-> f, arrived |-> {token[1]}]] ELSE routing
  BY DEF StartNew
<1>4. f \in Fnis /\ f[1] = n /\ mem[f] = "none"
  BY FreeEntry
<1>5. rows[f].prev = {} /\ task[f].acc = {} /\ DOMAIN task[f].mail = {}
  <2>1. rows[f].state = "none"
    BY <1>2, <1>4 DEF Quiet, KnowsRows
  <2>2. Matched(f)
    BY <1>4 DEF Flowing, Sound
  <2>3. task[f].acc = {} /\ task[f].mail = <<>> /\ rows[f].prev = {}
    BY <1>4, <2>1, <2>2 DEF Matched, Live
  <2> QED BY <2>3
<1>6. /\ NewTask(tokens).step = "enter" /\ NewTask(tokens).mail = <<>> /\ NewTask(tokens).acc = tokens
      /\ row.state = "active" /\ row.prev = {token[2]}
  BY DEF NewTask
<1>t. /\ IsJoin(n) => tokens = {token}
      /\ ~IsJoin(n) => tokens = {}
      /\ n = token[1][2]
  OBVIOUS
<1>m. \A x : IsJoin(x)' <=> IsJoin(x)
  BY <1>2, SameNodes
<1>n. \A x : In(x)' = In(x) /\ Kind(x)' = Kind(x)
  BY <1>2, SameNodes
<1>c. \A x, ts : Complete(x, ts)' <=> Complete(x, ts)
  BY <1>2, SameNodes
<1> HIDE DEF tokens, row, n
<1>7. /\ rows'[f] = row /\ mem'[f] = "active" /\ task'[f] = NewTask(tokens)
      /\ \A g \in Fnis \ {f} : rows'[g] = rows[g] /\ mem'[g] = mem[g] /\ task'[g] = task[g]
  BY <1>3, <1>4 DEF Typed, RowsTyped, MemTyped, TasksTyped
<1>8. /\ rows'[f].state = "active" /\ rows'[f].prev = {token[2]}
      /\ task'[f].step = "enter" /\ task'[f].mail = <<>> /\ task'[f].acc = tokens /\ DOMAIN task'[f].mail = {}
  BY <1>6, <1>7
<1>9. Matched(f)'
  BY <1>7, <1>8 DEF Matched, Live
<1>10. ~IsJoin(n) => Empty(f)'
  BY <1>8, <1>t DEF Empty
<1>11. IsJoin(n) => Distinct(f)'
  <2> SUFFICES ASSUME IsJoin(n) PROVE Distinct(f)'
    OBVIOUS
  <2>1. routing'[n] = [fni |-> f, arrived |-> {token[1]}]
    BY <1>1, <1>3 DEF Typed, RouteTyped
  <2>2. routing'[n].arrived = {token[1]}
    BY <2>1
  <2>3. token[1] \in In(n)
    BY <1>1, <1>t DEF In
  <2>4. ~Complete(n, {token[1]})
    BY OneIsNotAll
  <2>5. Arrived(task'[f].acc) = {token[1]}
    BY <1>8, <1>t DEF Arrived
  <2>6. {token[1]} \subseteq In(n)' /\ ~Complete(n, {token[1]})'
    BY <1>n, <1>c, <2>3, <2>4
  <2>7. Arrived(task[f].acc)' = {token[1]}
    BY <2>5 DEF Arrived
  <2> QED BY <1>4, <1>8, <2>2, <2>6, <2>7 DEF Distinct
<1>12. IsJoin(n) => Passing(f)'
  <2> SUFFICES ASSUME IsJoin(n) PROVE Passing(f)'
    OBVIOUS
  <2>1. task'[f].acc = {token}
    BY <1>8, <1>t
  <2> QED BY <1>1, <1>8, <1>11, <2>1 DEF Passing
<1>13. \A g \in Fnis : Sound(g)'
  <2>1. Sound(f)'
    BY <1>4, <1>m, <1>9, <1>10, <1>12 DEF Sound
  <2>2. ASSUME NEW g \in Fnis \ {f} PROVE Sound(g)'
    <3>1. g[1] \in AllNodes
      BY NoTokens
    <3>2. routing'[g[1]].fni = g => routing'[g[1]] = routing[g[1]]
      BY <1>3, <3>1 DEF Typed, RouteTyped
    <3> QED BY <1>2, <1>7, <3>2, SoundKept DEF Flowing
  <2> QED BY <2>1, <2>2
<1>14. JoinsRouted'
  <2>1. DOMAIN diagram.kind \subseteq AllNodes
    BY DEF AllNodes, Typed, StateTyped
  <2>2. \A x \in AllNodes : routing'[x].fni # NoFni => IsJoin(x) \/ routing'[x] = routing[x]
    BY <1>3 DEF Typed, RouteTyped
  <2> QED BY <1>2, <1>m, <2>1, <2>2 DEF Flowing, JoinsRouted
<1>15. ASSUME NEW t \in Tokens, OwnFlow(t) PROVE UnderWay(t)' <=> UnderWay(t)
  <2>1. \A g \in Fnis \ {f} : Has(g, t)' <=> Has(g, t)
    BY <1>7 DEF Has
  <2>2. ~Has(f, t)
    BY <1>5 DEF Has
  <2>3. Has(f, t)' <=> t = token
    <3>1. ASSUME Has(f, t)' PROVE t = token
      <4>1. t[1][2] = token[1][2] /\ (t[2] = token[2] \/ t = token)
        BY <1>4, <1>8, <1>t, <3>1 DEF Has
      <4> QED BY <1>1, <1>15, <4>1, TokenOf DEF OwnFlow
    <3>2. ASSUME t = token PROVE Has(f, t)'
      BY <1>4, <1>8, <1>t, <3>2 DEF Has
    <3> QED BY <3>1, <3>2
  <2> QED BY <1>2, <1>4, <2>1, <2>2, <2>3 DEF UnderWay
<1>16. \A s \in Fnis : rows'[s].state = "finished" /\ task'[s].step = "none" =>
                           rows[s].state = "finished" /\ task[s].step = "none"
  BY <1>7, <1>8
<1> QED BY <1>2, <1>13, <1>14, <1>15, <1>16, FlowsOn

\* A mailbox with one more message.
LEMMA MailAppended ==
    ASSUME NEW S, NEW q \in Seq(S), NEW m \in S
    PROVE  /\ Append(q, m) \in Seq(S) /\ Len(q) \in Nat /\ Len(Append(q, m)) = Len(q) + 1
           /\ Len(q) + 1 \in DOMAIN Append(q, m) /\ Append(q, m)[Len(q) + 1] = m
           /\ \A i \in DOMAIN q : i \in DOMAIN Append(q, m) /\ Append(q, m)[i] = q[i]
           /\ \A i \in DOMAIN Append(q, m) : i = Len(q) + 1 \/ (i \in DOMAIN q /\ Append(q, m)[i] = q[i])
OBVIOUS

\* A Task that is sent a message has what it had, and the message.
LEMMA MailSent ==
    ASSUME Typed, NEW f \in Fnis, NEW m \in Tokens \cup {Fire},
           task'[f] = [task[f] EXCEPT !.mail = Append(task[f].mail, m)], rows' = rows
    PROVE  /\ task'[f].step = task[f].step /\ task'[f].acc = task[f].acc
           /\ task'[f].mail = Append(task[f].mail, m) /\ task[f].mail \in Seq(Tokens \cup {Fire})
           /\ \A t \in Tokens : Has(f, t)' <=> Has(f, t) \/ (f[1] = t[1][2] /\ t = m)
<1> DEFINE q == task[f].mail
           r == Append(q, m)
<1>1. task[f] \in TaskRecords
  BY DEF Typed, TasksTyped
<1>2. q \in Seq(Tokens \cup {Fire})
  BY <1>1 DEF TaskRecords
<1>3. /\ r[Len(q) + 1] = m /\ Len(q) + 1 \in DOMAIN r
      /\ \A i \in DOMAIN q : i \in DOMAIN r /\ r[i] = q[i]
      /\ \A i \in DOMAIN r : i = Len(q) + 1 \/ (i \in DOMAIN q /\ r[i] = q[i])
  BY <1>2, MailAppended
<1>4. task'[f].step = task[f].step /\ task'[f].acc = task[f].acc /\ task'[f].mail = r
  BY <1>1, MailTyped
<1>e. q = task[f].mail
  OBVIOUS
<1>r. r = Append(task[f].mail, m)
  OBVIOUS
<1> HIDE DEF q, r
<1>5. ASSUME NEW t \in Tokens PROVE Has(f, t)' <=> Has(f, t) \/ (f[1] = t[1][2] /\ t = m)
  <2>1. (\E i \in DOMAIN r : r[i] = t) <=> (t = m \/ \E i \in DOMAIN q : q[i] = t)
    BY <1>3
  <2> QED BY <1>4, <1>e, <2>1 DEF Has
<1> QED BY <1>2, <1>4, <1>5, <1>e, <1>r

\* A further token of a pass goes to a Task that runs and has not fired.
LEMMA FlowingRoute ==
    ASSUME Typed, Quiet, Once, Joins, Flowing, NEW token \in todo, Dispatch(token), RouteToJoin(token)
    PROVE  Flowing'
<1> DEFINE n == token[1][2]
           arrived == routing[n].arrived \cup {token[1]}
<1>1. /\ token \in Tokens /\ token \in Pending /\ OwnFlow(token) /\ token[1] \in diagram.flows /\ n \in AllNodes
      /\ token # Fire
  BY TargetIsNode, NoTokens DEF Typed, TodoTyped, Pending, Once, OwnTokens, OwnFlow, Joins, PendingFits
<1>2. UNCHANGED <<diagram, rows, mem>> /\ todo' = todo \ {token} /\ Dispatching'
  BY DEF Dispatch, Consume, RouteToJoin, Dispatching
<1>3. PICK f \in Fnis : f = routing[n].fni /\ f[1] = n /\ Live(mem[f])
  <2>1. routing[n].fni \in Fnis /\ Live(mem[routing[n].fni])
    BY <1>1 DEF RouteToJoin, LiveRoute, Typed, RouteTyped, RouteRecords
  <2>2. routing[n].fni[1] = n
    BY <1>1, <2>1, NoTokens DEF Once, RoutesOwn
  <2> QED BY <2>1, <2>2
<1>4. IsJoin(n) /\ Sound(f) /\ Passing(f) /\ Matched(f) /\ token[1] \notin routing[n].arrived
  BY <1>3 DEF Flowing, Sound, RouteToJoin
<1>5. task[f].step \notin {"none", "delete", "finish", "ok"}
  BY <1>3, <1>4 DEF Passing, Matched
<1>6. task' = [task EXCEPT ![f] = [task[f] EXCEPT !.mail = Append(task[f].mail, token)]]
  BY <1>3, <1>5 DEF RouteToJoin
<1>7. task'[f] = [task[f] EXCEPT !.mail = Append(task[f].mail, token)]
      /\ \A g \in Fnis \ {f} : task'[g] = task[g]
  BY <1>6 DEF Typed, TasksTyped
<1>8. /\ task'[f].step = task[f].step /\ task'[f].acc = task[f].acc
      /\ task'[f].mail = Append(task[f].mail, token) /\ task[f].mail \in Seq(Tokens \cup {Fire})
      /\ \A t \in Tokens : Has(f, t)' <=> Has(f, t) \/ (f[1] = t[1][2] /\ t = token)
  BY <1>1, <1>2, <1>7, MailSent
<1>9. \A i \in DOMAIN task'[f].mail :
          \/ task'[f].mail[i] = token /\ i = Len(task[f].mail) + 1
          \/ i \in DOMAIN task[f].mail /\ task'[f].mail[i] = task[f].mail[i]
  BY <1>1, <1>8, MailAppended
<1>10. /\ \A x \in AllNodes \ {n} : routing'[x] = routing[x]
       /\ routing'[n] = NoRoute \/ (routing'[n].fni = f /\ routing'[n].arrived = arrived)
       /\ Kind(n) = "parallel" /\ Complete(n, arrived) => routing'[n] = NoRoute
  <2>1. routing[n] \in RouteRecords
    BY <1>1 DEF Typed, RouteTyped
  <2>2. routing' = [routing EXCEPT ![n] = IF Kind(n) = "parallel" /\ Complete(n, arrived) THEN NoRoute
                                          ELSE [routing[n] EXCEPT !.arrived = arrived]]
    BY DEF RouteToJoin
  <2>3. routing'[n] = IF Kind(n) = "parallel" /\ Complete(n, arrived) THEN NoRoute
                      ELSE [routing[n] EXCEPT !.arrived = arrived]
    BY <1>1, <2>2 DEF Typed, RouteTyped
  <2>4. [routing[n] EXCEPT !.arrived = arrived].fni = f /\ [routing[n] EXCEPT !.arrived = arrived].arrived = arrived
    BY <1>3, <2>1 DEF RouteRecords
  <2> QED BY <1>1, <2>2, <2>3, <2>4 DEF Typed, RouteTyped
<1>m. /\ \A x : In(x)' = In(x) /\ Kind(x)' = Kind(x) /\ (IsJoin(x)' <=> IsJoin(x))
      /\ \A x, ts : Complete(x, ts)' <=> Complete(x, ts)
  BY <1>2, SameNodes
<1>0. NoRoute.fni = NoFni /\ NoFni \notin Fnis
  BY NoTokens DEF NoRoute
<1>t. n = token[1][2] /\ arrived = routing[n].arrived \cup {token[1]}
  OBVIOUS
<1> HIDE DEF n, arrived
<1>11. Matched(f)'
  BY <1>2, <1>4, <1>5, <1>8 DEF Matched
<1>12. Kind(n) = "parallel" => Distinct(f)'
  <2> SUFFICES ASSUME Kind(n) = "parallel" PROVE Distinct(f)'
    OBVIOUS
  <2>1. /\ \A i, j \in DOMAIN task[f].mail : task[f].mail[i][1] = task[f].mail[j][1] => i = j
        /\ \A i \in DOMAIN task[f].mail : task[f].mail[i][1] \notin Arrived(task[f].acc)
        /\ routing[n].arrived \subseteq In(n) /\ Arrived(task[f].acc) \subseteq routing[n].arrived
        /\ \A i \in DOMAIN task[f].mail : task[f].mail[i][1] \in routing[n].arrived
    BY <1>3, <1>4 DEF Passing, Distinct
  <2>2. \A i, j \in DOMAIN task'[f].mail : task'[f].mail[i][1] = task'[f].mail[j][1] => i = j
    BY <1>4, <1>9, <2>1
  <2>3. \A i \in DOMAIN task'[f].mail : task'[f].mail[i][1] \notin Arrived(task[f].acc)
    BY <1>4, <1>9, <2>1
  <2>4. Arrived(task[f].acc)' = Arrived(task[f].acc)
    BY <1>8 DEF Arrived
  <2>5. ASSUME routing'[n].fni = f
        PROVE  /\ routing'[n].arrived \subseteq In(n) /\ ~Complete(n, routing'[n].arrived)
               /\ Arrived(task[f].acc) \subseteq routing'[n].arrived
               /\ \A i \in DOMAIN task'[f].mail : task'[f].mail[i][1] \in routing'[n].arrived
    <3>1. routing'[n].arrived = arrived /\ ~Complete(n, arrived)
      BY <1>0, <1>10, <2>5
    <3>2. token[1] \in In(n)
      BY <1>1, <1>t DEF In
    <3> QED BY <1>9, <1>t, <2>1, <3>1, <3>2
  <2>6. /\ routing'[n].fni = f =>
              /\ routing'[n].arrived \subseteq In(n)' /\ ~Complete(n, routing[n].arrived)'
              /\ Arrived(task[f].acc)' \subseteq routing'[n].arrived
              /\ \A i \in DOMAIN task'[f].mail : task'[f].mail[i][1] \in routing'[n].arrived
        /\ \A i \in DOMAIN task'[f].mail : task'[f].mail[i][1] \notin Arrived(task[f].acc)'
    <3>1. In(n)' = In(n) /\ (Complete(n, routing'[n].arrived) <=> Complete(n, routing[n].arrived)')
      BY <1>m DEF Complete
    <3> QED BY <2>3, <2>4, <2>5, <3>1
  <2> QED BY <1>3, <2>2, <2>6 DEF Distinct
<1>13. Passing(f)'
  <2>1. \A i \in DOMAIN task'[f].mail : task'[f].mail[i] # Fire
    BY <1>1, <1>3, <1>4, <1>9 DEF Passing
  <2> QED BY <1>2, <1>3, <1>4, <1>5, <1>m, <1>8, <1>12, <2>1 DEF Passing
<1>14. \A g \in Fnis : Sound(g)'
  <2>1. Sound(f)'
    BY <1>3, <1>4, <1>m, <1>11, <1>13 DEF Sound
  <2>2. ASSUME NEW g \in Fnis \ {f} PROVE Sound(g)'
    <3>1. g[1] \in AllNodes
      BY NoTokens
    <3>2. routing'[g[1]].fni = g => routing'[g[1]] = routing[g[1]]
      BY <1>0, <1>10, <3>1
    <3> QED BY <1>2, <1>7, <3>2, SoundKept DEF Flowing
  <2> QED BY <2>1, <2>2
<1>15. JoinsRouted'
  <2>1. DOMAIN diagram.kind \subseteq AllNodes
    BY DEF AllNodes, Typed, StateTyped
  <2>2. \A x \in AllNodes : routing'[x].fni # NoFni => IsJoin(x) \/ routing'[x] = routing[x]
    BY <1>4, <1>10
  <2> QED BY <1>2, <1>m, <2>1, <2>2 DEF Flowing, JoinsRouted
<1>16. ASSUME NEW t \in Tokens PROVE UnderWay(t)' <=> UnderWay(t)
  <2>1. \A g \in Fnis \ {f} : Has(g, t)' <=> Has(g, t)
    BY <1>2, <1>7 DEF Has
  <2>2. Has(f, t)' <=> Has(f, t) \/ t = token
    BY <1>3, <1>8, <1>t
  <2> QED BY <1>2, <2>1, <2>2 DEF UnderWay
<1>17. \A s \in Fnis : rows'[s].state = "finished" /\ task'[s].step = "none" =>
                           rows[s].state = "finished" /\ task[s].step = "none"
  BY <1>2, <1>7, <1>8
<1> QED BY <1>2, <1>14, <1>15, <1>16, <1>17, FlowsOn

\* An instance that finishes has nothing that waits.
LEMMA FlowingStop ==
    ASSUME Typed, Flowing, Stop, todo = {}, UNCHANGED <<diagram, rows>>, \A f \in Fnis : ~Live(mem[f])
    PROVE  Flowing'
<1>1. \A f \in Fnis : task'[f] = NoTask /\ ~Live(mem'[f]) /\ routing'[f[1]] = NoRoute
  BY NoTokens DEF Stop, Live
<1>0. NoRoute.fni = NoFni /\ NoFni \notin Fnis
  BY NoTokens DEF NoRoute
<1>2. \A f \in Fnis : task'[f].acc = {} /\ task'[f].mail = <<>> /\ DOMAIN task'[f].mail = {} /\ task'[f].step = "none"
  BY <1>1, KilledTask
<1>3. \A f \in Fnis : task[f].acc = {} /\ DOMAIN task[f].mail = {} /\ task[f].step = "none"
  <2> SUFFICES ASSUME NEW f \in Fnis PROVE task[f].acc = {} /\ DOMAIN task[f].mail = {} /\ task[f].step = "none"
    OBVIOUS
  <2>1. Matched(f)
    BY DEF Flowing, Sound
  <2>2. task[f].acc = {} /\ task[f].mail = <<>> /\ task[f].step = "none"
    BY <2>1 DEF Matched
  <2> QED BY <2>2
<1>4. ASSUME NEW f \in Fnis PROVE Sound(f)'
  <2>1. rows[f].state = "none" => rows[f].prev = {}
    BY DEF Flowing, Sound, Matched
  <2>2. Matched(f)'
    BY <1>1, <1>2, <2>1 DEF Matched
  <2>3. Distinct(f)'
    BY <1>0, <1>1, <1>2 DEF Distinct
  <2>4. Passing(f)' /\ Empty(f)'
    BY <1>2, <2>3 DEF Passing, Empty
  <2> QED BY <2>2, <2>4 DEF Sound
<1>5. JoinsRouted'
  <2>1. DOMAIN diagram.kind \subseteq AllNodes
    BY DEF AllNodes, Typed, StateTyped
  <2>2. \A n \in AllNodes : routing'[n].fni = NoFni
    BY <1>0 DEF Stop
  <2> QED BY <2>1, <2>2 DEF JoinsRouted
<1>6. todo' = todo /\ Dispatching'
  BY DEF Stop, Dispatching
<1>7. ASSUME NEW t \in Tokens PROVE UnderWay(t)' <=> UnderWay(t)
  BY <1>2, <1>3, <1>6 DEF UnderWay, Has
<1> QED BY <1>2, <1>3, <1>4, <1>5, <1>6, <1>7, FlowsOn

\* An inclusive join that is told to fire takes the message last.
LEMMA FiringSound ==
    ASSUME Typed, Once, Flowing, NEW g \in Fnis, NEW n \in DOMAIN diagram.kind, ShouldFire(n),
           routing[n].fni = g, task[g].step # "none", routing'[n] = NoRoute, UNCHANGED <<diagram, rows, mem>>,
           task'[g] = [task[g] EXCEPT !.mail = Append(task[g].mail, Fire)]
    PROVE  Sound(g)' /\ \A t \in Tokens : Has(g, t)' <=> Has(g, t)
<1>0. NoRoute.fni = NoFni /\ NoFni \notin Fnis /\ Fire \notin Tokens
  BY NoTokens DEF NoRoute
<1>1. n \in AllNodes
  BY DEF AllNodes, Typed, StateTyped
<1>2. g[1] = n /\ IsJoin(n)
  BY <1>0, <1>1 DEF Once, RoutesOwn, Flowing, JoinsRouted
<1>3. Passing(g) /\ Matched(g)
  BY <1>2 DEF Flowing, Sound
<1>4. /\ task'[g].step = task[g].step /\ task'[g].acc = task[g].acc
      /\ task'[g].mail = Append(task[g].mail, Fire) /\ task[g].mail \in Seq(Tokens \cup {Fire})
      /\ \A t \in Tokens : Has(g, t)' <=> Has(g, t) \/ (g[1] = t[1][2] /\ t = Fire)
  BY MailSent
<1>5. /\ Len(task'[g].mail) = Len(task[g].mail) + 1
      /\ \A i \in DOMAIN task'[g].mail :
             i = Len(task[g].mail) + 1 \/ (i \in DOMAIN task[g].mail /\ task'[g].mail[i] = task[g].mail[i])
  BY <1>4, MailAppended
<1>m. /\ \A x : In(x)' = In(x) /\ Kind(x)' = Kind(x) /\ (IsJoin(x)' <=> IsJoin(x))
      /\ \A x, ts : Complete(x, ts)' <=> Complete(x, ts)
  BY SameNodes
<1>6. \A i \in DOMAIN task'[g].mail : task'[g].mail[i] = Fire => i = Len(task'[g].mail)
  BY <1>2, <1>3, <1>5 DEF Passing
<1>7. Kind(g[1])' # "parallel"
  BY <1>2, <1>m DEF ShouldFire
<1>8. Passing(g)'
  BY <1>0, <1>2, <1>3, <1>4, <1>6, <1>7 DEF Passing
<1>9. Matched(g)'
  BY <1>3, <1>4 DEF Matched
<1>10. Sound(g)'
  BY <1>2, <1>m, <1>8, <1>9 DEF Sound
<1> QED BY <1>0, <1>4, <1>10

\* At the end of a message the instance goes on, or has finished.
LEMMA FlowingEvaluate ==
    ASSUME Typed, Once, Flowing, Evaluate, ~Failing'
    PROVE  Flowing'
<1> DEFINE firing == {n \in DOMAIN diagram.kind : held = <<>> /\ ShouldFire(n)}
           states == {mem[f] : f \in Fnis}
<1>1. UNCHANGED <<diagram, rows>> /\ todo = {}
  BY DEF Evaluate, Flowing, Dispatching
<1>2. CASE "fatal" \notin states /\ Completed(states)
  <2>1. Stop /\ \A f \in Fnis : ~Live(mem[f])
    BY <1>2 DEF Evaluate, Completed
  <2> QED BY <1>1, <2>1, FlowingStop
<1>3. CASE ~("fatal" \notin states /\ Completed(states))
  <2>1. /\ routing' = [n \in AllNodes |-> IF n \in firing THEN NoRoute ELSE routing[n]]
        /\ task' = [f \in Fnis |->
                        IF \E n \in firing : routing[n].fni = f /\ task[f].step # "none"
                        THEN [task[f] EXCEPT !.mail = Append(@, Fire)] ELSE task[f]]
        /\ UNCHANGED <<mem, todo>>
    BY <1>3 DEF Evaluate
  <2>2. \A f \in Fnis : \/ task'[f] = task[f]
                        \/ /\ task'[f] = [task[f] EXCEPT !.mail = Append(task[f].mail, Fire)]
                           /\ \E n \in firing : routing[n].fni = f /\ task[f].step # "none"
    BY <2>1
  <2>3. /\ firing \subseteq DOMAIN diagram.kind /\ DOMAIN diagram.kind \subseteq AllNodes
        /\ \A n \in firing : ShouldFire(n)
    BY DEF AllNodes, Typed, StateTyped
  <2> HIDE DEF firing
  <2>4. \A n \in AllNodes : routing'[n] = IF n \in firing THEN NoRoute ELSE routing[n]
    BY <2>1
  <2>0. NoRoute.fni = NoFni /\ NoFni \notin Fnis
    BY NoTokens DEF NoRoute
  <2>5. ASSUME NEW f \in Fnis PROVE Sound(f)' /\ \A t \in Tokens : Has(f, t)' <=> Has(f, t)
    <3>1. CASE task'[f] = task[f]
      <4>1. f[1] \in AllNodes
        BY NoTokens
      <4>2. routing'[f[1]].fni = f => routing'[f[1]] = routing[f[1]]
        BY <2>0, <2>4, <4>1
      <4>3. Sound(f)'
        BY <1>1, <2>1, <3>1, <4>2, SoundKept DEF Flowing
      <4>4. \A t \in Tokens : Has(f, t)' <=> Has(f, t)
        BY <1>1, <3>1 DEF Has
      <4> QED BY <4>3, <4>4
    <3>2. CASE task'[f] # task[f]
      <4>1. task'[f] = [task[f] EXCEPT !.mail = Append(task[f].mail, Fire)]
        BY <2>2, <3>2
      <4>2. PICK n \in firing : routing[n].fni = f /\ task[f].step # "none"
        BY <2>2, <3>2
      <4>3. routing'[n] = NoRoute
        BY <2>3, <2>4
      <4> QED BY <1>1, <2>1, <2>3, <4>1, <4>2, <4>3, FiringSound
    <3> QED BY <3>1, <3>2
  <2>6. JoinsRouted'
    BY <1>1, <2>0, <2>3, <2>4, SameNodes DEF Flowing, JoinsRouted
  <2>7. Dispatching'
    BY <1>1, <2>1 DEF Dispatching
  <2>8. ASSUME NEW t \in Tokens PROVE UnderWay(t)' <=> UnderWay(t)
    BY <2>1, <2>5 DEF UnderWay
  <2>9. ASSUME NEW s \in Fnis, task'[s].step = "none" PROVE task[s].step = "none"
    <3>1. CASE task'[s] = task[s]
      BY <2>9, <3>1
    <3>2. CASE task'[s] = [task[s] EXCEPT !.mail = Append(task[s].mail, Fire)]
      BY <1>1, <2>9, <3>2, MailSent
    <3> QED BY <2>2, <3>1, <3>2
  <2> QED BY <1>1, <2>5, <2>6, <2>7, <2>8, <2>9, FlowsOn
<1> QED BY <1>2, <1>3

-----------------------------------------------------------------------------
(* No token is lost.                                                       *)

\* At the start no FNI has ended.
LEMMA KeptInit == Init => Kept
<1> SUFFICES ASSUME Init PROVE Peaceful /\ Flowing
  BY DEF Kept
<1>t. Typed
  BY TypedInit
<1>1. \A f \in Fnis : /\ rows[f].state = IF f = StartFni(diagram) THEN "active" ELSE "none"
                      /\ rows[f].prev = {} /\ mem[f] = rows[f].state
  BY DEF Init, NoRow
<1>2. \A f \in Fnis : task[f].step = (IF f = StartFni(diagram) THEN "enter" ELSE "none")
                      /\ task[f].acc = {} /\ task[f].mail = <<>>
  BY DEF Init, NewTask, NoTask
<1>3. \A n \in AllNodes : routing[n].fni = NoFni
  BY DEF Init, NoRoute
<1>4. pc = "evaluate" /\ piRow = "running" /\ todo = {} /\ losers = {} /\ held = <<>>
  BY DEF Init
<1>5. Peaceful
  BY <1>1, <1>4 DEF Peaceful
<1>6. ASSUME NEW f \in Fnis PROVE Sound(f)
  <2>1. task[f].acc = {} /\ task[f].mail = <<>> /\ DOMAIN task[f].mail = {} /\ task[f].step \in {"none", "enter"}
        /\ rows[f].prev = {} /\ f[1] \in AllNodes /\ NoFni \notin Fnis
    <3>1. task[f].mail = <<>>
      BY <1>2
    <3> QED BY <1>1, <1>2, <3>1, NoTokens
  <2>2. Matched(f)
    BY <1>1, <1>2 DEF Matched, Live
  <2>3. Distinct(f)
    BY <1>3, <2>1 DEF Distinct
  <2>4. Passing(f) /\ Empty(f)
    BY <2>1, <2>3 DEF Passing, Empty
  <2> QED BY <2>2, <2>4 DEF Sound
<1>7. JoinsRouted
  BY <1>t, <1>3 DEF JoinsRouted, AllNodes, Typed, StateTyped
<1>8. Dispatching /\ GoneOnward
  BY <1>1, <1>4 DEF Dispatching, GoneOnward
<1> QED BY <1>5, <1>6, <1>7, <1>8 DEF Flowing

\* Every step that leaves no failure behind keeps the flow.
LEMMA FlowingNext ==
    ASSUME Typed, Quiet, Once, Race, Joins, Calm, Peaceful, Flowing, ~Failing, ~Failing', [Next]_vars, ~Crash
    PROVE  Flowing'
<1>1. CASE UNCHANGED vars
  <2>1. UNCHANGED <<diagram, rows, todo, pc, mem, routing, task>>
    BY <1>1 DEF vars, dbVars
  <2>2. \A f \in Fnis : Sound(f)'
    BY <2>1, SoundKept DEF Flowing
  <2>3. JoinsRouted' /\ Dispatching'
    BY <2>1, SameNodes DEF Flowing, JoinsRouted, Dispatching
  <2>4. \A t \in Tokens : UnderWay(t)' <=> UnderWay(t)
    BY <2>1 DEF UnderWay, Has
  <2> QED BY <2>1, <2>2, <2>3, <2>4, FlowsOn
<1>2. CASE \E g \in Fnis : HandlerStep(g) \/ Trigger(g) \/ Fail(g)
  BY <1>2, FlowingStep, FlowingReceive, FlowingFinish DEF HandlerStep
<1>3. CASE \E f \in Fnis : HandleAsync(f) \/ HandleOk(f)
  BY <1>3, FlowingAsync, FlowingOk
<1>4. CASE \E f \in Fnis : HandleError(f)
  BY <1>4 DEF HandleError, Failing
<1>5. CASE (\E f \in Fnis : HandleLoser(f)) \/ CancelRival \/ StampRivals \/ Interrupt
  BY <1>5 DEF HandleLoser, CancelRival, StampRivals, Interrupt, Peaceful
<1>6. CASE \E token \in todo : Dispatch(token)
  <2>1. PICK token \in todo : Dispatch(token)
    BY <1>6
  <2>2. CASE StartFails(token)
    <3>1. PICK g \in Fnis : mem' = [mem EXCEPT ![g] = "fatal"]
      <4>1. PICK g \in NewFnis(token[1][2]) : mem' = [mem EXCEPT ![g] = "fatal"]
        BY <2>2 DEF StartFails
      <4> QED BY <4>1, FreeEntry
    <3>2. mem'[g] = "fatal"
      BY <3>1 DEF Typed, MemTyped
    <3> QED BY <3>2 DEF Failing
  <2>3. CASE DuplicateArrival(token)
    <3>1. token[1][2] \in AllNodes
      BY <2>1, TargetIsNode DEF Typed, TodoTyped
    <3>2. PICK g \in Fnis : mem' = [mem EXCEPT ![g] = "fatal"]
      BY <2>3, <3>1 DEF DuplicateArrival, LiveRoute, Typed, RouteTyped, RouteRecords
    <3>3. mem'[g] = "fatal"
      BY <3>2 DEF Typed, MemTyped
    <3> QED BY <3>3 DEF Failing
  <2> QED BY <2>1, <2>2, <2>3, FlowingStart, FlowingRoute DEF Dispatch
<1>7. CASE Evaluate
  BY <1>7, FlowingEvaluate
<1>8. CASE TransitionToFatal \/ Cascade
  BY <1>8 DEF TransitionToFatal, Cascade, Failing
<1>9. CASE CleanUp \/ Resume
  BY <1>9 DEF CleanUp, Resume, Race
<1> QED BY <1>1, <1>2, <1>3, <1>4, <1>5, <1>6, <1>7, <1>8, <1>9 DEF Next, InstanceStep

\* Every step keeps it.
LEMMA KeptStep ==
    Typed /\ Quiet /\ Once /\ (crashes = 0 => Race) /\ JoinsOnceCrashed /\ Kept /\ [Next]_vars => Kept'
<1> SUFFICES ASSUME Typed, Quiet, Once, crashes = 0 => Race, JoinsOnceCrashed, Kept, [Next]_vars, Calm'
             PROVE  Peaceful' /\ (~Failing' => Flowing')
  BY DEF Kept
<1>1. Calm /\ ~Crash /\ Race /\ Joins
  BY CalmBefore DEF Calm, JoinsOnceCrashed
<1>2. Peaceful /\ (~Failing => Flowing)
  BY <1>1 DEF Kept
<1>3. Peaceful'
  BY <1>1, <1>2, PeacefulStep
<1>4. ~Failing' => Flowing'
  BY <1>1, <1>2, FailingStays, FlowingNext
<1> QED BY <1>3, <1>4

\* What an FNI that has ended has done with its tokens, between two messages.
LEMMA KeptImpliesNoTokenLost == Kept => (NoEventGateway => NoTokenLost)
<1> SUFFICES ASSUME Kept, NoEventGateway, crashes = 0, pc \in {"idle", "ended"}, piRow # "fatal", ~TerminateFinished,
                    NEW f \in Fnis, rows[f].state = "finished", task[f].step = "none"
             PROVE  Consumed(f) \in Selections(f[1])
  BY DEF NoTokenLost
<1>1. Peaceful /\ Flowing
  BY DEF Kept, Calm, Failing, Peaceful
<1>2. todo = {} /\ held = <<>> /\ Onward(f) \in Selections(f[1])
  BY <1>1 DEF Peaceful, Flowing, Dispatching, GoneOnward
<1>3. DOMAIN held = {}
  BY <1>2
<1>4. Onward(f) = Consumed(f)
  BY <1>2, <1>3 DEF Onward, Consumed, Has
<1> QED BY <1>2, <1>4

\* On every diagram without event-based gateways, and as long as the engine does
\* not stop: when the PI is done with a message, the tokens of every FNI that has
\* finished were consumed, or wait in a join, on the flows of one selection.
\* (dispatch_successors, join_receive_loop, fire_join, evaluate_joins.)
THEOREM NoTokenGetsLost == Spec => [](NoEventGateway => NoTokenLost)
<1>1. Init => JoinsOnceCrashed /\ (crashes = 0 => Race)
  BY JoinsInit, RaceInit DEF JoinsOnceCrashed
<1> QED BY <1>1, TypedInit, TypedStep, QuietInit, QuietStep, OnceInit, OnceStep, RaceStep, JoinsStep,
           KeptInit, KeptStep, KeptImpliesNoTokenLost, PTL DEF Spec
=============================================================================
