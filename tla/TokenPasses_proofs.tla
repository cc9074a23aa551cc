--------------------------- MODULE TokenPasses_proofs ---------------------------
(***************************************************************************)
(* How often a join fires. On a diagram without loops on which flows merge *)
(* before a join only where they are alternatives, no flow node before a   *)
(* join, and no join, is started twice, whatever fails and in whatever     *)
(* order the Tasks report; so no token comes to a join that has fired.     *)
(***************************************************************************)
EXTENDS TokenJoin_proofs

-----------------------------------------------------------------------------
(* Diagrams without loops.                                                 *)

\* Going back along the flows comes to an end: some node of any set has no
\* predecessor in it.
LEMMA FirstNode ==
    ASSUME NEW d \in Diagrams, Acyclic(d), NEW S \in SUBSET DOMAIN d.kind, S # {}
    PROVE  \E n \in S : \A m \in S : <<m, n>> \notin d.flows
<1> DEFINE Looping(T) == T # {} /\ \A n \in T : \E m \in T : <<m, n>> \in d.flows
<1> SUFFICES ASSUME Looping(S) PROVE FALSE
  OBVIOUS
<1>1. IsFiniteSet(S)
  <2> DEFINE ends == {flow[2] : flow \in d.flows}
  <2>1. IsFiniteSet(ends)
    <3> DEFINE h == [flow \in d.flows |-> flow[2]]
    <3>1. IsFiniteSet(d.flows)
      BY DiagramsAssumption
    <3>2. h \in Surjection(d.flows, ends)
      BY DEF Surjection
    <3> QED BY <3>1, <3>2, FS_Surjection
  <2>2. S \subseteq ends
    <3> SUFFICES ASSUME NEW n \in S PROVE n \in ends
      OBVIOUS
    <3>1. PICK m \in S : <<m, n>> \in d.flows
      OBVIOUS
    <3>2. <<m, n>>[2] = n
      OBVIOUS
    <3> QED BY <3>1, <3>2
  <2> HIDE DEF ends
  <2> QED BY <2>1, <2>2, FS_Subset
<1> DEFINE Sizes == {Cardinality(T) : T \in {U \in SUBSET S : Looping(U)}}
           R == OpToRel(<, Nat)
<1>2. \A T \in SUBSET S : IsFiniteSet(T) /\ Cardinality(T) \in Nat
  BY <1>1, FS_Subset, FS_CardinalityType
<1>3. Sizes \subseteq Nat /\ Sizes # {}
  <2>1. S \in {U \in SUBSET S : Looping(U)}
    OBVIOUS
  <2> QED BY <1>2, <2>1
<1>4. \E x \in Sizes : \A y \in Sizes : <<y, x>> \notin R
  <2> HIDE DEF Sizes, R
  <2>1. IsWellFoundedOn(R, Nat)
    BY NatLessThanWellFounded DEF R
  <2> QED BY <1>3, <2>1, WFMin
<1>5. PICK x \in Sizes : \A y \in Sizes : ~(y < x)
  BY <1>3, <1>4 DEF OpToRel
<1>6. PICK T \in SUBSET S : Looping(T) /\ x = Cardinality(T)
  OBVIOUS
<1>7. \A n \in T : \E m \in T : <<n, m>> \in d.flows
  <2> SUFFICES ASSUME NEW n \in T, \A m \in T : <<n, m>> \notin d.flows PROVE FALSE
    OBVIOUS
  <2> DEFINE U == T \ {n}
  <2>1. U # {}
    <3>1. PICK m \in T : <<m, n>> \in d.flows
      BY <1>6
    <3> QED BY <3>1
  <2>2. Looping(U)
    <3> SUFFICES ASSUME NEW k \in U PROVE \E m \in U : <<m, k>> \in d.flows
      BY <2>1
    <3>1. PICK m \in T : <<m, k>> \in d.flows
      BY <1>6
    <3> QED BY <3>1
  <2>3. Cardinality(U) < Cardinality(T)
    <3>1. IsFiniteSet(T)
      BY <1>2
    <3>2. Cardinality(U) = Cardinality(T) - 1
      BY <3>1, FS_RemoveElement
    <3> QED BY <1>2, <3>2
  <2>4. Cardinality(U) \in Sizes
    BY <2>2
  <2> QED BY <1>5, <1>6, <2>3, <2>4
<1> HIDE DEF Sizes
<1>8. T \in SUBSET DOMAIN d.kind /\ T # {}
  BY <1>6
<1> QED BY <1>7, <1>8 DEF Acyclic

\* What Upstream collects: the start of the flow, and whatever leads to what it
\* collects, but for the join.
LEMMA UpstreamCloses ==
    ASSUME NEW d \in Diagrams, NEW flow \in d.flows
    PROVE  /\ Upstream(d, flow) \subseteq DOMAIN d.kind
           /\ flow[1] # flow[2] => flow[1] \in Upstream(d, flow)
           /\ \A g \in d.flows : g[2] \in Upstream(d, flow) /\ g[1] # flow[2] => g[1] \in Upstream(d, flow)
<1>1. \A g \in d.flows : g[1] \in DOMAIN d.kind /\ g[2] \in DOMAIN d.kind
  BY DiagramsAssumption
<1> DEFINE Closed(S) == /\ flow[1] # flow[2] => flow[1] \in S
                        /\ \A g \in d.flows : g[2] \in S /\ g[1] # flow[2] => g[1] \in S
           Up == Upstream(d, flow)
<1>2. Up = {n \in DOMAIN d.kind : \A S \in SUBSET DOMAIN d.kind : Closed(S) => n \in S}
  BY DEF Upstream
<1>3. flow[1] # flow[2] => flow[1] \in Up
  BY <1>1, <1>2
<1>4. ASSUME NEW g \in d.flows, g[2] \in Up, g[1] # flow[2] PROVE g[1] \in Up
  <2> SUFFICES ASSUME NEW S \in SUBSET DOMAIN d.kind, Closed(S) PROVE g[1] \in S
    BY <1>1, <1>2
  <2>1. g[2] \in S
    BY <1>2, <1>4
  <2> QED BY <1>4, <2>1
<1> QED BY <1>2, <1>3, <1>4

\* Nothing else is upstream of a flow.
LEMMA UpstreamLeast ==
    ASSUME NEW d \in Diagrams, NEW flow \in d.flows, NEW S \in SUBSET DOMAIN d.kind,
           flow[1] # flow[2] => flow[1] \in S,
           \A g \in d.flows : g[2] \in S /\ g[1] # flow[2] => g[1] \in S
    PROVE  Upstream(d, flow) \subseteq S
BY DEF Upstream

\* Without loops no node upstream of a flow comes after the join it leads to.
LEMMA NoWayBack ==
    ASSUME NEW d \in Diagrams, Acyclic(d), NEW flow \in d.flows, NEW g \in d.flows, g[1] = flow[2]
    PROVE  g[2] \notin Upstream(d, flow) /\ flow[1] # flow[2]
<1> DEFINE Up == Upstream(d, flow)
           All == Up \cup {flow[2]}
           S == {n \in Up : \E m \in All : <<n, m>> \in d.flows}
<1>1. \A e \in d.flows : e = <<e[1], e[2]>> /\ e[1] \in DOMAIN d.kind /\ e[2] \in DOMAIN d.kind
  BY DiagramsAssumption
<1>2. /\ Up \subseteq DOMAIN d.kind /\ (flow[1] # flow[2] => flow[1] \in Up)
      /\ \A e \in d.flows : e[2] \in Up /\ e[1] # flow[2] => e[1] \in Up
  BY UpstreamCloses
<1> HIDE DEF Up
<1>3. Up \subseteq S
  <2>1. S \in SUBSET DOMAIN d.kind
    BY <1>2
  <2>2. flow[1] # flow[2] => flow[1] \in S
    BY <1>1, <1>2
  <2>3. ASSUME NEW e \in d.flows, e[2] \in S, e[1] # flow[2] PROVE e[1] \in S
    <3>1. e[1] \in Up /\ e[2] \in All /\ <<e[1], e[2]>> \in d.flows
      BY <1>1, <1>2, <2>3
    <3> QED BY <3>1
  <2> HIDE DEF S
  <2> QED BY <2>1, <2>2, <2>3, UpstreamLeast DEF Up
<1>4. All \in SUBSET DOMAIN d.kind /\ All # {}
  BY <1>1, <1>2
<1>5. ASSUME g[2] \in Up \/ flow[1] = flow[2] PROVE FALSE
  <2>1. \E m \in All : <<flow[2], m>> \in d.flows
    BY <1>1, <1>5
  <2>2. \A n \in All : \E m \in All : <<n, m>> \in d.flows
    BY <1>3, <2>1
  <2> QED BY <1>4, <2>2 DEF Acyclic
<1> QED BY <1>5 DEF Up

\* No flow leads back to its start.
LEMMA NoSelfLoop ==
    ASSUME NEW d \in Diagrams, Acyclic(d), NEW flow \in d.flows
    PROVE  flow[1] # flow[2]
<1>1. flow = <<flow[1], flow[2]>> /\ flow[1] \in DOMAIN d.kind
  BY DiagramsAssumption
<1> QED BY <1>1, NoWayBack

\* The joins, and whatever leads to them.
LEMMA BeforeJoinsCloses ==
    ASSUME NEW d \in Diagrams
    PROVE  /\ JoinNodes(d) \subseteq BeforeJoins(d) /\ BeforeJoins(d) \subseteq DOMAIN d.kind
           /\ \A flow \in d.flows : flow[2] \in BeforeJoins(d) => flow[1] \in BeforeJoins(d)
<1>1. \A g \in d.flows : g[1] \in DOMAIN d.kind /\ g[2] \in DOMAIN d.kind
  BY DiagramsAssumption
<1> DEFINE Closed(S) == JoinNodes(d) \subseteq S /\ \A flow \in d.flows : flow[2] \in S => flow[1] \in S
<1>2. BeforeJoins(d) = {n \in DOMAIN d.kind : \A S \in SUBSET DOMAIN d.kind : Closed(S) => n \in S}
  BY DEF BeforeJoins
<1>3. JoinNodes(d) \subseteq DOMAIN d.kind
  BY DEF JoinNodes
<1> QED BY <1>1, <1>2, <1>3

\* A join of the instance is one of the diagram.
LEMMA JoinIsNode ==
    ASSUME Typed, NEW n, IsJoin(n)
    PROVE  /\ n \in DOMAIN diagram.kind /\ n \in JoinNodes(diagram) /\ n \in BeforeJoins(diagram)
           /\ Kind(n) \in {"parallel", "inclusive"}
<1>1. diagram \in Diagrams
  BY DEF Typed, StateTyped
<1>2. In(n) # {}
  BY FS_EmptySet DEF IsJoin
<1>3. n \in DOMAIN diagram.kind
  BY <1>1, <1>2, FlowsOfDiagram DEF In
<1>4. n \in JoinNodes(diagram)
  BY <1>3 DEF IsJoin, IsGateway, Kind, In, Out, JoinNodes, FlowsInto
<1> QED BY <1>1, <1>3, <1>4, BeforeJoinsCloses DEF IsJoin, IsGateway

-----------------------------------------------------------------------------
(* The invariant.                                                          *)

HasRow(f) == rows[f].state # "none"

\* A token of f is under way to n, or an FNI of n was given it.
Sends(f, n) ==
    \/ \E t \in Pending : t[2] = f /\ t[1][2] = n
    \/ \E g \in Fnis : g[1] = n /\ Named(g, f)

\* A token took the flow.
Sent(flow) == \E f \in Fnis : f[1] = flow[1] /\ Sends(f, flow[2])

\* A flow node before a join has one FNI.
OneEach ==
    \A f, g \in Fnis : f[1] = g[1] /\ f[1] \in BeforeJoins(diagram) /\ HasRow(f) /\ HasRow(g) => f = g

\* An exclusive gateway goes one way.
ChoosesOne ==
    \A f \in Fnis, m, n \in AllNodes : Kind(f[1]) = "exclusive" /\ Sends(f, m) /\ Sends(f, n) => m = n

\* Every FNI but the start event's names a predecessor.
HavePrev == \A f \in Fnis : HasRow(f) /\ Kind(f[1]) # "start" => rows[f].prev # {}

\* The PI starts no FNI any more.
Over ==
    \/ pc \in {"interrupt", "fail", "cascade", "ended"}
    \/ pc = "evaluate" /\ \A f \in Fnis : ~Live(mem[f])

\* Until its result is handled a Task has a live row, or has finished it.
HandlersEnd ==
    \A f \in Fnis : Live(mem[f]) =>
        /\ task[f].step \notin {"none", "ok"} => Live(rows[f].state)
        /\ task[f].step = "ok" => rows[f].state = "finished"

\* The PI has forgotten the pass of an inclusive join that it told to fire.
FiredForgotten ==
    \A g \in Fnis :
        /\ IsJoin(g[1]) /\ Kind(g[1]) = "inclusive"
        /\ \/ \E i \in DOMAIN task[g].mail : task[g].mail[i] = Fire
           \/ task[g].step \in {"delete", "finish", "ok"}
        => routing[g[1]].fni # g

LosersCatch == \A g \in losers : IsCatch(g[1])
TodoWhen    == todo # {} => pc \in {"dispatch", "race"}
RoutesIn ==
    \A n \in AllNodes : routing[n].fni # NoFni => IsJoin(n) /\ routing[n].arrived \subseteq In(n)

\* No further token will come through a flow: its node's FNI has ended, and its
\* token there has been dispatched, ...
Passed(flow) ==
    /\ \E s \in Fnis : s[1] = flow[1] /\ Gone(s)
    /\ \A t \in Pending : t[1] # flow

\* ... or nothing that is live, or whose token is under way, is upstream of it.
Shut(flow) ==
    \A f \in Fnis :
        Live(mem[f]) \/ (\E t \in Pending : t[2] = f) => f[1] \notin Analyses[diagram][flow]

\* A join is open, and the flows that have delivered to it have passed, or it is
\* closed: none of its flows will deliver.
Open(g) ==
    /\ routing[g[1]].fni = g /\ Live(mem[g])
    /\ \A flow \in routing[g[1]].arrived : Passed(flow)
Closed(g) == \A flow \in In(g[1]) : Passed(flow) \/ Shut(flow)
JoinsClose == \A g \in Fnis : IsJoin(g[1]) /\ HasRow(g) => Open(g) \/ Closed(g)

Running == HandlersEnd /\ FiredForgotten /\ LosersCatch /\ TodoWhen /\ RoutesIn /\ JoinsClose
OnePass == OneEach /\ ChoosesOne /\ HavePrev /\ (~Over => Running)
Passes  == crashes = 0 /\ diagram \in FiresOnce => OnePass

-----------------------------------------------------------------------------
(* Alternatives.                                                           *)

\* What a diagram on which joins fire once is.
LEMMA FiresOnceIs ==
    ASSUME diagram \in FiresOnce
    PROVE  /\ diagram \in Diagrams /\ Acyclic(diagram)
           /\ \A p \in Alternatives(diagram) : Alternative(diagram, Alternatives(diagram), p[1], p[2])
           /\ \A n \in BeforeJoins(diagram) :
                 /\ diagram.kind[n] = "start" => FlowsInto(diagram, n) = {}
                 /\ n \notin JoinNodes(diagram) =>
                       \A a, b \in FlowsInto(diagram, n) : a # b => <<a, b>> \in Alternatives(diagram)
BY DEF FiresOnce, MergesAlternatives

\* Whoever sends a token has ended, to flow nodes that flows of its own lead to.
LEMMA SendersGone ==
    ASSUME Typed, Once, Race, NEW f \in Fnis, NEW n, Sends(f, n)
    PROVE  Gone(f) /\ HasRow(f) /\ GoesOn(f)
<1>1. Gone(f)
  BY DEF Sends, Once, GoneSources, Race, NamedEnded
<1>2. GoesOn(f)
  BY DEF Sends, GoesOn
<1> QED BY <1>1, <1>2 DEF Gone, HasRow

\* Where a token came from: an FNI that is no start event names an FNI that sent it.
LEMMA CameFrom ==
    ASSUME Typed, Race, HavePrev, NEW f \in Fnis, HasRow(f), Kind(f[1]) # "start"
    PROVE  \E x \in Fnis : /\ Claims(f, x) /\ Sends(x, f[1]) /\ <<x[1], f[1]>> \in diagram.flows
<1>1. PICK x \in rows[f].prev : TRUE
  BY DEF HavePrev
<1>2. x \in Fnis
  BY DEF Typed, RowsTyped, RowRecords
<1>3. Claims(f, x) /\ Named(f, x)
  BY <1>1 DEF Claims, Named
<1> QED BY <1>2, <1>3 DEF Sends, Race, FlowsOnly

\* Of two alternatives one at most was taken.
LEMMA AlternativesExclude ==
    ASSUME Typed, Once, Race, diagram \in FiresOnce, OneEach, ChoosesOne, HavePrev,
           NEW a \in diagram.flows, NEW b \in diagram.flows, <<a, b>> \in Alternatives(diagram),
           a[2] \in BeforeJoins(diagram), b[2] \in BeforeJoins(diagram)
    PROVE  ~(Sent(a) /\ Sent(b))
<1> DEFINE before == {flow \in diagram.flows : flow[2] \in BeforeJoins(diagram)}
           pairs == Alternatives(diagram)
           Bad(x, y) == x \in before /\ y \in before /\ <<x, y>> \in pairs /\ Sent(x) /\ Sent(y)
           First == {x[1] : x \in {z \in before : \E y \in before : Bad(z, y)}}
<1> SUFFICES ASSUME Bad(a, b) PROVE FALSE
  OBVIOUS
<1>d. diagram \in Diagrams /\ Acyclic(diagram)
  BY FiresOnceIs
<1>f. \A flow \in before : flow = <<flow[1], flow[2]>> /\ flow[1] \in DOMAIN diagram.kind /\ flow[2] \in AllNodes
                             /\ flow[1] \in BeforeJoins(diagram)
  BY <1>d, FlowsOfDiagram, BeforeJoinsCloses
<1>1. First \in SUBSET DOMAIN diagram.kind /\ First # {}
  BY <1>f
<1>2. PICK u \in First : \A m \in First : <<m, u>> \notin diagram.flows
  <2> HIDE DEF First
  <2> QED BY <1>1, <1>d, FirstNode
<1> DEFINE Second == {y[1] : y \in {z \in before : \E x \in before : x[1] = u /\ Bad(x, z)}}
<1>3. Second \in SUBSET DOMAIN diagram.kind /\ Second # {}
  <2>1. PICK x \in before : x[1] = u /\ \E y \in before : Bad(x, y)
    OBVIOUS
  <2>2. PICK y \in before : Bad(x, y)
    BY <2>1
  <2> HIDE DEF Bad, before
  <2>3. y \in {z \in before : \E w \in before : w[1] = u /\ Bad(w, z)}
    BY <2>1, <2>2
  <2>4. y[1] \in Second
    BY <2>3
  <2> QED BY <1>f, <2>4 DEF before
<1>4. PICK v \in Second : \A m \in Second : <<m, v>> \notin diagram.flows
  <2> HIDE DEF Second
  <2> QED BY <1>3, <1>d, FirstNode
<1>5. PICK x \in before, y \in before : x[1] = u /\ y[1] = v /\ Bad(x, y)
  OBVIOUS
<1>6. Alternative(diagram, pairs, x, y)
  <2>1. <<x, y>>[1] = x /\ <<x, y>>[2] = y
    OBVIOUS
  <2> QED BY <1>5, <2>1, FiresOnceIs
<1>7. PICK f \in Fnis, h \in Fnis : f[1] = x[1] /\ h[1] = y[1] /\ Sends(f, x[2]) /\ Sends(h, y[2])
  BY <1>5 DEF Sent
<1>8. HasRow(f) /\ HasRow(h) /\ GoesOn(f) /\ GoesOn(h)
  BY <1>7, SendersGone
<1>9. ASSUME x # y, x[1] = y[1], diagram.kind[x[1]] = "exclusive" PROVE FALSE
  <2>1. f = h
    BY <1>f, <1>7, <1>8, <1>9 DEF OneEach
  <2>2. x[2] = y[2]
    BY <1>f, <1>7, <1>9, <2>1 DEF ChoosesOne, Kind
  <2> QED BY <1>f, <1>9, <2>2
<1>10. ASSUME NEW c \in FlowsInto(diagram, x[1]), Kind(x[1]) # "start" PROVE c \in before
  BY <1>f DEF FlowsInto
<1>11. ASSUME NEW c \in FlowsInto(diagram, y[1]), Kind(y[1]) # "start" PROVE c \in before
  BY <1>f DEF FlowsInto
<1>12. ASSUME NEW k \in {f, h}, Kind(k[1]) # "start"
       PROVE  \E e \in Fnis : /\ Claims(k, e) /\ <<e[1], k[1]>> \in FlowsInto(diagram, k[1])
                              /\ Sent(<<e[1], k[1]>>) /\ e[1] \in BeforeJoins(diagram) /\ HasRow(e)
  <2>1. PICK e \in Fnis : Claims(k, e) /\ Sends(e, k[1]) /\ <<e[1], k[1]>> \in diagram.flows
    BY <1>8, <1>12, CameFrom
  <2>2. <<e[1], k[1]>>[1] = e[1] /\ <<e[1], k[1]>>[2] = k[1]
    OBVIOUS
  <2>3. e[1] \in BeforeJoins(diagram)
    BY <1>d, <1>f, <1>7, <2>1, <2>2, BeforeJoinsCloses
  <2>4. HasRow(e)
    BY <2>1, SendersGone
  <2> QED BY <2>1, <2>2, <2>3, <2>4 DEF FlowsInto, Sent
<1>13. ASSUME x[1] # y[1], NEW e \in DOMAIN diagram.kind, diagram.kind[e] = "eventGateway",
              FlowsInto(diagram, x[1]) = {<<e, x[1]>>}, FlowsInto(diagram, y[1]) = {<<e, y[1]>>}
       PROVE  FALSE
  <2>1. Kind(x[1]) # "start" /\ Kind(y[1]) # "start"
    <3>1. <<e, x[1]>> \in diagram.flows /\ <<e, y[1]>> \in diagram.flows
      BY <1>13 DEF FlowsInto
    <3>2. diagram.kind[x[1]] \in {"message", "timer"} /\ diagram.kind[y[1]] \in {"message", "timer"}
      BY <1>d, <1>13, <3>1, DiagramsAssumption
    <3> QED BY <3>2 DEF Kind
  <2>2. PICK p \in Fnis : /\ Claims(f, p) /\ <<p[1], f[1]>> \in FlowsInto(diagram, f[1])
                          /\ p[1] \in BeforeJoins(diagram) /\ HasRow(p)
    BY <1>7, <1>12, <2>1
  <2>3. PICK q \in Fnis : /\ Claims(h, q) /\ <<q[1], h[1]>> \in FlowsInto(diagram, h[1])
                          /\ q[1] \in BeforeJoins(diagram) /\ HasRow(q)
    BY <1>7, <1>12, <2>1
  <2>4. p[1] = e /\ q[1] = e
    BY <1>7, <1>13, <2>2, <2>3
  <2>5. p = q
    BY <2>2, <2>3, <2>4 DEF OneEach
  <2>6. IsEventGateway(p) /\ f # h
    BY <1>7, <1>13, <2>4 DEF IsEventGateway, Kind
  <2> QED BY <1>8, <2>2, <2>3, <2>5, <2>6 DEF Race, Decided
<1>14. ASSUME diagram.kind[x[1]] # "start", FlowsInto(diagram, x[1]) \X {y} \subseteq pairs PROVE FALSE
  <2>1. Kind(x[1]) # "start"
    BY <1>14 DEF Kind
  <2>2. PICK e \in Fnis : <<e[1], x[1]>> \in FlowsInto(diagram, x[1]) /\ Sent(<<e[1], x[1]>>)
    BY <1>7, <1>12, <2>1
  <2> DEFINE c == <<e[1], x[1]>>
  <2>3. c \in before /\ Sent(c) /\ <<c, y>> \in pairs
    BY <1>10, <1>14, <2>1, <2>2
  <2>4. Bad(c, y)
    BY <1>5, <2>3
  <2>5. c[1] \in First /\ c[1] = e[1]
    BY <1>5, <2>3, <2>4
  <2>6. <<e[1], u>> \in diagram.flows
    BY <1>5, <2>2 DEF FlowsInto
  <2> QED BY <1>2, <2>5, <2>6
<1>15. ASSUME diagram.kind[y[1]] # "start", {x} \X FlowsInto(diagram, y[1]) \subseteq pairs PROVE FALSE
  <2>1. Kind(y[1]) # "start"
    BY <1>15 DEF Kind
  <2>2. PICK e \in Fnis : <<e[1], y[1]>> \in FlowsInto(diagram, y[1]) /\ Sent(<<e[1], y[1]>>)
    BY <1>7, <1>12, <2>1
  <2> DEFINE c == <<e[1], y[1]>>
  <2>3. c \in before /\ Sent(c) /\ <<x, c>> \in pairs
    BY <1>11, <1>15, <2>1, <2>2
  <2>4. Bad(x, c)
    BY <1>5, <2>3
  <2>5. c[1] \in Second /\ c[1] = e[1]
    BY <1>5, <2>3, <2>4
  <2>6. <<e[1], v>> \in diagram.flows
    BY <1>5, <2>2 DEF FlowsInto
  <2> QED BY <1>4, <2>5, <2>6
<1> HIDE DEF before, pairs, Bad, First, Second
<1> QED BY <1>6, <1>9, <1>13, <1>14, <1>15 DEF Alternative, pairs

-----------------------------------------------------------------------------
(* What keeps it.                                                          *)

\* New tokens are those of an FNI that was live, and new FNIs start where a token
\* was to go.
TokensFromLive == \A t \in Pending' : t \in Pending \/ Live(mem[t[2]])
LiveFromTokens == \A f \in Fnis : Live(mem'[f]) => Live(mem[f]) \/ \E t \in Pending : t[1][2] = f[1]

\* What is pending after a step are tokens.
LEMMA PendingNext ==
    ASSUME Typed'
    PROVE  \A t \in Pending' : t \in Tokens /\ t[2] \in Fnis
<1>1. todo' \subseteq Tokens
  BY DEF Typed, TodoTyped
<1>2. held' # <<>> => held'[1] \subseteq Tokens
  BY DEF Typed, HeldTyped
<1>3. Pending' \subseteq Tokens
  BY <1>1, <1>2 DEF Pending, HeldTokens
<1> QED BY <1>3, NoTokens

\* The FNI a flow starts at is the only one: once its token has gone there is no other.
LEMMA PassedStays ==
    ASSUME Typed, Typed', Once', OneEach, GoneStays, TokensFromLive,
           NEW flow, flow[1] \in BeforeJoins(diagram), Passed(flow)
    PROVE  Passed(flow)'
<1>1. PICK s \in Fnis : s[1] = flow[1] /\ Gone(s)
  BY DEF Passed
<1>2. Gone(s)'
  BY <1>1 DEF GoneStays
<1>3. ASSUME NEW t \in Pending', t[1] = flow PROVE FALSE
  <2>1. t[2] \in Fnis /\ t[2][1] = flow[1]
    BY <1>3, PendingNext DEF Once, OwnTokens
  <2>2. Live(mem[t[2]])
    BY <1>3 DEF Passed, TokensFromLive
  <2>3. HasRow(t[2]) /\ HasRow(s)
    BY <1>1, <2>1, <2>2 DEF Typed, HaveRows, Live, HasRow, Gone
  <2>4. t[2] = s
    BY <1>1, <2>1, <2>3 DEF OneEach
  <2> QED BY <1>1, <2>2, <2>4 DEF Gone
<1> QED BY <1>1, <1>2, <1>3 DEF Passed

\* Nothing becomes live upstream of a flow but by a token from there.
LEMMA ShutStays ==
    ASSUME Typed, Once, Race, diagram \in FiresOnce, diagram' = diagram, TokensFromLive, LiveFromTokens,
           NEW flow \in diagram.flows, Shut(flow)
    PROVE  Shut(flow)'
<1> DEFINE Up == Upstream(diagram, flow)
<1>d. diagram \in Diagrams /\ Acyclic(diagram)
  BY FiresOnceIs
<1>u. Analyses[diagram][flow] = Up
  BY <1>d DEF Analyses
<1>1. ASSUME NEW t \in Pending, t[1][2] \in Up PROVE FALSE
  <2>1. t[1] \in diagram.flows /\ t[2] \in Fnis /\ t[2][1] = t[1][1]
    BY PendingTokens, NoTokens DEF Race, FlowsOnly, Once, OwnTokens
  <2>2. t[2][1] \notin Up
    BY <1>u, <2>1 DEF Shut
  <2>3. t[1][1] = flow[2]
    BY <1>1, <1>d, <2>1, <2>2, UpstreamCloses
  <2> QED BY <1>1, <1>d, <2>1, <2>3, NoWayBack
<1> HIDE DEF Up
<1>2. ASSUME NEW f \in Fnis, Live(mem'[f]) \/ \E t \in Pending' : t[2] = f PROVE f[1] \notin Up
  <2>1. CASE Live(mem[f]) \/ \E t \in Pending : t[2] = f
    BY <1>u, <2>1 DEF Shut
  <2>2. CASE \E t \in Pending : t[1][2] = f[1]
    BY <1>1, <2>2
  <2> QED BY <1>2, <2>1, <2>2 DEF TokensFromLive, LiveFromTokens
<1>3. Analyses' = Analyses
  BY DEF Analyses
<1> QED BY <1>2, <1>3, <1>u DEF Shut

\* Joins that are closed stay so.
LEMMA ClosedStays ==
    ASSUME Typed, Typed', Once, Once', Race, diagram \in FiresOnce, diagram' = diagram, OneEach, GoneStays,
           TokensFromLive, LiveFromTokens, NEW g \in Fnis, IsJoin(g[1]), Closed(g)
    PROVE  Closed(g)'
<1>1. In(g[1])' = In(g[1])
  BY SameNodes
<1>2. ASSUME NEW flow \in In(g[1]) PROVE flow \in diagram.flows /\ flow[1] \in BeforeJoins(diagram)
  <2>1. diagram \in Diagrams /\ flow \in diagram.flows /\ flow[2] = g[1]
    BY FiresOnceIs DEF In
  <2> QED BY <2>1, JoinIsNode, BeforeJoinsCloses
<1>3. ASSUME NEW flow \in In(g[1]) PROVE Passed(flow)' \/ Shut(flow)'
  <2>1. CASE Passed(flow)
    BY <1>2, <2>1, PassedStays
  <2>2. CASE Shut(flow)
    BY <1>2, <2>2, ShutStays
  <2> QED BY <2>1, <2>2 DEF Closed
<1> QED BY <1>1, <1>3 DEF Closed

\* An exclusive gateway, or a source, that sends no more goes where it went.
SendsKept == \A f \in Fnis, n \in AllNodes : Sends(f, n)' => Sends(f, n)
LEMMA ChoosesKept ==
    ASSUME ChoosesOne, diagram' = diagram, SendsKept
    PROVE  ChoosesOne'
<1>1. \A n : Kind(n)' = Kind(n)
  BY SameNodes
<1> QED BY <1>1 DEF ChoosesOne, SendsKept

\* Nobody sends anew without a new token or a new claim.
LEMMA SendsByTokens ==
    ASSUME NamedKept, Pending' \subseteq Pending
    PROVE  SendsKept
BY DEF SendsKept, Sends, NamedKept

\* A step that creates no row keeps them one each, and their predecessors.
RowsKeep ==
    \A f \in Fnis : HasRow(f)' => HasRow(f) /\ (rows[f].prev # {} => rows'[f].prev # {})
LEMMA RowsKept ==
    ASSUME diagram' = diagram, OneEach, HavePrev, RowsKeep
    PROVE  OneEach' /\ HavePrev'
<1>1. \A n : Kind(n)' = Kind(n)
  BY SameNodes
<1> QED BY <1>1 DEF OneEach, HavePrev, RowsKeep

\* Every join stays open, or closes.
LEMMA JoinsStayClosed ==
    ASSUME Typed, Typed', Once, Once', Race, diagram \in FiresOnce, diagram' = diagram, OneEach, GoneStays,
           TokensFromLive, LiveFromTokens, RoutesIn, JoinsClose, NEW g \in Fnis, IsJoin(g[1]), HasRow(g),
           Open(g) => Closed(g) \/ (Live(mem'[g]) /\ routing'[g[1]] = routing[g[1]])
    PROVE  Open(g)' \/ Closed(g)'
<1>1. CASE Closed(g)
  BY <1>1, ClosedStays
<1>2. CASE Open(g) /\ Live(mem'[g]) /\ routing'[g[1]] = routing[g[1]]
  <2>1. g[1] \in AllNodes /\ routing[g[1]].fni # NoFni
    BY <1>2, NoTokens DEF Open
  <2>2. ASSUME NEW flow \in routing[g[1]].arrived PROVE Passed(flow)'
    <3>1. flow \in diagram.flows /\ flow[2] = g[1]
      BY <2>1 DEF RoutesIn, In
    <3>2. flow[1] \in BeforeJoins(diagram)
      BY <3>1, JoinIsNode, FiresOnceIs, BeforeJoinsCloses
    <3> QED BY <1>2, <3>2, PassedStays DEF Open
  <2> QED BY <1>2, <2>2 DEF Open
<1> QED BY <1>1, <1>2 DEF JoinsClose

\* A step that creates no row keeps all of it.
LEMMA OnePassKept ==
    ASSUME Typed, Typed', Once, Once', Race, diagram \in FiresOnce, diagram' = diagram, OnePass, GoneStays,
           RowsKeep, ChoosesOne',
           ~Over' =>
               /\ ~Over /\ TokensFromLive /\ LiveFromTokens
               /\ HandlersEnd' /\ FiredForgotten' /\ LosersCatch' /\ TodoWhen' /\ RoutesIn'
               /\ \A g \in Fnis :
                     IsJoin(g[1]) /\ HasRow(g) /\ Open(g)
                         => Closed(g) \/ (Live(mem'[g]) /\ routing'[g[1]] = routing[g[1]])
    PROVE  OnePass'
<1>1. OneEach' /\ HavePrev'
  BY RowsKept DEF OnePass
<1>2. ASSUME ~Over' PROVE JoinsClose'
  <2> SUFFICES ASSUME NEW g \in Fnis, IsJoin(g[1])', HasRow(g)' PROVE Open(g)' \/ Closed(g)'
    BY DEF JoinsClose
  <2>1. IsJoin(g[1]) /\ HasRow(g)
    BY SameNodes DEF RowsKeep
  <2> QED BY <1>2, <2>1, JoinsStayClosed DEF OnePass, Running
<1> QED BY <1>1, <1>2 DEF OnePass, Running

\* A row that ends, or parks, creates none.
LEMMA EndKeeps ==
    ASSUME Typed, rows' = rows \/ \E f \in Fnis, s \in States \ {"none"} : rows' = End(f, s)
    PROVE  RowsKeep
<1>1. CASE rows' = rows
  BY <1>1 DEF RowsKeep, HasRow
<1>2. ASSUME NEW f \in Fnis, NEW s \in States \ {"none"}, rows' = End(f, s) PROVE RowsKeep
  BY <1>2, EndMoves DEF RowsKeep, HasRow, RowMoves
<1> QED BY <1>1, <1>2

\* What is under way stays when nothing is dispatched, held or let go.
LEMMA SameTokens ==
    ASSUME UNCHANGED <<todo, held>>
    PROVE  Pending' = Pending /\ TokensFromLive
BY DEF Pending, HeldTokens, TokensFromLive

-----------------------------------------------------------------------------
(* Handlers.                                                               *)

FireIn(g) == \E i \in DOMAIN task[g].mail : task[g].mail[i] = Fire

\* What a handler leaves behind: a live row until it reports success, and then a
\* finished one; only an inclusive join that was told to fire goes on to finish.
LEMMA HandlerOutcome ==
    ASSUME Typed, NEW f \in Fnis, HandlerStep(f) \/ Trigger(f) \/ Fail(f)
    PROVE  /\ rows[f].prev # {} => rows'[f].prev # {}
           /\ Live(rows[f].state) =>
                 /\ task'[f].step # "ok" => Live(rows'[f].state)
                 /\ task'[f].step = "ok" => rows'[f].state = "finished"
           /\ IsJoin(f[1]) /\ Kind(f[1]) = "inclusive" /\ (FireIn(f)' \/ task'[f].step \in {"delete", "finish", "ok"})
                 => FireIn(f) \/ task[f].step \in {"delete", "finish", "ok"}
<1>r. TasksTyped /\ RowsTyped /\ task[f] \in TaskRecords /\ rows[f] \in RowRecords
  BY DEF Typed, TasksTyped, RowsTyped
<1>j. IsJoin(f[1]) => ~IsCatch(f[1])
  BY DEF IsJoin, IsGateway, IsCatch
<1>1. CASE Enter(f) \/ Park(f) \/ Trigger(f)
  <2>1. PICK s \in {"finished", "waiting"}, st \in {"ok", "async"} :
          rows' = End(f, s) /\ Step(f, st) /\ (s = "finished" <=> st = "ok")
    BY <1>1 DEF Enter, Park, Trigger
  <2>2. ~IsJoin(f[1])
    BY <1>1, <1>j DEF Enter, Park, Trigger
  <2>3. task'[f].step = st
    BY <1>r, <2>1, StepTyped DEF Steps
  <2>4. rows'[f].prev = rows[f].prev /\ (Live(rows[f].state) => rows'[f].state = s)
    BY <1>r, <2>1, EndTyped DEF States
  <2> QED BY <2>1, <2>2, <2>3, <2>4 DEF Live
<1>2. CASE EnterJoin(f) \/ DeleteArrivals(f) \/ Fail(f)
  <2>1. PICK st \in {"async", "finish", "error"} :
          rows' = rows /\ Step(f, st) /\ (st = "finish" => task[f].step = "delete")
    BY <1>2 DEF EnterJoin, DeleteArrivals, Fail, dbVars
  <2>2. task'[f].step = st /\ task'[f].mail = task[f].mail
    BY <1>r, <2>1, StepTyped DEF Steps
  <2> QED BY <2>1, <2>2 DEF FireIn
<1>3. CASE FinishJoin(f)
  <2>1. Step(f, "ok") /\ task[f].step = "finish"
    BY <1>3 DEF FinishJoin
  <2>2. task'[f].step = "ok"
    BY <1>r, <2>1, StepTyped DEF Steps
  <2> DEFINE sources == {token[2] : token \in task[f].acc} \ {NoFni}
  <2>3. CASE Live(rows[f].state) /\ sources # {}
    <3>1. rows' = [rows EXCEPT ![f] = [state |-> "finished", prev |-> sources]]
      BY <1>3, <2>3 DEF FinishJoin
    <3>2. rows'[f] = [state |-> "finished", prev |-> sources]
      BY <1>r, <3>1 DEF RowsTyped
    <3> QED BY <2>1, <2>2, <2>3, <3>2
  <2>4. CASE ~(Live(rows[f].state) /\ sources # {})
    <3>1. rows' = End(f, "finished")
      BY <1>3, <2>4 DEF FinishJoin
    <3>2. rows'[f].prev = rows[f].prev /\ (Live(rows[f].state) => rows'[f].state = "finished")
      BY <1>r, <3>1, EndTyped DEF States
    <3> QED BY <2>1, <2>2, <3>2
  <2> QED BY <2>3, <2>4
<1>4. CASE Receive(f)
  <2> DEFINE message == Head(task[f].mail)
  <2>1. task[f].mail # <<>> /\ task[f].mail \in Seq(Tokens \cup {Fire}) /\ rows' = rows
    BY <1>4, <1>r DEF Receive, TaskRecords
  <2>2. PICK st \in {"delete", "receive", "error"}, acc \in {task[f].acc, task[f].acc \cup {message}} :
          /\ task' = [task EXCEPT ![f] = [step |-> st, mail |-> Tail(task[f].mail), acc |-> acc]]
          /\ st = "delete" /\ Kind(f[1]) # "parallel" => message = Fire
    BY <1>4 DEF Receive
  <2>3. task'[f] = [step |-> st, mail |-> Tail(task[f].mail), acc |-> acc]
    BY <1>r, <2>2 DEF TasksTyped
  <2>4. /\ message = task[f].mail[1] /\ 1 \in DOMAIN task[f].mail
        /\ \A i \in DOMAIN Tail(task[f].mail) : i + 1 \in DOMAIN task[f].mail /\ Tail(task[f].mail)[i] = task[f].mail[i + 1]
    BY <2>1, MailTail
  <2> HIDE DEF message
  <2>5. FireIn(f)' => FireIn(f)
    BY <2>3, <2>4 DEF FireIn
  <2>6. Kind(f[1]) = "inclusive" /\ task'[f].step = "delete" => FireIn(f)
    BY <2>2, <2>3, <2>4 DEF FireIn
  <2> QED BY <2>1, <2>2, <2>3, <2>5, <2>6
<1> QED BY <1>1, <1>2, <1>3, <1>4 DEF HandlerStep

\* A handler starts nothing and sends nothing.
LEMMA OnePassHandler ==
    ASSUME Typed, Typed', Quiet, Once, Once', Race, Joins, diagram \in FiresOnce, OnePass,
           NEW f \in Fnis, HandlerStep(f) \/ Trigger(f) \/ Fail(f)
    PROVE  OnePass'
<1>1. HandlerMoves(f) /\ \A g \in Fnis \ {f} : task'[g] = task[g]
  BY JoinsOtherHandler
<1>2. /\ UNCHANGED <<diagram, pc, todo, mem, routing, losers, held>> /\ task[f].step \notin {"none", "ok"}
      /\ \A g \in Fnis \ {f} : rows'[g] = rows[g] /\ task'[g] = task[g]
      /\ RowMoves(f) /\ CarriedKept /\ ClaimsKept
  BY <1>1 DEF HandlerMoves
<1>o. /\ rows[f].prev # {} => rows'[f].prev # {}
      /\ Live(rows[f].state) =>
            /\ task'[f].step # "ok" => Live(rows'[f].state)
            /\ task'[f].step = "ok" => rows'[f].state = "finished"
      /\ IsJoin(f[1]) /\ Kind(f[1]) = "inclusive" /\ (FireIn(f)' \/ task'[f].step \in {"delete", "finish", "ok"})
            => FireIn(f) \/ task[f].step \in {"delete", "finish", "ok"}
  BY HandlerOutcome
<1>k. \A n : In(n)' = In(n) /\ Kind(n)' = Kind(n) /\ (IsJoin(n)' <=> IsJoin(n))
  BY <1>2, SameNodes
<1>3. GoneStays
  BY <1>2, GoneByRows DEF RowMoves
<1>4. RowsKeep
  BY <1>2, <1>o DEF RowsKeep, HasRow, RowMoves
<1>5. Pending' = Pending /\ TokensFromLive
  BY <1>2, SameTokens
<1>6. ChoosesOne'
  BY <1>2, <1>5, NamedByClaims, SendsByTokens, ChoosesKept DEF OnePass
<1>7. LiveFromTokens /\ (Over' <=> Over)
  BY <1>2 DEF LiveFromTokens, Over
<1>8. ASSUME Running
      PROVE  HandlersEnd' /\ FiredForgotten' /\ LosersCatch' /\ TodoWhen' /\ RoutesIn'
  <2>1. HandlersEnd'
    BY <1>2, <1>8, <1>o DEF Running, HandlersEnd
  <2>2. FiredForgotten'
    BY <1>2, <1>8, <1>o, <1>k DEF Running, FiredForgotten, FireIn
  <2>3. LosersCatch' /\ TodoWhen' /\ RoutesIn'
    BY <1>2, <1>8, <1>k DEF Running, LosersCatch, IsCatch, TodoWhen, RoutesIn
  <2> QED BY <2>1, <2>2, <2>3
<1>9. \A g \in Fnis : Open(g) => Live(mem'[g]) /\ routing'[g[1]] = routing[g[1]]
  BY <1>2 DEF Open
<1> QED BY <1>2, <1>3, <1>4, <1>5, <1>6, <1>7, <1>8, <1>9, OnePassKept DEF OnePass

-----------------------------------------------------------------------------
(* The PI's messages.                                                      *)

\* A PI that starts nothing any more keeps what it started.
LEMMA OnePassOver ==
    ASSUME Typed, Typed', Once, Once', Race, diagram \in FiresOnce, diagram' = diagram, OnePass, GoneStays,
           RowsKeep, ClaimsKept, CarriedKept, Pending' \subseteq Pending, Over'
    PROVE  OnePass'
<1>1. ChoosesOne'
  BY NamedByClaims, SendsByTokens, ChoosesKept DEF OnePass
<1> QED BY <1>1, OnePassKept

\* A handler that waits goes on waiting.
LEMMA OnePassAsync ==
    ASSUME Typed, Typed', Once, Once', Race, diagram \in FiresOnce, OnePass, NEW f \in Fnis, HandleAsync(f)
    PROVE  OnePass'
<1>1. FniMoves(f) /\ GoneStays
  BY PiMovesOne, GoneByFni
<1>2. /\ pc = "idle" /\ pc' = "evaluate" /\ task[f].step = "async" /\ Live(mem[f])
      /\ rows' = End(f, "waiting") /\ mem' = [mem EXCEPT ![f] = "waiting"] /\ Step(f, "receive")
      /\ UNCHANGED <<diagram, todo, routing, winner, losers, held>>
  BY DEF HandleAsync, ebgVars
<1>3. /\ RowsKeep
      /\ \A g \in Fnis \ {f} : rows'[g] = rows[g] /\ mem'[g] = mem[g]
      /\ mem'[f] = "waiting"
      /\ \A g \in Fnis : /\ task'[g].step = IF g = f THEN "receive" ELSE task[g].step
                         /\ task'[g].mail = task[g].mail
  <2>1. RowsKeep
    BY <1>2, EndKeeps DEF States
  <2>2. mem'[f] = "waiting"
    BY <1>2 DEF Typed, MemTyped
  <2>3. \A g \in Fnis : /\ task'[g].step = IF g = f THEN "receive" ELSE task[g].step
                        /\ task'[g].mail = task[g].mail
    BY <1>2, StepTyped DEF Typed, Steps
  <2> QED BY <1>1, <2>1, <2>2, <2>3 DEF FniMoves
<1>4. Pending' = Pending /\ TokensFromLive
  BY <1>2, SameTokens
<1>5. ChoosesOne'
  BY <1>1, <1>2, <1>4, NamedByClaims, SendsByTokens, ChoosesKept DEF OnePass, FniMoves
<1>6. LiveFromTokens /\ ~Over /\ Running /\ todo = {}
  BY <1>2, <1>3 DEF LiveFromTokens, Over, OnePass, Running, TodoWhen
<1>k. \A n : In(n)' = In(n) /\ Kind(n)' = Kind(n) /\ (IsJoin(n)' <=> IsJoin(n))
  BY <1>2, SameNodes
<1>7. HandlersEnd'
  <2>1. Live(rows[f].state)
    BY <1>2, <1>6 DEF Running, HandlersEnd
  <2>2. rows'[f].state = "waiting"
    BY <1>2, <2>1, EndTyped DEF Typed, States
  <2> QED BY <1>3, <1>6, <2>2 DEF HandlersEnd, Running, Live
<1>8. FiredForgotten'
  BY <1>2, <1>3, <1>6, <1>k DEF Running, FiredForgotten
<1>9. LosersCatch' /\ TodoWhen' /\ RoutesIn'
  BY <1>2, <1>6, <1>k DEF Running, LosersCatch, IsCatch, TodoWhen, RoutesIn
<1>10. \A g \in Fnis : Open(g) => Live(mem'[g]) /\ routing'[g[1]] = routing[g[1]]
  BY <1>2, <1>3 DEF Open, Live
<1> QED BY <1>1, <1>2, <1>3, <1>4, <1>5, <1>6, <1>7, <1>8, <1>9, <1>10, OnePassKept

\* A join whose result is accepted is closed: a parallel one has taken a token of
\* every flow, an inclusive one was told to fire.
LEMMA OkCloses ==
    ASSUME Typed, Once, Race, Joins, diagram \in FiresOnce, OneEach, HandlersEnd, FiredForgotten,
           NEW f \in Fnis, IsJoin(f[1]), Live(mem[f]), task[f].step = "ok", Open(f)
    PROVE  Closed(f)
<1>1. Kind(f[1]) = "parallel" /\ rows[f].state = "finished"
  BY JoinIsNode DEF FiredForgotten, HandlersEnd, Open
<1>2. {<<s[1], f[1]>> : s \in rows[f].prev} = In(f[1])
  BY <1>1 DEF Joins, JoinComplete
<1>3. ASSUME NEW flow \in In(f[1]) PROVE Passed(flow)
  <2>1. PICK s \in rows[f].prev : flow = <<s[1], f[1]>>
    BY <1>2
  <2>2. s \in Fnis
    BY DEF Typed, RowsTyped, RowRecords
  <2>3. Claims(f, s) /\ Gone(s) /\ s[1] = flow[1] /\ flow[2] = f[1]
    BY <2>1, <2>2 DEF Claims, Once, GoneSources
  <2>4. flow[1] \in BeforeJoins(diagram)
    BY <2>3, JoinIsNode, FiresOnceIs, BeforeJoinsCloses DEF In
  <2>5. ASSUME NEW t \in Pending, t[1] = flow PROVE FALSE
    <3>1. t[2] \in Fnis /\ Gone(t[2]) /\ t[2][1] = flow[1]
      BY <2>5, PendingTokens, NoTokens DEF Once, GoneSources, OwnTokens
    <3>2. t[2] = s
      BY <2>2, <2>3, <2>4, <3>1 DEF OneEach, HasRow, Gone
    <3> QED BY <2>3, <2>5, <3>2 DEF Once, Unclaimed
  <2> QED BY <2>2, <2>3, <2>5 DEF Passed
<1> QED BY <1>3 DEF Closed

\* The tokens of a finished FNI are its first, on the flows of one selection.
LEMMA OnePassOk ==
    ASSUME Typed, Typed', Once, Once', Race, Joins, diagram \in FiresOnce, OnePass, NEW f \in Fnis, HandleOk(f)
    PROVE  OnePass'
<1>1. FniMoves(f) /\ ClaimsKept /\ CarriedKept /\ GoneStays /\ diagram' = diagram
  BY PiMovesOne, GoneByFni DEF FniMoves
<1>2. PICK flows \in Taken(f[1]) :
         IF Kind(f[1]) = "terminate" \/ LiveRivals(f) # {}
         THEN /\ todo' = TokensOf(f, flows) /\ UNCHANGED held
              /\ IF Kind(f[1]) = "terminate" THEN pc' = "interrupt" /\ UNCHANGED winner
                 ELSE pc' = "race" /\ winner' = f
         ELSE DispatchOrHold(TokensOf(f, flows)) /\ UNCHANGED winner
  BY DEF HandleOk
<1> DEFINE new == TokensOf(f, flows)
<1>3. \A t \in new : t \in Tokens /\ t[2] = f /\ t[1] \in flows
  BY TakenOut, TokensOfTyped DEF Typed, StateTyped
<1>4. /\ pc = "idle" /\ Live(mem[f]) /\ losers' = losers /\ UNCHANGED <<rows, routing>> /\ task[f].step = "ok"
      /\ mem' = [mem EXCEPT ![f] = "finished"] /\ task' = [task EXCEPT ![f] = NoTask]
  BY DEF HandleOk, dbVars
<1>5. /\ \/ todo' = new /\ held' = held /\ (todo' # {} => pc' \in {"race", "interrupt", "dispatch"})
         \/ todo' = {} /\ held' = <<new>>
  BY <1>2 DEF DispatchOrHold
<1> HIDE DEF new
<1>6. \A n : ~Sends(f, n)
  BY <1>4, SendersGone DEF Gone
<1>7. \A t \in Pending' : t \in new \/ t \in Pending
  BY <1>3, <1>5 DEF Pending, HeldTokens
<1>8. NamedKept
  BY <1>1, NamedByClaims
<1>k. \A n : In(n)' = In(n) /\ Kind(n)' = Kind(n) /\ (IsJoin(n)' <=> IsJoin(n))
  BY <1>1, SameNodes
<1>9. ASSUME NEW x \in Fnis \ {f}, NEW n \in AllNodes, Sends(x, n)' PROVE Sends(x, n)
  BY <1>3, <1>7, <1>8, <1>9 DEF Sends, NamedKept
<1>10. ASSUME NEW n \in AllNodes, Sends(f, n)' PROVE \E flow \in flows : flow[2] = n
  BY <1>3, <1>6, <1>7, <1>8, <1>10 DEF Sends, NamedKept
<1>11. ChoosesOne'
  <2> SUFFICES ASSUME NEW x \in Fnis, NEW m \in AllNodes, NEW n \in AllNodes, Kind(x[1]) = "exclusive",
                      Sends(x, m)', Sends(x, n)'
               PROVE  m = n
    BY <1>k DEF ChoosesOne
  <2>1. CASE x # f
    BY <1>9, <2>1 DEF OnePass, ChoosesOne
  <2>2. CASE x = f
    <3>1. flows \in {{flow} : flow \in Out(f[1])}
      BY <2>2 DEF Taken, Selections
    <3> QED BY <1>10, <2>2, <3>1
  <2> QED BY <2>1, <2>2
<1>12. TokensFromLive
  BY <1>3, <1>4, <1>7 DEF TokensFromLive
<1>13. /\ mem'[f] = "finished" /\ task'[f] = NoTask
       /\ \A g \in Fnis \ {f} : mem'[g] = mem[g] /\ task'[g] = task[g]
  BY <1>4 DEF Typed, MemTyped, TasksTyped
<1>14. LiveFromTokens /\ RowsKeep
  BY <1>4, <1>13, EndKeeps DEF LiveFromTokens, Live
<1>15. ~Over /\ Running
  BY <1>4 DEF Over, OnePass
<1>16. HandlersEnd'
  BY <1>4, <1>13, <1>15 DEF Running, HandlersEnd, Live
<1>17. FiredForgotten'
  BY <1>4, <1>13, <1>15, <1>k, KilledTask DEF Running, FiredForgotten
<1>18. LosersCatch' /\ RoutesIn'
  BY <1>4, <1>15, <1>k DEF Running, LosersCatch, IsCatch, RoutesIn
<1>19. TodoWhen' \/ Over'
  BY <1>5 DEF TodoWhen, Over
<1>20. ASSUME NEW g \in Fnis, IsJoin(g[1]), Open(g)
       PROVE  Closed(g) \/ (Live(mem'[g]) /\ routing'[g[1]] = routing[g[1]])
  <2>1. CASE g = f
    BY <1>4, <1>15, <1>20, <2>1, OkCloses DEF OnePass, Running
  <2>2. CASE g # f
    BY <1>4, <1>13, <1>20, <2>2 DEF Open
  <2> QED BY <2>1, <2>2
<1> QED BY <1>1, <1>11, <1>12, <1>14, <1>15, <1>16, <1>17, <1>18, <1>19, <1>20, OnePassKept

\* One FNI that is no join is ended: by its own report, or as a loser.
LEMMA OnePassEnds ==
    ASSUME Typed, Typed', Once, Once', Race, diagram \in FiresOnce, OnePass, NEW f \in Fnis, ~IsJoin(f[1]),
           FniMoves(f), NEW s \in States \ {"none"}, rows' = End(f, s),
           mem' = [mem EXCEPT ![f] = "interrupted"], task' = [task EXCEPT ![f] = NoTask],
           UNCHANGED <<routing, losers>>, Pending' \subseteq Pending, ~Over, TodoWhen'
    PROVE  OnePass'
<1>1. /\ GoneStays /\ diagram' = diagram /\ ClaimsKept /\ CarriedKept /\ RowsKeep
      /\ \A g \in Fnis \ {f} : rows'[g] = rows[g] /\ mem'[g] = mem[g]
  BY GoneByFni, EndKeeps DEF FniMoves
<1>2. ChoosesOne'
  BY <1>1, NamedByClaims, SendsByTokens, ChoosesKept DEF OnePass
<1>3. /\ mem'[f] = "interrupted" /\ task'[f] = NoTask
      /\ \A g \in Fnis \ {f} : task'[g] = task[g]
  BY DEF Typed, MemTyped, TasksTyped
<1>4. TokensFromLive /\ LiveFromTokens /\ Running
  BY <1>1, <1>3 DEF TokensFromLive, LiveFromTokens, Live, OnePass
<1>k. \A n : In(n)' = In(n) /\ Kind(n)' = Kind(n) /\ (IsJoin(n)' <=> IsJoin(n))
  BY <1>1, SameNodes
<1>5. HandlersEnd'
  BY <1>1, <1>3, <1>4 DEF Running, HandlersEnd, Live
<1>6. FiredForgotten'
  BY <1>1, <1>3, <1>4, <1>k DEF Running, FiredForgotten
<1>7. LosersCatch' /\ RoutesIn'
  BY <1>4, <1>k DEF Running, LosersCatch, IsCatch, RoutesIn
<1>8. \A g \in Fnis : IsJoin(g[1]) /\ Open(g) => Live(mem'[g]) /\ routing'[g[1]] = routing[g[1]]
  BY <1>1 DEF Open
<1> QED BY <1>1, <1>2, <1>4, <1>5, <1>6, <1>7, <1>8, OnePassKept

\* Whoever rivals a winner is a catch event.
LEMMA RivalIsCatch ==
    ASSUME Typed, Race, NEW f \in Fnis, NEW g \in Rivals(f)
    PROVE  g \in Fnis /\ IsCatch(g[1])
<1>1. g \in Fnis
  BY DEF Rivals
<1>2. PICK e \in rows[f].prev \cap rows[g].prev : Kind(e[1]) = "eventGateway"
  BY DEF Rivals
<1>3. e \in Fnis /\ Claims(g, e)
  BY <1>1, <1>2 DEF Typed, RowsTyped, RowRecords, Claims
<1> QED BY <1>1, <1>2, <1>3, BehindIsCatch DEF Race, FlowsOnly, IsEventGateway

\* No catch event is a join.
LEMMA CatchIsNoJoin == \A n : IsCatch(n) => ~IsJoin(n)
BY DEF IsCatch, IsJoin, IsGateway

\* A stamped loser is ended, and may let the tokens held go.
LEMMA OnePassLoser ==
    ASSUME Typed, Typed', Once, Once', Race, diagram \in FiresOnce, OnePass, NEW f \in Fnis, HandleLoser(f)
    PROVE  OnePass'
<1>1. /\ pc = "idle" /\ f \in losers /\ rows' = End(f, "interrupted")
      /\ mem' = [mem EXCEPT ![f] = "interrupted"] /\ task' = [task EXCEPT ![f] = NoTask]
      /\ UNCHANGED <<routing, losers>>
      /\ \/ UNCHANGED <<todo, held>>
         \/ held # <<>> /\ todo' = held[1] /\ held' = <<>> /\ pc' = IF todo' = {} THEN "evaluate" ELSE "dispatch"
  BY DEF HandleLoser
<1>2. ~Over /\ Running /\ todo = {}
  BY <1>1 DEF Over, OnePass, Running, TodoWhen
<1>3. ~IsJoin(f[1])
  BY <1>1, <1>2, CatchIsNoJoin DEF Running, LosersCatch
<1>4. Pending' \subseteq Pending
  BY <1>1 DEF Pending, HeldTokens
<1>5. TodoWhen'
  BY <1>1, <1>2 DEF TodoWhen
<1> QED BY <1>1, <1>2, <1>3, <1>4, <1>5, PiMovesOne, OnePassEnds DEF States

\* So is a rival that waits.
LEMMA OnePassCancel ==
    ASSUME Typed, Typed', Once, Once', Race, diagram \in FiresOnce, OnePass, CancelRival
    PROVE  OnePass'
<1>1. /\ pc = "race" /\ pc' = "race" /\ UNCHANGED <<diagram, gpa, piRow, todo, held, routing, losers, crashes>>
      /\ winner \in Fnis
  BY DEF CancelRival, ebgVars, Race, WinnerIsCatch
<1>2. PICK g \in LiveRivals(winner) :
         /\ mem[g] = "waiting" /\ rows' = End(g, "interrupted") /\ mem' = [mem EXCEPT ![g] = "interrupted"]
         /\ task' = [task EXCEPT ![g] = NoTask]
  BY DEF CancelRival
<1>3. g \in Fnis /\ IsCatch(g[1]) /\ Live(mem[g])
  BY <1>1, RivalIsCatch DEF LiveRivals
<1>4. FniMoves(g)
  <2>1. ~Live(rows'[g].state)
    BY <1>2, <1>3, EndMoves DEF States, Live
  <2>2. "interrupted" \in States \ {"none"}
    BY DEF States
  <2> QED BY <1>1, <1>2, <1>3, <2>1, <2>2, FniEnds
<1>5. ~IsJoin(g[1])
  BY <1>3, CatchIsNoJoin
<1>6. Pending' \subseteq Pending /\ ~Over /\ TodoWhen'
  BY <1>1 DEF Pending, HeldTokens, Over, TodoWhen
<1> QED BY <1>1, <1>2, <1>3, <1>4, <1>5, <1>6, OnePassEnds DEF States

\* The tokens of a winner are dispatched, or held, and its rivals stamped.
LEMMA OnePassStamp ==
    ASSUME Typed, Typed', Once, Once', Race, diagram \in FiresOnce, OnePass, StampRivals
    PROVE  OnePass'
<1>1. /\ pc = "race" /\ UNCHANGED <<rows, gpa, task, mem, routing, diagram>>
      /\ losers' = losers \cup LiveRivals(winner) /\ winner \in Fnis
  BY DEF StampRivals, dbVars, Race, WinnerIsCatch
<1>2. /\ \/ todo' = todo /\ held' = held /\ pc' = IF todo = {} THEN "evaluate" ELSE "dispatch"
         \/ todo' = {} /\ held' = <<todo>> /\ pc' = "evaluate"
  BY DEF StampRivals, DispatchOrHold
<1>3. ClaimsKept /\ CarriedKept /\ GoneStays /\ RowsKeep
  BY <1>1, EndKeeps DEF ClaimsKept, Claims, CarriedKept, Carried, GoneStays, Gone
<1>4. Pending' \subseteq Pending
  BY <1>2 DEF Pending, HeldTokens
<1>5. ChoosesOne'
  BY <1>1, <1>3, <1>4, NamedByClaims, SendsByTokens, ChoosesKept DEF OnePass
<1>6. TokensFromLive /\ LiveFromTokens /\ ~Over /\ Running
  BY <1>1, <1>4 DEF TokensFromLive, LiveFromTokens, Over, OnePass
<1>k. \A n : In(n)' = In(n) /\ Kind(n)' = Kind(n) /\ (IsJoin(n)' <=> IsJoin(n))
  BY <1>1, SameNodes
<1>7. HandlersEnd' /\ FiredForgotten' /\ RoutesIn' /\ TodoWhen'
  BY <1>1, <1>2, <1>6, <1>k DEF Running, HandlersEnd, FiredForgotten, RoutesIn, TodoWhen
<1>8. LosersCatch'
  <2>1. \A g \in losers' : IsCatch(g[1])
    BY <1>1, <1>6, RivalIsCatch DEF Running, LosersCatch, LiveRivals
  <2> QED BY <1>k, <2>1 DEF LosersCatch, IsCatch
<1>9. \A g \in Fnis : Open(g) => Live(mem'[g]) /\ routing'[g[1]] = routing[g[1]]
  BY <1>1 DEF Open
<1> QED BY <1>1, <1>3, <1>5, <1>6, <1>7, <1>8, <1>9, OnePassKept

-----------------------------------------------------------------------------
(* The tokens.                                                             *)

\* A token that is to be dispatched took a flow of the diagram.
LEMMA TokenTakesFlow ==
    ASSUME Typed, Once, Race, NEW token \in Pending
    PROVE  /\ token \in Tokens /\ token[2] \in Fnis /\ token[1] \in diagram.flows
           /\ token[1] = <<token[2][1], token[1][2]>> /\ token[2][1] = token[1][1]
           /\ Gone(token[2]) /\ HasRow(token[2]) /\ token[1][2] \in AllNodes
<1>1. token \in Tokens /\ token[2] \in Fnis
  BY PendingTokens, NoTokens
<1>2. token[1] \in diagram.flows /\ token[2][1] = token[1][1] /\ Gone(token[2])
  BY DEF Race, FlowsOnly, Once, OwnTokens, GoneSources
<1>3. token[1] = <<token[1][1], token[1][2]>> /\ token[1][2] \in AllNodes
  BY <1>2, FlowsOfDiagram DEF Typed, StateTyped
<1> QED BY <1>1, <1>2, <1>3 DEF Gone, HasRow

\* No token comes to a join through a flow that has passed or is shut.
LEMMA NoneComes ==
    ASSUME Typed, Once, Race, diagram \in FiresOnce, NEW token \in Pending
    PROVE  ~Passed(token[1]) /\ ~Shut(token[1])
<1>1. token[1] \in diagram.flows /\ token[2] \in Fnis /\ token[2][1] = token[1][1]
  BY TokenTakesFlow
<1>2. diagram \in Diagrams /\ Acyclic(diagram)
  BY FiresOnceIs
<1>3. token[1][1] \in Upstream(diagram, token[1])
  BY <1>1, <1>2, NoSelfLoop, UpstreamCloses
<1>4. ~Shut(token[1])
  BY <1>1, <1>2, <1>3 DEF Shut, Analyses
<1> QED BY <1>4 DEF Passed

\* A token on its way to a join that has an FNI finds it open, and its flow unused.
LEMMA JoinIsOpen ==
    ASSUME Typed, Once, Race, diagram \in FiresOnce, JoinsClose, NEW token \in Pending,
           IsJoin(token[1][2]), NEW g \in Fnis, g[1] = token[1][2], HasRow(g)
    PROVE  Open(g) /\ token[1] \notin routing[g[1]].arrived
<1>1. ~Passed(token[1]) /\ ~Shut(token[1])
  BY NoneComes
<1>2. token[1] \in In(g[1])
  BY TokenTakesFlow DEF In
<1>3. Open(g)
  BY <1>1, <1>2 DEF JoinsClose, Closed
<1> QED BY <1>1, <1>3 DEF Open

\* A token that starts an FNI before a join starts the first of its node.
LEMMA StartsFirst ==
    ASSUME Typed, Once, Race, diagram \in FiresOnce, OneEach, ChoosesOne, HavePrev, JoinsClose,
           NEW token \in Pending, token[1][2] \in BeforeJoins(diagram),
           ~(IsJoin(token[1][2]) /\ LiveRoute(token[1][2])),
           NEW g \in Fnis, g[1] = token[1][2]
    PROVE  ~HasRow(g)
<1> SUFFICES ASSUME HasRow(g) PROVE FALSE
  OBVIOUS
<1> DEFINE n == token[1][2]
           a == token[1]
           s == token[2]
<1>1. a \in diagram.flows /\ s \in Fnis /\ s[1] = a[1] /\ HasRow(s) /\ a = <<s[1], n>> /\ n \in AllNodes
  BY TokenTakesFlow
<1>d. diagram \in Diagrams
  BY FiresOnceIs
<1>2. CASE IsJoin(n)
  <2>1. Open(g)
    BY <1>2, JoinIsOpen
  <2>2. routing[n].fni = g /\ Live(mem[g])
    BY <2>1 DEF Open
  <2>3. LiveRoute(n)
    BY <2>2, NoTokens DEF LiveRoute
  <2> QED BY <1>2, <2>3
<1>3. CASE ~IsJoin(n)
  <2>1. Kind(g[1]) # "start"
    <3>1. a \in FlowsInto(diagram, n)
      BY <1>1 DEF FlowsInto
    <3> QED BY <3>1, FiresOnceIs DEF Kind
  <2>2. PICK x \in Fnis : Claims(g, x) /\ Sends(x, g[1]) /\ <<x[1], g[1]>> \in diagram.flows
    BY <2>1, CameFrom
  <2> DEFINE b == <<x[1], g[1]>>
  <2>3. HasRow(x) /\ a[1] \in BeforeJoins(diagram)
    BY <1>1, <1>d, <2>2, SendersGone, BeforeJoinsCloses
  <2>4. CASE a = b
    <3>1. x[1] = s[1]
      BY <1>1, <2>4
    <3>2. x = s
      BY <1>1, <2>3, <3>1 DEF OneEach
    <3> QED BY <2>2, <3>2 DEF Once, Unclaimed
  <2>5. CASE a # b
    <3>1. n \notin JoinNodes(diagram)
      BY <1>3 DEF JoinNodes, FlowsInto, IsJoin, IsGateway, Kind, In, Out
    <3>2. a \in FlowsInto(diagram, n) /\ b \in FlowsInto(diagram, n)
      BY <1>1, <2>2 DEF FlowsInto
    <3>3. <<a, b>> \in Alternatives(diagram)
      BY <2>5, <3>1, <3>2, FiresOnceIs
    <3>4. Sent(a) /\ Sent(b)
      <4>1. Sends(s, n)
        BY DEF Sends
      <4> QED BY <1>1, <2>2, <4>1 DEF Sent
    <3> QED BY <1>1, <2>2, <3>3, <3>4, AlternativesExclude
  <2> QED BY <2>4, <2>5
<1> QED BY <1>2, <1>3

\* A flow has passed once its token is dispatched.
LEMMA DispatchedPasses ==
    ASSUME Typed, Once, Race, OneEach, GoneStays, NEW token \in todo, todo' = todo \ {token}, held' = held,
           token[1][1] \in BeforeJoins(diagram)
    PROVE  Passed(token[1])'
<1>1. token \in Pending
  BY DEF Pending
<1>2. token \in Tokens /\ token[2] \in Fnis /\ token[2][1] = token[1][1] /\ HasRow(token[2]) /\ Gone(token[2])'
  BY <1>1, TokenTakesFlow DEF GoneStays
<1>3. token \notin Pending' /\ Pending' \subseteq Pending
  BY DEF Pending, HeldTokens, Once, Apart
<1>4. ASSUME NEW t \in Pending', t[1] = token[1] PROVE FALSE
  <2>1. t \in Tokens /\ t[2] \in Fnis /\ t[2][1] = t[1][1] /\ HasRow(t[2])
    BY <1>3, TokenTakesFlow
  <2>2. t[2] = token[2]
    BY <1>2, <1>4, <2>1 DEF OneEach
  <2>3. t = <<t[1], t[2]>> /\ token = <<token[1], token[2]>>
    BY <1>2, <2>1, NoTokens
  <2> QED BY <1>3, <1>4, <2>2, <2>3
<1> QED BY <1>2, <1>4 DEF Passed

\* What every dispatch leaves alone.
LEMMA DispatchKeeps ==
    ASSUME Typed, Once, Race, OnePass, NEW token \in todo, Dispatch(token)
    PROVE  /\ pc = "dispatch" /\ todo' = todo \ {token} /\ UNCHANGED <<diagram, gpa, winner, losers, held>>
           /\ pc' \in {"dispatch", "evaluate"} /\ token \in Pending /\ Pending' \subseteq Pending
           /\ ~Over /\ Running /\ TokensFromLive /\ LosersCatch' /\ TodoWhen'
           /\ \A n : In(n)' = In(n) /\ Kind(n)' = Kind(n) /\ (IsJoin(n)' <=> IsJoin(n))
<1>1. /\ pc = "dispatch" /\ todo' = todo \ {token} /\ UNCHANGED <<diagram, gpa, winner, losers, held>>
      /\ pc' = IF todo = {token} THEN "evaluate" ELSE "dispatch"
  BY DEF Dispatch, Consume, ebgVars
<1>2. token \in Pending /\ Pending' \subseteq Pending
  BY <1>1 DEF Pending, HeldTokens
<1>3. ~Over /\ Running
  BY <1>1 DEF Over, OnePass
<1>k. \A n : In(n)' = In(n) /\ Kind(n)' = Kind(n) /\ (IsJoin(n)' <=> IsJoin(n))
  BY <1>1, SameNodes
<1>4. LosersCatch' /\ TodoWhen'
  BY <1>1, <1>3, <1>k DEF Running, LosersCatch, IsCatch, TodoWhen
<1>5. TokensFromLive
  BY <1>2 DEF TokensFromLive
<1> QED BY <1>1, <1>2, <1>3, <1>4, <1>5, <1>k

\* A token that starts an FNI leaves every node before a join with one.
LEMMA OnePassStart ==
    ASSUME Typed, Typed', Quiet, Once, Once', Race, diagram \in FiresOnce, OnePass,
           NEW token \in todo, Dispatch(token), StartNew(token)
    PROVE  OnePass'
<1> DEFINE n == token[1][2]
<1>1. /\ pc = "dispatch" /\ todo' = todo \ {token} /\ UNCHANGED <<diagram, gpa, winner, losers, held>>
      /\ pc' \in {"dispatch", "evaluate"} /\ token \in Pending /\ Pending' \subseteq Pending
      /\ ~Over /\ Running /\ TokensFromLive /\ LosersCatch' /\ TodoWhen'
      /\ \A k : In(k)' = In(k) /\ Kind(k)' = Kind(k) /\ (IsJoin(k)' <=> IsJoin(k))
  BY DispatchKeeps
<1>2. /\ token \in Tokens /\ token[2] \in Fnis /\ token[1] \in diagram.flows /\ HasRow(token[2])
      /\ token[2][1] = token[1][1] /\ n \in AllNodes
  BY <1>1, TokenTakesFlow
<1>3. PICK f \in NewFnis(n) :
        /\ ~(IsJoin(n) /\ LiveRoute(n))
        /\ rows' = [rows EXCEPT ![f] = [state |-> "active", prev |-> {token[2]}]]
        /\ mem' = [mem EXCEPT ![f] = "active"]
        /\ task' = [task EXCEPT ![f] = NewTask(IF IsJoin(n) THEN {token} ELSE {})]
        /\ routing' = IF IsJoin(n)
                      THEN [routing EXCEPT ![n] = [fni |-> f, arrived |-> {token[1]}]] ELSE routing
  BY DEF StartNew
<1>4. f \in Fnis /\ f[1] = n /\ mem[f] = "none"
  BY FreeEntry
<1>5. ~HasRow(f)
  BY <1>1, <1>4 DEF Quiet, KnowsRows, IsUp, HasRow
<1> DEFINE first == NewTask(IF IsJoin(n) THEN {token} ELSE {})
<1>6. first.step = "enter" /\ first.mail = <<>> /\ first.acc \subseteq {token} /\ (first.acc # {} => IsJoin(n))
  BY DEF NewTask
<1>7. /\ rows'[f].state = "active" /\ rows'[f].prev = {token[2]} /\ mem'[f] = "active" /\ task'[f] = first
      /\ \A g \in Fnis \ {f} : rows'[g] = rows[g] /\ mem'[g] = mem[g] /\ task'[g] = task[g]
  <2> HIDE DEF first
  <2>1. rows' = [rows EXCEPT ![f] = [state |-> "active", prev |-> {token[2]}]] /\ task' = [task EXCEPT ![f] = first]
    BY <1>3 DEF first
  <2> QED BY <1>3, <1>4, <2>1 DEF Typed, RowsTyped, MemTyped, TasksTyped
<1>8. /\ \A k \in AllNodes : k # n => routing'[k] = routing[k]
      /\ ~IsJoin(n) => routing' = routing
      /\ IsJoin(n) => routing'[n].fni = f /\ routing'[n].arrived = {token[1]}
  BY <1>2, <1>3 DEF Typed, RouteTyped
<1> HIDE DEF first
<1>9. GoneStays
  BY <1>5, <1>7 DEF GoneStays, Gone, HasRow
<1>10. ASSUME n \in BeforeJoins(diagram), NEW g \in Fnis, g[1] = n PROVE ~HasRow(g)
  BY <1>1, <1>3, <1>10, StartsFirst DEF OnePass, Running
<1>11. OneEach'
  <2> SUFFICES ASSUME NEW g \in Fnis, NEW h \in Fnis, g[1] = h[1], g[1] \in BeforeJoins(diagram),
                      HasRow(g)', HasRow(h)', g # h
               PROVE  FALSE
    BY <1>1 DEF OneEach
  <2>1. CASE g # f /\ h # f
    BY <1>7, <2>1 DEF OnePass, OneEach, HasRow
  <2>2. CASE g = f \/ h = f
    BY <1>4, <1>7, <1>10, <2>2 DEF HasRow
  <2> QED BY <2>1, <2>2
<1>12. HavePrev'
  BY <1>1, <1>7 DEF OnePass, HavePrev, HasRow
<1>13. SendsKept
  <2> SUFFICES ASSUME NEW x \in Fnis, NEW m \in AllNodes, Sends(x, m)' PROVE Sends(x, m)
    BY DEF SendsKept
  <2>1. ASSUME NEW g \in Fnis, g # f, Named(g, x)' PROVE Named(g, x)
    BY <1>1, <1>7, <2>1 DEF Named, Carried
  <2>2. ASSUME Named(f, x)' PROVE x = token[2]
    <3>1. DOMAIN task'[f].mail = {}
      BY <1>6, <1>7
    <3>2. \A t \in Tokens : <<f, t>> \notin gpa'
      BY <1>1, <1>5 DEF Quiet, ArrivalsHaveRows, HasRow
    <3>3. \A t \in Tokens : Carried(f, t)' => t = token
      BY <1>6, <1>7, <3>1, <3>2 DEF Carried
    <3> QED BY <1>7, <2>2, <3>3 DEF Named
  <2>3. CASE \E t \in Pending' : t[2] = x /\ t[1][2] = m
    BY <1>1, <2>3 DEF Sends
  <2>4. CASE \E g \in Fnis : g[1] = m /\ Named(g, x)'
    BY <1>1, <1>4, <2>1, <2>2, <2>4 DEF Sends
  <2> QED BY <2>3, <2>4 DEF Sends
<1>14. ChoosesOne'
  BY <1>1, <1>13, ChoosesKept DEF OnePass
<1>15. LiveFromTokens
  BY <1>1, <1>4, <1>7 DEF LiveFromTokens
<1>16. HandlersEnd'
  BY <1>1, <1>6, <1>7 DEF Running, HandlersEnd, Live
<1>17. FiredForgotten'
  <2> SUFFICES ASSUME NEW g \in Fnis, IsJoin(g[1]), Kind(g[1]) = "inclusive",
                      FireIn(g)' \/ task'[g].step \in {"delete", "finish", "ok"}
               PROVE  routing'[g[1]].fni # g
    BY <1>1 DEF FiredForgotten, FireIn
  <2>1. g # f
    <3>1. DOMAIN task'[f].mail = {}
      BY <1>6, <1>7
    <3> QED BY <1>6, <1>7, <3>1 DEF FireIn
  <2>2. routing[g[1]].fni # g
    BY <1>1, <1>7, <2>1 DEF Running, FiredForgotten, FireIn
  <2> QED BY <1>8, <2>1, <2>2, NoTokens
<1>18. RoutesIn'
  <2> SUFFICES ASSUME NEW k \in AllNodes, routing'[k].fni # NoFni
               PROVE  IsJoin(k) /\ routing'[k].arrived \subseteq In(k)
    BY <1>1 DEF RoutesIn
  <2>1. CASE k = n /\ IsJoin(n)
    BY <1>2, <1>8, <2>1 DEF In
  <2>2. CASE k # n \/ ~IsJoin(n)
    BY <1>1, <1>8, <2>2 DEF Running, RoutesIn
  <2> QED BY <2>1, <2>2
<1>19. JoinsClose'
  <2> SUFFICES ASSUME NEW g \in Fnis, IsJoin(g[1]), HasRow(g)' PROVE Open(g)' \/ Closed(g)'
    BY <1>1 DEF JoinsClose
  <2>j. g[1] \in BeforeJoins(diagram) /\ g[1] \in AllNodes
    BY JoinIsNode, NoTokens
  <2>1. CASE g # f
    <3>1. HasRow(g)
      BY <1>7, <2>1 DEF HasRow
    <3>2. g[1] # n
      BY <1>10, <2>j, <3>1
    <3>3. Open(g) => Live(mem'[g]) /\ routing'[g[1]] = routing[g[1]]
      BY <1>7, <1>8, <2>1, <2>j, <3>2 DEF Open
    <3> QED BY <1>1, <1>9, <1>15, <3>1, <3>3, JoinsStayClosed DEF OnePass, Running
  <2>2. CASE g = f
    <3>1. token[1][1] \in BeforeJoins(diagram)
      BY <1>2, <1>4, <2>j, <2>2, FiresOnceIs, BeforeJoinsCloses
    <3>2. Passed(token[1])'
      BY <1>1, <1>9, <3>1, DispatchedPasses DEF OnePass
    <3>3. Live(mem'[f])
      BY <1>7 DEF Live
    <3> QED BY <1>4, <1>8, <2>2, <3>2, <3>3 DEF Open
  <2> QED BY <2>1, <2>2
<1> QED BY <1>1, <1>11, <1>12, <1>14, <1>16, <1>17, <1>18, <1>19 DEF OnePass, Running

\* An FNI that has no row starts nothing.
LEMMA OnePassFails ==
    ASSUME Typed, Typed', Once, Once', Race, diagram \in FiresOnce, OnePass,
           NEW token \in todo, Dispatch(token), StartFails(token)
    PROVE  OnePass'
<1>1. /\ UNCHANGED <<diagram, gpa>> /\ Pending' \subseteq Pending /\ ~Over /\ Running
      /\ TokensFromLive /\ LosersCatch' /\ TodoWhen'
      /\ \A k : In(k)' = In(k) /\ Kind(k)' = Kind(k) /\ (IsJoin(k)' <=> IsJoin(k))
  BY DispatchKeeps
<1>2. PICK f \in NewFnis(token[1][2]) : mem' = [mem EXCEPT ![f] = "fatal"] /\ UNCHANGED <<rows, task, routing>>
  BY DEF StartFails
<1>3. f \in Fnis /\ mem[f] = "none"
  BY FreeEntry
<1>4. /\ mem'[f] = "fatal" /\ \A g \in Fnis \ {f} : mem'[g] = mem[g]
  BY <1>2, <1>3 DEF Typed, MemTyped
<1>5. GoneStays /\ ClaimsKept /\ CarriedKept /\ LiveFromTokens /\ RowsKeep
  BY <1>1, <1>2, <1>4, EndKeeps
     DEF GoneStays, Gone, ClaimsKept, Claims, CarriedKept, Carried, LiveFromTokens, Live
<1>6. ChoosesOne'
  BY <1>1, <1>5, NamedByClaims, SendsByTokens, ChoosesKept DEF OnePass
<1>7. HandlersEnd' /\ FiredForgotten' /\ RoutesIn'
  BY <1>1, <1>2, <1>4 DEF Running, HandlersEnd, FiredForgotten, RoutesIn, Live
<1>8. \A g \in Fnis : Open(g) => Live(mem'[g]) /\ routing'[g[1]] = routing[g[1]]
  BY <1>2, <1>3, <1>4 DEF Open, Live
<1> QED BY <1>1, <1>5, <1>6, <1>7, <1>8, OnePassKept

\* No flow delivers to a join twice.
LEMMA NeverTwice ==
    ASSUME Typed, Once, Race, diagram \in FiresOnce, OnePass, NEW token \in todo, Dispatch(token)
    PROVE  ~DuplicateArrival(token)
<1> SUFFICES ASSUME DuplicateArrival(token) PROVE FALSE
  OBVIOUS
<1> DEFINE n == token[1][2]
           f == routing[n].fni
<1>1. token \in Pending /\ Running
  BY DispatchKeeps
<1>2. n \in AllNodes
  BY <1>1, TokenTakesFlow
<1>3. IsJoin(n) /\ f # NoFni /\ Live(mem[f]) /\ token[1] \in routing[n].arrived
  BY DEF DuplicateArrival, LiveRoute
<1>4. f \in Fnis /\ f[1] = n
  BY <1>2, <1>3 DEF Typed, RouteTyped, RouteRecords, Once, RoutesOwn
<1>5. HasRow(f)
  BY <1>3, <1>4 DEF Typed, HaveRows, Live, HasRow
<1> QED BY <1>1, <1>3, <1>4, <1>5, JoinIsOpen DEF Running

\* All the flows of a parallel join have delivered.
LEMMA AllArrived ==
    ASSUME diagram \in Diagrams, NEW n, NEW flows \in SUBSET In(n), Complete(n, flows)
    PROVE  flows = In(n)
<1>1. IsFiniteSet(In(n))
  <2>1. IsFiniteSet(diagram.flows) /\ In(n) \subseteq diagram.flows
    BY DiagramsAssumption DEF In
  <2> QED BY <2>1, FS_Subset
<1>2. /\ IsFiniteSet(flows) /\ Cardinality(flows) <= Cardinality(In(n))
      /\ Cardinality(flows) = Cardinality(In(n)) => flows = In(n)
  BY <1>1, FS_Subset
<1>3. Cardinality(flows) \in Nat /\ Cardinality(In(n)) \in Nat
  BY <1>1, <1>2, FS_CardinalityType
<1> QED BY <1>2, <1>3 DEF Complete

\* A further token goes to an open join, which stays open, or closes with its last.
LEMMA OnePassRoute ==
    ASSUME Typed, Typed', Quiet, Once, Once', Race, diagram \in FiresOnce, OnePass,
           NEW token \in todo, Dispatch(token), RouteToJoin(token)
    PROVE  OnePass'
<1> DEFINE n == token[1][2]
           f == routing[n].fni
           arrived == routing[n].arrived \cup {token[1]}
<1>1. /\ pc = "dispatch" /\ todo' = todo \ {token} /\ UNCHANGED <<diagram, gpa, winner, losers, held>>
      /\ pc' \in {"dispatch", "evaluate"} /\ token \in Pending /\ Pending' \subseteq Pending
      /\ ~Over /\ Running /\ TokensFromLive /\ LosersCatch' /\ TodoWhen'
      /\ \A k : In(k)' = In(k) /\ Kind(k)' = Kind(k) /\ (IsJoin(k)' <=> IsJoin(k))
  BY DispatchKeeps
<1>2. token \in Tokens /\ token[2] \in Fnis /\ token[1] \in diagram.flows /\ n \in AllNodes
  BY <1>1, TokenTakesFlow
<1>3. /\ IsJoin(n) /\ f # NoFni /\ Live(mem[f]) /\ UNCHANGED <<rows, mem>>
      /\ routing' = [routing EXCEPT ![n] =
                        IF Kind(n) = "parallel" /\ Complete(n, arrived) THEN NoRoute
                        ELSE [routing[n] EXCEPT !.arrived = arrived]]
      /\ task' = task \/ task' = [task EXCEPT ![f] = [task[f] EXCEPT !.mail = Append(task[f].mail, token)]]
  BY DEF RouteToJoin, LiveRoute
<1>4. f \in Fnis /\ f[1] = n /\ HasRow(f)
  <2>1. f \in Fnis /\ f[1] = n
    BY <1>2, <1>3 DEF Typed, RouteTyped, RouteRecords, Once, RoutesOwn
  <2> QED BY <1>3, <2>1 DEF Typed, HaveRows, Live, HasRow
<1>d. diagram \in Diagrams /\ n \in BeforeJoins(diagram)
  BY <1>3, FiresOnceIs, JoinIsNode
<1>5. /\ \A k \in AllNodes : k # n => routing'[k] = routing[k]
      /\ IF Kind(n) = "parallel" /\ Complete(n, arrived) THEN routing'[n] = NoRoute
         ELSE routing'[n].fni = f /\ routing'[n].arrived = arrived
  <2>1. routing[n] \in RouteRecords
    BY <1>2 DEF Typed, RouteTyped
  <2>2. [routing[n] EXCEPT !.arrived = arrived].fni = f /\ [routing[n] EXCEPT !.arrived = arrived].arrived = arrived
    BY <2>1 DEF RouteRecords
  <2> QED BY <1>2, <1>3, <2>2 DEF Typed, RouteTyped
<1>6. \A g \in Fnis : task'[g].step = task[g].step /\ (FireIn(g)' => FireIn(g))
  <2> SUFFICES ASSUME NEW g \in Fnis PROVE task'[g].step = task[g].step /\ (FireIn(g)' => FireIn(g))
    OBVIOUS
  <2> DEFINE new == [task[g] EXCEPT !.mail = Append(task[g].mail, token)]
  <2>1. task'[g] = task[g] \/ task'[g] = new
    BY <1>3, <1>4 DEF Typed, TasksTyped
  <2>2. task[g] \in TaskRecords /\ token # Fire
    BY <1>2, NoTokens DEF Typed, TasksTyped
  <2>3. /\ new.step = task[g].step /\ new.mail = Append(task[g].mail, token)
        /\ \A i \in DOMAIN Append(task[g].mail, token) :
              Append(task[g].mail, token)[i] = token
                \/ (i \in DOMAIN task[g].mail /\ Append(task[g].mail, token)[i] = task[g].mail[i])
    BY <1>2, <2>2, MailTyped
  <2> HIDE DEF new
  <2>4. CASE task'[g] = task[g]
    BY <2>4 DEF FireIn
  <2>5. CASE task'[g] = new
    BY <2>2, <2>3, <2>5 DEF FireIn
  <2> QED BY <2>1, <2>4, <2>5
<1>7. GoneStays /\ LiveFromTokens /\ RowsKeep
  BY <1>3, EndKeeps DEF GoneStays, Gone, LiveFromTokens
<1>8. OneEach' /\ HavePrev'
  BY <1>1, <1>7, RowsKept DEF OnePass
<1>9. SendsKept
  <2> SUFFICES ASSUME NEW x \in Fnis, NEW m \in AllNodes, Sends(x, m)' PROVE Sends(x, m)
    BY DEF SendsKept
  <2>1. PICK h \in Fnis :
              /\ h = f
              /\ \A g \in Fnis, t \in Tokens : (Carried(g, t)' /\ gpa' = gpa) => Carried(g, t) \/ (g = h /\ t = token)
    BY <1>2, RouteMoves
  <2>2. ASSUME NEW g \in Fnis, Named(g, x)' PROVE Named(g, x) \/ (g = f /\ x = token[2])
    BY <1>1, <1>3, <2>1, <2>2 DEF Named
  <2>3. CASE \E t \in Pending' : t[2] = x /\ t[1][2] = m
    BY <1>1, <2>3 DEF Sends
  <2>4. CASE \E g \in Fnis : g[1] = m /\ Named(g, x)'
    BY <1>1, <1>4, <2>2, <2>4 DEF Sends
  <2> QED BY <2>3, <2>4 DEF Sends
<1>10. ChoosesOne'
  BY <1>1, <1>9, ChoosesKept DEF OnePass
<1>11. HandlersEnd'
  BY <1>1, <1>3, <1>6 DEF Running, HandlersEnd
<1>12. FiredForgotten'
  <2> SUFFICES ASSUME NEW g \in Fnis, IsJoin(g[1]), Kind(g[1]) = "inclusive",
                      FireIn(g)' \/ task'[g].step \in {"delete", "finish", "ok"}
               PROVE  routing'[g[1]].fni # g
    BY <1>1 DEF FiredForgotten, FireIn
  <2>1. routing[g[1]].fni # g /\ g[1] \in AllNodes /\ g # NoFni
    BY <1>1, <1>6, NoTokens DEF Running, FiredForgotten, FireIn
  <2> QED BY <1>5, <2>1 DEF NoRoute
<1>a. arrived \subseteq In(n)
  BY <1>1, <1>2, <1>3 DEF Running, RoutesIn, In
<1>13. RoutesIn'
  <2> SUFFICES ASSUME NEW k \in AllNodes, routing'[k].fni # NoFni
               PROVE  IsJoin(k) /\ routing'[k].arrived \subseteq In(k)
    BY <1>1 DEF RoutesIn
  <2>1. CASE k = n
    <3>1. routing'[n] # NoRoute
      BY <2>1 DEF NoRoute
    <3>2. routing'[n].arrived = arrived
      BY <1>5, <3>1
    <3> QED BY <1>3, <1>a, <2>1, <3>2
  <2>2. CASE k # n
    BY <1>1, <1>5, <2>2 DEF Running, RoutesIn
  <2> QED BY <2>1, <2>2
<1>14. ASSUME NEW flow \in arrived PROVE Passed(flow)'
  <2>1. flow[1] \in BeforeJoins(diagram)
    BY <1>a, <1>d, BeforeJoinsCloses DEF In
  <2>2. CASE flow = token[1]
    BY <1>1, <1>7, <2>1, <2>2, DispatchedPasses DEF OnePass
  <2>3. CASE flow \in routing[n].arrived
    <3>1. Open(f)
      BY <1>1, <1>3, <1>4, JoinIsOpen DEF Running
    <3>2. Passed(flow)
      BY <1>4, <2>3, <3>1 DEF Open
    <3> QED BY <1>1, <1>7, <2>1, <3>2, PassedStays DEF OnePass
  <2> QED BY <2>2, <2>3
<1> HIDE DEF arrived
<1>15. JoinsClose'
  <2> SUFFICES ASSUME NEW g \in Fnis, IsJoin(g[1]), HasRow(g) PROVE Open(g)' \/ Closed(g)'
    BY <1>1, <1>7 DEF JoinsClose, RowsKeep
  <2>1. CASE g[1] # n
    <3>1. Open(g) => Live(mem'[g]) /\ routing'[g[1]] = routing[g[1]]
      BY <1>3, <1>5, <2>1, NoTokens DEF Open
    <3> QED BY <1>1, <1>7, <3>1, JoinsStayClosed DEF OnePass, Running
  <2>2. CASE g[1] = n
    <3>1. g = f
      BY <1>4, <1>d, <2>2 DEF OnePass, OneEach
    <3>2. CASE Kind(n) = "parallel" /\ Complete(n, arrived)
      <4>1. arrived = In(n)
        BY <1>a, <1>d, <3>2, AllArrived
      <4> QED BY <1>1, <1>14, <2>2, <4>1 DEF Closed
    <3>3. CASE ~(Kind(n) = "parallel" /\ Complete(n, arrived))
      BY <1>3, <1>4, <1>5, <1>14, <3>1, <3>3 DEF Open
    <3> QED BY <3>2, <3>3
  <2> QED BY <2>1, <2>2
<1> QED BY <1>1, <1>8, <1>10, <1>11, <1>12, <1>13, <1>15 DEF OnePass, Running

-----------------------------------------------------------------------------
(* The end of a message.                                                   *)

\* A join that is told to fire is closed: the flows that have not delivered are dead.
LEMMA FiringCloses ==
    ASSUME Typed, Once, Running, pc = "evaluate", held = <<>>,
           NEW g \in Fnis, IsJoin(g[1]), Open(g), ShouldFire(g[1])
    PROVE  Closed(g)
<1>1. Pending = {}
  BY DEF Running, TodoWhen, Pending, HeldTokens
<1>2. ASSUME NEW flow \in In(g[1]), flow \notin routing[g[1]].arrived PROVE Shut(flow)
  <2>1. Dead(flow)
    BY <1>2 DEF ShouldFire
  <2> QED BY <1>1, <2>1 DEF Dead, Shut
<1> QED BY <1>2 DEF Closed, Open

\* At the end of a message joins fire, or the PI starts nothing any more.
LEMMA OnePassEvaluate ==
    ASSUME Typed, Typed', Once, Once', Race, diagram \in FiresOnce, OnePass, Evaluate
    PROVE  OnePass'
<1> DEFINE firing == {n \in DOMAIN diagram.kind : held = <<>> /\ ShouldFire(n)}
           states == {mem[f] : f \in Fnis}
<1>1. pc = "evaluate" /\ UNCHANGED <<rows, gpa, diagram>>
  BY DEF Evaluate
<1>2. RowsKeep
  BY <1>1, EndKeeps
<1>3. CASE Stop /\ pc' = "ended"
  <2>1. CarriedKept /\ ClaimsKept /\ GoneStays
    <3>1. CarriedKept
      BY <1>1, <1>3, StopMoves
    <3>2. ClaimsKept
      BY <1>1, <3>1, ClaimsStay DEF RowMoves
    <3>3. GoneStays
      BY <1>1, <1>3, StopMoves DEF GoneStays, Gone, Live
    <3> QED BY <3>1, <3>2, <3>3
  <2>2. Pending' \subseteq Pending
    BY <1>3 DEF Stop, Pending, HeldTokens
  <2> QED BY <1>1, <1>2, <1>3, <2>1, <2>2, OnePassOver DEF Over
<1>4. CASE ~(Stop /\ pc' = "ended")
  <2>1. ~("fatal" \notin states /\ Completed(states))
    BY <1>4 DEF Evaluate
  <2>2. /\ routing' = [n \in AllNodes |-> IF n \in firing THEN NoRoute ELSE routing[n]]
        /\ task' = [f \in Fnis |->
                        IF \E n \in firing : routing[n].fni = f /\ task[f].step # "none"
                        THEN [task[f] EXCEPT !.mail = Append(@, Fire)] ELSE task[f]]
        /\ pc' = (IF "fatal" \in states THEN "cascade" ELSE "idle")
        /\ UNCHANGED <<mem, todo, winner, losers, held>>
    BY <2>1 DEF Evaluate, ebgVars
  <2>3. CarriedKept /\ ClaimsKept /\ GoneStays /\ Pending' = Pending /\ TokensFromLive /\ LiveFromTokens
    <3>1. CarriedKept /\ ClaimsKept
      BY <1>4, EvaluateMoves
    <3> QED BY <1>1, <2>2, <3>1, SameTokens DEF GoneStays, Gone, LiveFromTokens
  <2>4. CASE pc' = "cascade"
    BY <1>1, <1>2, <2>3, <2>4, OnePassOver DEF Over
  <2>5. CASE pc' = "idle"
    <3>1. ~Over /\ Running
      <4>1. \E f \in Fnis : Live(mem[f])
        BY <2>1, <2>2, <2>5 DEF Completed
      <4>2. ~Over
        BY <1>1, <4>1 DEF Over
      <4> QED BY <4>2 DEF OnePass
    <3> HIDE DEF firing
    <3>2. ChoosesOne'
      BY <1>1, <2>3, NamedByClaims, SendsByTokens, ChoosesKept DEF OnePass
    <3>k. \A n : In(n)' = In(n) /\ Kind(n)' = Kind(n) /\ (IsJoin(n)' <=> IsJoin(n))
      BY <1>1, SameNodes
    <3>r. \A n \in AllNodes : routing'[n] = IF n \in firing THEN NoRoute ELSE routing[n]
      BY <2>2
    <3>3. ASSUME NEW g \in Fnis
          PROVE  /\ task'[g].step = task[g].step
                 /\ FireIn(g)' => FireIn(g) \/ g[1] \in firing
      <4> DEFINE new == [task[g] EXCEPT !.mail = Append(task[g].mail, Fire)]
      <4>1. CASE task'[g] = task[g]
        BY <4>1 DEF FireIn
      <4>2. CASE \E n \in firing : routing[n].fni = g /\ task'[g] = new
        <5>1. task[g] \in TaskRecords
          BY DEF Typed, TasksTyped
        <5>2. new.step = task[g].step
          BY <5>1, MailTyped
        <5>3. PICK n \in firing : routing[n].fni = g /\ task'[g] = new
          BY <4>2
        <5>4. n \in AllNodes
          BY <5>3 DEF firing, AllNodes, Typed, StateTyped
        <5>5. g[1] = n
          BY <5>3, <5>4, NoTokens DEF Once, RoutesOwn
        <5> QED BY <5>2, <5>3, <5>5
      <4> QED BY <2>2, <4>1, <4>2
    <3>4. HandlersEnd'
      BY <1>1, <2>2, <3>1, <3>3 DEF Running, HandlersEnd
    <3>5. FiredForgotten'
      <4> SUFFICES ASSUME NEW g \in Fnis, IsJoin(g[1]), Kind(g[1]) = "inclusive",
                          FireIn(g)' \/ task'[g].step \in {"delete", "finish", "ok"}
                   PROVE  routing'[g[1]].fni # g
        BY <3>k DEF FiredForgotten, FireIn
      <4>1. g[1] \in AllNodes /\ g # NoFni
        BY NoTokens
      <4>2. g[1] \in firing \/ routing[g[1]].fni # g
        BY <3>1, <3>3 DEF Running, FiredForgotten, FireIn
      <4> QED BY <3>r, <4>1, <4>2 DEF NoRoute
    <3>6. LosersCatch' /\ TodoWhen'
      BY <1>1, <2>2, <3>1, <3>k DEF Running, LosersCatch, IsCatch, TodoWhen
    <3>7. RoutesIn'
      BY <3>1, <3>k, <3>r DEF Running, RoutesIn, NoRoute
    <3>8. ASSUME NEW g \in Fnis, IsJoin(g[1]), Open(g)
          PROVE  Closed(g) \/ (Live(mem'[g]) /\ routing'[g[1]] = routing[g[1]])
      <4>1. CASE g[1] \in firing
        BY <1>1, <3>1, <3>8, <4>1, FiringCloses DEF firing
      <4>2. CASE g[1] \notin firing
        BY <2>2, <3>r, <3>8, <4>2, NoTokens DEF Open
      <4> QED BY <4>1, <4>2
    <3> QED BY <1>1, <1>2, <2>3, <3>1, <3>2, <3>4, <3>5, <3>6, <3>7, <3>8, OnePassKept
  <2> QED BY <2>2, <2>4, <2>5
<1> QED BY <1>3, <1>4

-----------------------------------------------------------------------------
(* Every join fires once.                                                  *)

\* The start event comes first, and has no predecessor.
LEMMA StartIsStart ==
    ASSUME NEW d \in Diagrams
    PROVE  d.kind[StartFni(d)[1]] = "start"
<1> DEFINE starts == {n \in DOMAIN d.kind : d.kind[n] = "start"}
           start == CHOOSE n \in DOMAIN d.kind : d.kind[n] = "start"
<1>1. Cardinality(starts) = 1
  BY DiagramsAssumption
<1>2. starts # {}
  BY <1>1, FS_EmptySet
<1>3. d.kind[start] = "start"
  BY <1>2
<1>4. StartFni(d)[1] = start
  BY DEF StartFni
<1> QED BY <1>3, <1>4

\* At first there is one FNI, and no token.
LEMMA OnePassInit == Init => Passes
<1> SUFFICES ASSUME Init PROVE OnePass
  BY DEF Passes
<1> DEFINE start == StartFni(diagram)
<1>d. diagram \in Diagrams /\ start \in Fnis /\ Kind(start[1]) = "start" /\ ~IsJoin(start[1])
  BY StartIsFni, StartIsStart DEF Init, Kind, IsJoin, IsGateway
<1>1. \A f \in Fnis : /\ rows[f].state = IF f = start THEN "active" ELSE "none"
                      /\ rows[f].prev = {} /\ mem[f] = rows[f].state
  BY DEF Init, NoRow
<1>2. \A f \in Fnis : /\ task[f].step = (IF f = start THEN "enter" ELSE "none")
                      /\ task[f].acc = {} /\ DOMAIN task[f].mail = {}
  BY DEF Init, NewTask, NoTask
<1>3. \A n \in AllNodes : routing[n].fni = NoFni
  BY DEF Init, NoRoute
<1>4. todo = {} /\ losers = {} /\ held = <<>> /\ gpa = {}
  BY DEF Init
<1> HIDE DEF start
<1>5. \A f \in Fnis : HasRow(f) => f = start
  BY <1>1 DEF HasRow
<1>6. OneEach /\ HavePrev
  BY <1>5, <1>d DEF OneEach, HavePrev
<1>7. Pending = {} /\ \A g, s \in Fnis : ~Named(g, s)
  BY <1>1, <1>2, <1>4 DEF Pending, HeldTokens, Named, Carried
<1>8. ChoosesOne
  BY <1>7 DEF ChoosesOne, Sends
<1>9. HandlersEnd
  BY <1>1, <1>2 DEF HandlersEnd, Live
<1>10. FiredForgotten
  BY <1>2 DEF FiredForgotten
<1>11. LosersCatch /\ TodoWhen /\ RoutesIn
  BY <1>3, <1>4 DEF LosersCatch, TodoWhen, RoutesIn
<1>12. JoinsClose
  BY <1>5, <1>d DEF JoinsClose
<1> QED BY <1>6, <1>8, <1>9, <1>10, <1>11, <1>12 DEF OnePass, Running

\* No step starts a second FNI before a join.
LEMMA PassesStep ==
    /\ Typed /\ Quiet /\ Once /\ (crashes = 0 => Race) /\ JoinsOnceCrashed /\ Passes /\ [Next]_vars
    => Passes'
<1> SUFFICES ASSUME Typed, Quiet, Once, crashes = 0 => Race, JoinsOnceCrashed, Passes, [Next]_vars,
                    crashes' = 0, diagram' \in FiresOnce
             PROVE  OnePass'
  BY DEF Passes, FiresOnce
<1>0. diagram' = diagram /\ crashes = 0 /\ ~Crash /\ diagram \in FiresOnce /\ Typed' /\ Once'
  BY DiagramStays, TypedStep, OnceStep
<1>i. Race /\ Joins /\ OnePass
  BY <1>0 DEF JoinsOnceCrashed, Passes
<1>1. CASE UNCHANGED vars
  <2>1. UNCHANGED <<rows, gpa, pc, todo, mem, routing, losers, winner, held, task, diagram>>
    BY <1>1 DEF vars, dbVars, ebgVars
  <2>2. GoneStays /\ RowsKeep /\ TokensFromLive /\ LiveFromTokens
    BY <2>1, EndKeeps, SameTokens DEF GoneStays, Gone, LiveFromTokens
  <2>k. \A n : In(n)' = In(n) /\ Kind(n)' = Kind(n) /\ (IsJoin(n)' <=> IsJoin(n))
    BY <2>1, SameNodes
  <2>3. NamedKept /\ Pending' \subseteq Pending
    BY <2>1 DEF NamedKept, Named, Carried, Pending, HeldTokens
  <2>4. ChoosesOne' /\ (Over' <=> Over)
    BY <1>i, <2>1, <2>3, SendsByTokens, ChoosesKept DEF OnePass, Over
  <2>5. ASSUME Running PROVE HandlersEnd' /\ FiredForgotten' /\ LosersCatch' /\ TodoWhen' /\ RoutesIn'
    BY <2>1, <2>5, <2>k
       DEF Running, HandlersEnd, FiredForgotten, LosersCatch, IsCatch, TodoWhen, RoutesIn
  <2>6. \A g \in Fnis : Open(g) => Live(mem'[g]) /\ routing'[g[1]] = routing[g[1]]
    BY <2>1 DEF Open
  <2> QED BY <1>0, <1>i, <2>2, <2>4, <2>5, <2>6, OnePassKept DEF OnePass
<1>2. CASE \E f \in Fnis : HandlerStep(f) \/ Trigger(f) \/ Fail(f)
  BY <1>0, <1>i, <1>2, OnePassHandler
<1>3. CASE \E f \in Fnis : HandleAsync(f) \/ HandleOk(f) \/ HandleLoser(f)
  BY <1>0, <1>i, <1>3, OnePassAsync, OnePassOk, OnePassLoser
<1>4. CASE \E f \in Fnis : HandleError(f)
  <2>1. PICK f \in Fnis : HandleError(f)
    BY <1>4
  <2>2. /\ FniMoves(f) /\ rows' = End(f, "fatal") /\ UNCHANGED <<todo, held>> /\ pc' = "fail"
    BY <2>1, PiMovesOne DEF HandleError, ebgVars
  <2>3. GoneStays /\ ClaimsKept /\ CarriedKept /\ RowsKeep /\ Over' /\ Pending' \subseteq Pending
    BY <2>2, GoneByFni, EndKeeps DEF FniMoves, States, Over, Pending, HeldTokens
  <2> QED BY <1>0, <1>i, <2>3, OnePassOver
<1>5. CASE CancelRival \/ StampRivals
  BY <1>0, <1>i, <1>5, OnePassCancel, OnePassStamp
<1>6. CASE \E token \in todo : Dispatch(token)
  <2>1. PICK token \in todo : Dispatch(token)
    BY <1>6
  <2>2. ~DuplicateArrival(token)
    BY <1>0, <1>i, <2>1, NeverTwice
  <2>3. StartNew(token) \/ StartFails(token) \/ RouteToJoin(token)
    BY <2>1, <2>2 DEF Dispatch
  <2> QED BY <1>0, <1>i, <2>1, <2>3, OnePassStart, OnePassFails, OnePassRoute
<1>7. CASE (Interrupt \/ Cascade) /\ \E g \in Fnis : Live(mem[g])
  <2>1. PICK f \in Fnis : FniMoves(f)
    BY <1>7, PiMovesOne
  <2>2. /\ UNCHANGED <<todo, held>> /\ pc \in {"interrupt", "cascade"} /\ pc' = pc
        /\ \E h \in Fnis, s \in {"interrupted", "fatal"} : rows' = End(h, s)
    BY <1>7 DEF Interrupt, Cascade, ebgVars
  <2>3. GoneStays /\ ClaimsKept /\ CarriedKept /\ RowsKeep
    BY <2>1, <2>2, GoneByFni, EndKeeps DEF FniMoves, States
  <2>4. Over' /\ Pending' \subseteq Pending
    BY <2>2 DEF Over, Pending, HeldTokens
  <2> QED BY <1>0, <1>i, <2>3, <2>4, OnePassOver
<1>8. CASE (Interrupt /\ ~\E g \in Fnis : Live(mem[g])) \/ TransitionToFatal
  <2>1. /\ UNCHANGED <<rows, gpa, task, mem, todo, held>>
        /\ pc' = "cascade" \/ (pc' = "evaluate" /\ ~\E g \in Fnis : Live(mem[g]))
    BY <1>8 DEF Interrupt, TransitionToFatal, ebgVars
  <2>2. GoneStays /\ ClaimsKept /\ CarriedKept /\ RowsKeep
    BY <2>1, EndKeeps DEF GoneStays, Gone, ClaimsKept, Claims, CarriedKept, Carried
  <2>3. Over' /\ Pending' \subseteq Pending
    BY <2>1 DEF Over, Pending, HeldTokens
  <2> QED BY <1>0, <1>i, <2>2, <2>3, OnePassOver
<1>9. CASE Cascade /\ ~\E g \in Fnis : Live(mem[g])
  <2>1. Stop /\ UNCHANGED <<rows, gpa>> /\ pc' = "ended"
    BY <1>9 DEF Cascade
  <2>2. CarriedKept
    BY <2>1, StopMoves
  <2>3. ClaimsKept
    BY <2>1, <2>2, ClaimsStay DEF RowMoves
  <2>4. GoneStays
    BY <2>1, StopMoves DEF GoneStays, Gone, Live
  <2>5. RowsKeep /\ Over' /\ Pending' \subseteq Pending
    BY <2>1, EndKeeps DEF Stop, Over, Pending, HeldTokens
  <2> QED BY <1>0, <1>i, <2>2, <2>3, <2>4, <2>5, OnePassOver
<1>10. CASE Evaluate
  BY <1>0, <1>i, <1>10, OnePassEvaluate
<1>11. CASE CleanUp \/ Resume
  BY <1>i, <1>11 DEF CleanUp, Resume, Race
<1> QED BY <1>0, <1>1, <1>2, <1>3, <1>4, <1>5, <1>6, <1>7, <1>8, <1>9, <1>10, <1>11 DEF Next, InstanceStep

\* One FNI of each join.
LEMMA PassesImplyJoinsFireOnce == Typed /\ Passes => JoinsFireOnce
<1> SUFFICES ASSUME Typed, Passes, crashes = 0, diagram \in FiresOnce, NEW n \in DOMAIN diagram.kind, IsJoin(n)
             PROVE  Cardinality({f \in Fnis : f[1] = n /\ rows[f].state # "none"}) <= 1
  BY DEF JoinsFireOnce
<1> DEFINE passes == {f \in Fnis : f[1] = n /\ rows[f].state # "none"}
<1>1. \A f, g \in passes : f = g
  BY JoinIsNode DEF Passes, OnePass, OneEach, HasRow
<1>2. Cardinality(passes) <= 1
  <2> HIDE DEF passes
  <2>1. CASE passes = {}
    <3>1. Cardinality(passes) = 0
      BY <2>1, FS_EmptySet
    <3> QED BY <3>1
  <2>2. CASE passes # {}
    <3>1. PICK f : passes = {f}
      <4>1. PICK f : f \in passes
        BY <2>2
      <4>2. passes = {f}
        BY <1>1, <4>1
      <4> QED BY <4>2
    <3>2. Cardinality(passes) = 1
      BY <3>1, FS_Singleton
    <3> QED BY <3>2
  <2> QED BY <2>1, <2>2
<1> QED BY <1>2

\* What holds as long as the engine does not stop.
InOnePass == Typed /\ Quiet /\ Once /\ (crashes = 0 => Race) /\ JoinsOnceCrashed /\ Passes

LEMMA InOnePassAlways == Spec => []InOnePass
<1>1. Init => InOnePass
  BY TypedInit, QuietInit, OnceInit, RaceInit, JoinsInit, OnePassInit DEF InOnePass, JoinsOnceCrashed
<1>2. InOnePass /\ [Next]_vars => InOnePass'
  BY TypedStep, QuietStep, OnceStep, RaceStep, JoinsStep, PassesStep DEF InOnePass
<1> QED BY <1>1, <1>2, PTL DEF Spec

\* On every diagram without loops on which, before joins, only alternatives merge,
\* and as long as the engine does not stop: each join has one FNI, and so fires at
\* most once. No token arrives after dead-path elimination has let the join fire.
\* (should_fire?, store_join_routing, dispatch_successors.)
THEOREM JoinsFire == Spec => []JoinsFireOnce
<1>1. InOnePass => JoinsFireOnce
  BY PassesImplyJoinsFireOnce DEF InOnePass
<1> QED BY <1>1, InOnePassAlways, PTL

\* And there, the PI never fails for a token that comes to a join a second time:
\* duplicate_join_arrival is unreachable. (route_to_join.)
NoDuplicateArrival ==
    crashes = 0 /\ diagram \in FiresOnce => \A token \in todo : Dispatch(token) => ~DuplicateArrival(token)

THEOREM NoTokenArrivesTwice == Spec => [][NoDuplicateArrival]_vars
<1>1. InOnePass /\ [Next]_vars => [NoDuplicateArrival]_vars
  BY NeverTwice DEF InOnePass, Passes, NoDuplicateArrival
<1> QED BY <1>1, InOnePassAlways, PTL DEF Spec
=============================================================================
