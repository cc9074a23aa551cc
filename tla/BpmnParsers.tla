------------------------------ MODULE BpmnParsers ------------------------------
(***************************************************************************)
(* The SDK promises the model the engine's parser builds (parseBpmn: "a     *)
(* fully typed model matching the engine's internal parser output").        *)
(* Every closed document is read by both; the properties compare the two.   *)
(***************************************************************************)
EXTENDS EngineBpmnParser

Sdk == INSTANCE SdkBpmnParser

Engine == Finalize(sax)
Model  == Sdk!ParseDefinitions(doc)
BpmnJudged == Judged("bpmn")

RECURSIVE AllNodes(_)
AllNodes(nodes) ==
    FlattenSeq([n \in DOMAIN nodes |-> <<nodes[n]>> \o AllNodes(nodes[n].flowNodes)])

NodesOf(definitions) ==
    FlattenSeq([p \in DOMAIN definitions.processes |->
                  AllNodes(definitions.processes[p].flowNodes)])

Ids(s) == [n \in DOMAIN s |-> s[n].id]

\* Two sequences that agree, element by element, on what the views show.
AlikeAs(s, View(_), t, Other(_)) ==
    Len(s) = Len(t) /\ \A n \in DOMAIN s : View(s[n]) = Other(t[n])
Alike(s, t, View(_)) == AlikeAs(s, View, t, View)

Shape(node) == <<node.id, node.incoming, node.outgoing, node.dataInput, node.dataOutput,
                 Ids(node.flowNodes), Ids(node.sequenceFlows), node.data>>
TypeData(node) == <<node.fields, node.inMappings, node.outMappings, node.eventDefinition,
                    node.multiInstance, node.standardLoop, node.documentation>>
ProcessShape(p) == <<p.id, p.version, p.correlationKey, Ids(p.flowNodes),
                     Ids(p.sequenceFlows), p.associations, p.data>>

\* What the handler remembers of the open elements is what is open: one stack
\* entry per subprocess, innermost first, and a process inside a process only.
BpmnTypeOK ==
    /\ sax.refused \in BOOLEAN
    /\ [n \in DOMAIN sax.subprocesses |-> sax.subprocesses[n].node.id]
          = Reverse(OpenAre(Subprocesses))
    /\ (sax.process = None) = (OpenAre({"process"}) = <<>>)
    /\ sax.multiInstance # NoLoop \/ sax.standardLoop # NoLoop => sax.node # None

\* Both parsers nest the same nodes in the same scopes, in the same order, with
\* the same flows, references and data, at any depth of subprocesses: what is
\* saved, flushed and restored around a nested scope loses nothing, and no end
\* event meets a state the handler has no clause for.
SameGraph ==
    /\ ~sax.refused
    /\ BpmnJudged =>
        LET engine == Engine
            model == Model
        IN  /\ Alike(engine.processes, model.processes, ProcessShape)
            /\ Alike(NodesOf(engine), NodesOf(model), Shape)
            /\ engine.definitions = model.definitions
            /\ engine.linterScores = model.linterScores

\* The documentation the handler meets while the node is current: any in the node,
\* whatever element it documents, until a node inside it begins.
DocumentationRead(i) ==
    SelectSeq([k \in DOMAIN doc |-> k],
              LAMBDA k : /\ doc[k].tag = "documentation" /\ Inside(doc, k, i)
                         /\ \A n \in i + 1 .. k : doc[n].tag \notin FlowNodeElements)
DocumentationKept(node) ==
    IF DocumentationRead(node.id) = KidsTagged(doc, node.id, {"documentation"})
    THEN node.documentation ELSE LastOrNone(DocumentationRead(node.id))

\* A text that comes after an attribute of the same name replaces it in the handler
\* (sax_handler.ex:1304), where the SDK has the attribute first (parser.ts:749).
WithoutAttribute(node) ==
    LET text == FirstTagged(doc, Sdk!ExtensionChildren(doc, node.id), "implementation")
    IN {IF p = <<"implementation", node.id>> /\ text # Absent THEN <<p[1], text>> ELSE p :
           p \in node.fields}

\* Both give every node the same texts, mappings, event definition, loop and
\* documentation, though one finds them below the node and the other remembers which
\* node, loop or definition was open when the text ended, but for two cases: an
\* implementation in an attribute and a text, and documentation of an element that is
\* no flow node, which the handler takes for that of the node it is in.
SameTypeData ==
    BpmnJudged =>
        AlikeAs(NodesOf(Engine), TypeData, NodesOf(Model),
                LAMBDA node : TypeData([node EXCEPT !.fields = WithoutAttribute(node),
                                                    !.documentation = DocumentationKept(node)]))

\* Both know the same default flow of every gateway and mark the same flows, at
\* any depth, but for one case: the handler forgets what a subprocess itself
\* declares as default when the subprocess ends (sax_handler.ex:2213).
Marked(scope) == {f.id : f \in {g \in ToSet(scope.sequenceFlows) : g.isDefault}}
ByGateway(scope) ==
    {f \in Marked(scope) : \E k \in DOMAIN doc : doc[k].ref = f /\ doc[k].tag \in Gateways}
SameDefaults ==
    BpmnJudged =>
        LET engine == Engine
            model == Model
        IN  /\ AlikeAs(engine.processes, Marked, model.processes, ByGateway)
            /\ AlikeAs(NodesOf(engine), LAMBDA node : <<node.defaultFlowRef, Marked(node)>>,
                       NodesOf(model), LAMBDA node : <<node.defaultFlowRef, ByGateway(node)>>)

\* The same boundary events hang on every node, in the same order on the nodes of
\* a process, in the opposite order inside a subprocess: there the handler has
\* reversed its nodes before it links them (sax_handler.ex:2172).
InEngineOrder(node) ==
    IF TagAt(doc, doc[node.id].parent) = "process" THEN node.boundaryEventRefs
    ELSE Reverse(node.boundaryEventRefs)
SameBoundaries ==
    BpmnJudged => AlikeAs(NodesOf(Engine), LAMBDA node : node.boundaryEventRefs,
                      NodesOf(Model), InEngineOrder)

\* A compensation boundary that one association leaves is linked to its handler by
\* both, unless the association comes after the subprocess the boundary is in: the
\* engine resolves the boundaries of a scope when the scope ends, from what it has
\* read by then.  Of several it has read the first in the document decides, where the
\* SDK, "mirroring the engine's model-build step" (parser.ts:1044), takes the last.
ReadInTime(boundary, k) ==
    \/ k < doc[boundary].parent \/ Inside(doc, k, doc[boundary].parent)
    \/ TagAt(doc, doc[boundary].parent) = "process"
HandlerInTime(node) ==
    LET leaving == SelectSeq([k \in DOMAIN doc |-> k],
                             LAMBDA k : doc[k].tag = "association" /\ doc[k].ref = node.id)
        read == SelectSeq(leaving, LAMBDA k : ReadInTime(node.id, k))
    IN IF node.eventDefinition.kind # "compensateEventDefinition" \/ read = <<>>
       THEN Absent
       ELSE IF Len(leaving) = 1 THEN node.compensationHandlerId ELSE Head(read)
SameHandlers ==
    BpmnJudged => AlikeAs(NodesOf(Engine), LAMBDA node : node.compensationHandlerId,
                      NodesOf(Model), HandlerInTime)

\* Every lane reaches the model with its nodes, nested lanes first, but a lane
\* with lanes two levels below: one field remembers the lane around a lane set,
\* and the inner set overwrites it (sax_handler.ex:338).
HasGrandchildren(lane) ==
    \E k \in DOMAIN doc :
        /\ doc[k].tag = "childLaneSet" /\ TagAt(doc, doc[doc[k].parent].parent) = "childLaneSet"
        /\ doc[doc[doc[k].parent].parent].parent = lane.id
SameLanes ==
    BpmnJudged => AlikeAs(Engine.processes, LAMBDA p : p.lanes,
                      Model.processes,
                      LAMBDA p : SelectSeq(p.lanes, LAMBDA l : ~HasGrandchildren(l)))
=============================================================================
