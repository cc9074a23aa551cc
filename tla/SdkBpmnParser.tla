----------------------------- MODULE SdkBpmnParser -----------------------------
(***************************************************************************)
(* parseBpmn of the TypeScript SDK: a recursive walk over the finished     *)
(* tree.  Every operator takes the document d; null is Absent, a missing    *)
(* list is <<>>.  Ids and texts are element positions (BpmnDocument), so    *)
(* attributes that are only copied are not modelled.                       *)
(***************************************************************************)
EXTENDS BpmnDocument

\* Mutated forms of operators below, each a plausible bug.
OwnTextFirst(first, second) == IF second # Absent THEN second ELSE first
BoundariesInOrder(d, i) ==
    SelectSeq(KidsTagged(d, d[i].parent, {"boundaryEvent"}), LAMBDA k : d[k].ref = i)

\* The child elements of an element's first <extensionElements>.
ExtensionChildren(d, i) ==
    LET extension == KidsTagged(d, i, {"extensionElements"})
    IN IF extension = <<>> THEN <<>> ELSE Kids(d, Head(extension))

EitherText(first, second) == IF first # Absent THEN first ELSE second

\* The texts each flow node type takes from its extension elements, and those
\* it takes from its own children.
UserTaskFields == {"formFields", "formActions", "assignees", "payloadContract",
                   "resultContract", "dueDate", "priority"}
ServiceTaskFields == {"payloadContract", "resultContract", "httpUrl", "httpMethod",
                      "httpBody", "httpAuthHeader", "httpResponseHeaders"}
ManualTaskFields == {"requireConfirmation"}
ScriptTaskFields == {"scriptRef", "payloadContract", "resultContract"}
BusinessRuleTaskFields == {"implementation", "decisionRef", "decisionElementId",
                           "resultVariable", "traceUnmatchedRules",
                           "payloadContract", "resultContract"}
CallActivityFields == {"startEventId", "calledProcessVersion"}
SubProcessFields(tag) ==
    {"payloadContract", "resultContract"}
    \cup (IF tag = "adHocSubProcess" THEN {"activeElements"} ELSE {})

ExtensionFields(tag) ==
    CASE tag \in {"startEvent", "intermediateCatchEvent", "boundaryEvent", "receiveTask"}
           -> {"resultContract"}
      [] tag \in {"endEvent", "intermediateThrowEvent"} -> {"payloadContract"}
      [] tag = "userTask" -> UserTaskFields
      [] tag = "serviceTask" -> ServiceTaskFields
      [] tag = "manualTask" -> ManualTaskFields
      [] tag = "scriptTask" -> ScriptTaskFields
      [] tag = "businessRuleTask" -> BusinessRuleTaskFields
      [] tag = "sendTask" -> {"payloadContract", "correlationRetrievalExpression"}
      [] tag = "callActivity" -> CallActivityFields
      [] tag \in Subprocesses -> SubProcessFields(tag)
      [] OTHER -> {}

ChildFields(tag) ==
    CASE tag \in {"scriptTask", "businessRuleTask"} -> {"script"}
      [] tag = "complexGateway" -> {"activationCondition"}
      [] tag = "adHocSubProcess" -> {"completionCondition"}
      [] OTHER -> {}

TakesIn(tag) == tag \in (Tasks \ {"task", "manualTask"}) \cup Subprocesses
                        \cup {"endEvent", "intermediateThrowEvent"}
TakesOut(tag) == tag \in (Tasks \ {"task", "manualTask"}) \cup Subprocesses
                         \cup {"intermediateCatchEvent", "boundaryEvent"}

\* The attribute, if there is one, comes before the text of the extension.
Attribute(d, i, f) == IF f = "implementation" /\ d[i].value THEN i ELSE Absent
BuildTypeData(d, i) ==
    LET tag == d[i].tag
        extension == ExtensionChildren(d, i)
        Found(kids, fields) ==
            {<<f, EitherText(Attribute(d, i, f), FirstTagged(d, kids, f))>> : f \in fields}
    IN {p \in Found(extension, ExtensionFields(tag)) \cup Found(Kids(d, i), ChildFields(tag)) :
           p[2] # Absent}

\* parseMappings: the input or the output mappings, in document order.
ParseMappings(d, i, tag) ==
    SelectSeq(ExtensionChildren(d, i), LAMBDA k : d[k].tag = tag)

\* The texts an event definition takes from its own children and extensions.
BuildEventDefinition(d, k) ==
    LET kind == d[k].tag
        own == CASE kind = "timerEventDefinition" -> {"timeDate", "timeDuration", "timeCycle"}
                 [] kind = "conditionalEventDefinition" -> {"condition"}
                 [] OTHER -> {}
        extended == CASE kind = "messageEventDefinition" -> {"correlationRetrievalExpression"}
                      [] kind = "errorEventDefinition" -> {"errorCode", "errorMessage"}
                      [] OTHER -> {}
        Found(kids, fields) == {<<f, FirstTagged(d, kids, f)>> : f \in fields}
    IN [kind |-> kind,
        fields |-> {p \in Found(Kids(d, k), own) \cup Found(ExtensionChildren(d, k), extended) :
                       p[2] # Absent}]

NoneDefinition == [kind |-> "none", fields |-> {}]

\* The first event definition among the children decides.
ParseEventDefinition(d, i) ==
    LET found == KidsTagged(d, i, EventDefinitions)
    IN IF d[i].tag \notin Events \/ found = <<>> THEN NoneDefinition
       ELSE BuildEventDefinition(d, Head(found))

ParseMultiInstance(d, i) ==
    LET own == Kids(d, i)
        extension == ExtensionChildren(d, i)
        Own(tag) == FirstTagged(d, own, tag)
        Ext(tag) == FirstTagged(d, extension, tag)
    IN {p \in {<<"collectionExpression", EitherText(Ext("inputCollection"), Own("loopDataInput"))>>,
               <<"elementVariable", EitherText(Ext("elementVariable"), Own("inputDataItem"))>>,
               <<"outputCollection", EitherText(Ext("outputCollection"), Own("loopDataOutput"))>>,
               <<"outputElementVariable",
                 EitherText(Ext("outputElementVariable"), Own("outputDataItem"))>>,
               <<"completionCondition", Own("completionCondition")>>,
               <<"loopInterval", Ext("loopInterval")>>,
               <<"loopBreakCondition", Ext("loopBreakCondition")>>,
               <<"maxIterations", Ext("maxIterations")>>,
               <<"loopCardinality", Own("loopCardinality")>>} : p[2] # Absent}

ParseStandardLoop(d, i) ==
    {p \in {<<"loopCondition", FirstTagged(d, Kids(d, i), "loopCondition")>>,
            <<"loopInterval", FirstTagged(d, ExtensionChildren(d, i), "loopInterval")>>} :
        p[2] # Absent}

ParseLoop(d, i, tag, Parse(_, _)) ==
    LET found == KidsTagged(d, i, {tag})
    IN IF found = <<>> THEN NoLoop ELSE Parse(d, Last(found))

\* applyDefaultFlows: the defaults of the flow nodes of one scope.
DefaultIds(d, i) ==
    {d[k].ref : k \in ToSet(KidsTagged(d, i, FlowNodeElements \ {"boundaryEvent"}))} \ {Absent}

IsDefault(d, ids, k) == k \in ids

ParseSequenceFlow(d, ids, k) ==
    [id |-> k, conditionExpression |-> FirstTagged(d, Kids(d, k), "conditionExpression"),
     isDefault |-> IsDefault(d, ids, k)]

ParseSequenceFlows(d, i) ==
    LET flows == KidsTagged(d, i, {"sequenceFlow"})
    IN [n \in DOMAIN flows |-> ParseSequenceFlow(d, DefaultIds(d, i), flows[n])]

\* linkBoundaryRefs: the boundary events attached to a node, last one first.
LinkBoundaryRefs(d, i) ==
    Reverse(SelectSeq(KidsTagged(d, d[i].parent, {"boundaryEvent"}), LAMBDA k : d[k].ref = i))

\* Every data item declared directly in a scope.
ItemsOf(d, i, t) == KidsTagged(d, i, {t})
DataOf(d, i) == [t \in DataItems |-> ItemsOf(d, i, t)]

\* The element an element is declared in, on the level of the definitions.
RECURSIVE OwnerOf(_, _)
OwnerOf(d, k) == IF d[k].parent = Root THEN k ELSE OwnerOf(d, d[k].parent)

\* collectAssociationsDeep: those of the whole process, subprocesses included.
CollectAssociationsDeep(d, p) ==
    SelectSeq([k \in DOMAIN d |-> k], LAMBDA k : d[k].tag = "association" /\ OwnerOf(d, k) = p)

\* linkCompensationHandlers: the last association that leaves the boundary event.
CompensationHandler(d, i) ==
    LET leaving == SelectSeq(CollectAssociationsDeep(d, OwnerOf(d, i)),
                             LAMBDA k : d[k].ref = i)
    IN IF d[i].tag # "boundaryEvent" \/ leaving = <<>> THEN Absent ELSE Last(leaving)

\* collectLanesDeep: post-order, so a nested lane comes before its parent.
RECURSIVE CollectLanesDeep(_, _)
CollectLanesDeep(d, i) ==
    LET Lanes(k) == CollectLanesDeep(d, k) \o (IF d[k].tag = "lane" THEN <<k>> ELSE <<>>)
        kids == Kids(d, i)
    IN FlattenSeq([n \in DOMAIN kids |-> Lanes(kids[n])])

ParseLane(d, k) == [id |-> k, flowNodeRefs |-> KidsTagged(d, k, {"flowNodeRef"})]

\* parseFlowNode, with buildSubProcessTypeData for a subprocess.
RECURSIVE ParseFlowNode(_, _)
ParseFlowNodes(d, i) ==
    LET nodes == KidsTagged(d, i, FlowNodeElements)
    IN [n \in DOMAIN nodes |-> ParseFlowNode(d, nodes[n])]
ParseFlowNode(d, i) ==
    LET tag == d[i].tag
        inner == tag \in Subprocesses
    IN [id |-> i,
        incoming |-> Reverse(KidsTagged(d, i, {"incoming"})),
        outgoing |-> Reverse(KidsTagged(d, i, {"outgoing"})),
        dataInput |-> Reverse(KidsTagged(d, i, {"dataInputAssociation"})),
        dataOutput |-> Reverse(KidsTagged(d, i, {"dataOutputAssociation"})),
        documentation |-> LastTagged(d, Kids(d, i), "documentation"),
        boundaryEventRefs |-> LinkBoundaryRefs(d, i),
        defaultFlowRef |-> IF tag \in {"exclusiveGateway", "inclusiveGateway"}
                           THEN d[i].ref ELSE Absent,
        compensationHandlerId |-> CompensationHandler(d, i),
        eventDefinition |-> ParseEventDefinition(d, i),
        fields |-> BuildTypeData(d, i),
        inMappings |-> IF TakesIn(tag) THEN ParseMappings(d, i, "inputMapping") ELSE <<>>,
        outMappings |-> IF TakesOut(tag) THEN ParseMappings(d, i, "outputMapping") ELSE <<>>,
        multiInstance |-> ParseLoop(d, i, "multiInstanceLoopCharacteristics", ParseMultiInstance),
        standardLoop |-> ParseLoop(d, i, "standardLoopCharacteristics", ParseStandardLoop),
        flowNodes |-> IF inner THEN ParseFlowNodes(d, i) ELSE <<>>,
        sequenceFlows |-> IF inner THEN ParseSequenceFlows(d, i) ELSE <<>>,
        data |-> IF inner THEN DataOf(d, i) ELSE [t \in DataItems |-> <<>>]]

ParseProcess(d, i) ==
    LET lanes == CollectLanesDeep(d, i)
        extension == ExtensionChildren(d, i)
    IN [id |-> i,
        version |-> LastTagged(d, extension, "version"),
        correlationKey |-> LastTagged(d, extension, "correlationKey"),
        flowNodes |-> ParseFlowNodes(d, i),
        sequenceFlows |-> ParseSequenceFlows(d, i),
        lanes |-> [n \in DOMAIN lanes |-> ParseLane(d, lanes[n])],
        associations |-> CollectAssociationsDeep(d, i),
        data |-> DataOf(d, i)]

\* collectLinterScores: at any depth below the extensions of the definitions.
CollectLinterScores(d) ==
    SelectSeq([k \in DOMAIN d |-> k],
              LAMBDA k : /\ d[k].tag = "linterRulesetScore"
                         /\ d[OwnerOf(d, k)].tag = "extensionElements")

ParseDefinitions(d) ==
    LET processes == KidsTagged(d, Root, {"process"})
    IN [processes |-> [n \in DOMAIN processes |-> ParseProcess(d, processes[n])],
        definitions |-> [t \in RootDefinitions |-> KidsTagged(d, Root, {t})],
        linterScores |-> CollectLinterScores(d)]
=============================================================================
