---------------------------- MODULE EngineBpmnParser ----------------------------
(***************************************************************************)
(* BfwEngine.BPMN.Parser.SaxHandler, the engine's parser: a state machine   *)
(* over the start and end events of the elements, which keeps the process,  *)
(* the node, the lane and the loop it is inside and a stack of the          *)
(* subprocesses around them.                                               *)
(*                                                                         *)
(* Lists are prepended to and reversed when their owner ends, as in the     *)
(* code.  A clause whose pattern does not match raises, and Parser.parse    *)
(* refuses the document: `refused'.                                         *)
(***************************************************************************)
EXTENDS BpmnDocument

VARIABLE sax        \* the state map of the handler

Prepend(x, s) == <<x>> \o s

NoData == [t \in DataItems |-> <<>>]
NoneEvent == [kind |-> "none", fields |-> {}]

\* build_initial_type_data: a business rule task starts with its attribute.
InitialFields(e, i) == IF e.value THEN {<<"implementation", i>>} ELSE {}

NewNode(e, i) ==
    [id |-> i, incoming |-> <<>>, outgoing |-> <<>>, dataInput |-> <<>>,
     dataOutput |-> <<>>, documentation |-> Absent, boundaryEventRefs |-> <<>>,
     defaultFlowRef |-> Absent, compensationHandlerId |-> Absent,
     eventDefinition |-> NoneEvent, fields |-> InitialFields(e, i), inMappings |-> <<>>,
     outMappings |-> <<>>, multiInstance |-> NoLoop, standardLoop |-> NoLoop,
     flowNodes |-> <<>>, sequenceFlows |-> <<>>, data |-> NoData]

NewProcess(i) ==
    [id |-> i, version |-> Absent, correlationKey |-> Absent, flowNodes |-> <<>>,
     sequenceFlows |-> <<>>, lanes |-> <<>>, associations |-> <<>>, data |-> NoData]

InitialState ==
    [processes |-> <<>>, definitions |-> [t \in RootDefinitions |-> <<>>],
     linterScores |-> <<>>, process |-> None, node |-> None, eventDef |-> None,
     sequenceFlow |-> None, lane |-> None, parentLane |-> None,
     multiInstance |-> NoLoop, standardLoop |-> NoLoop, defaultFlows |-> {},
     subprocesses |-> <<>>, refused |-> FALSE]

\* Mutated forms of operators below, each a plausible bug.
SavedNodeStale(s) == s
LaneForgotten(s) == None
ScopesDropped(s) == <<>>

-----------------------------------------------------------------------------
(* Passes over the nodes of a scope when its element ends.                 *)

WithDefaults(nodes, defaults) ==
    [n \in DOMAIN nodes |->
        LET own == {p \in defaults : p[1] = nodes[n].id}
        IN IF own = {} \/ doc[nodes[n].id].tag \notin {"exclusiveGateway", "inclusiveGateway"}
           THEN nodes[n]
           ELSE [nodes[n] EXCEPT !.defaultFlowRef = (CHOOSE p \in own : TRUE)[2]]]

FlowsMarked(flows, defaults) ==
    [n \in DOMAIN flows |-> [flows[n] EXCEPT !.isDefault =
                                \E p \in defaults : p[2] = flows[n].id]]

\* In the order the list of nodes has when the pass runs.
WithBoundaryRefs(nodes) ==
    [n \in DOMAIN nodes |-> [nodes[n] EXCEPT !.boundaryEventRefs =
        LET attached == SelectSeq(nodes, LAMBDA b : /\ doc[b.id].tag = "boundaryEvent"
                                                    /\ doc[b.id].ref = nodes[n].id)
        IN [m \in DOMAIN attached |-> attached[m].id]]]

\* association_by_source: a later pair of Map.new replaces an earlier one, and the
\* list has the newest association first, so the oldest decides.
NewestBySource(associations) ==                 \* a mutated form: the first pair decides
    [source \in {doc[a].ref : a \in ToSet(associations)} |->
        Head(SelectSeq(associations, LAMBDA a : doc[a].ref = source))]
AssociationBySource(associations) ==
    [source \in {doc[a].ref : a \in ToSet(associations)} |->
        Last(SelectSeq(associations, LAMBDA a : doc[a].ref = source))]

\* Only compensation boundaries, and only the associations read so far.
WithHandlers(nodes, associations) ==
    LET bySource == AssociationBySource(associations)
    IN [n \in DOMAIN nodes |->
        IF nodes[n].eventDefinition.kind # "compensateEventDefinition"
           \/ doc[nodes[n].id].tag # "boundaryEvent"
        THEN nodes[n]
        ELSE [nodes[n] EXCEPT !.compensationHandlerId =
                IF nodes[n].id \in DOMAIN bySource THEN bySource[nodes[n].id] ELSE Absent]]

\* An enclosing subprocess is put back on the stack before its node is replaced.
FlushShell(s) ==
    IF s.subprocesses # <<>> /\ s.node # None /\ s.node.id = Head(s.subprocesses).node.id
    THEN [s EXCEPT !.subprocesses[1].node = s.node]
    ELSE s

FlushBeforeEnd(s) == FlushShell(s)

\* A subprocess starts with empty lists; the associations and lanes go on.
Cleared(p) == [p EXCEPT !.flowNodes = <<>>, !.sequenceFlows = <<>>, !.data = NoData]

\* The scopes a subprocess goes back to.
ScopesAround(s) == Tail(s.subprocesses)

\* The lane around a childLaneSet, which one field remembers and not a stack.
LaneOfSet(s) == s.parentLane

-----------------------------------------------------------------------------
(* Start events.                                                           *)

Begin(e, next) == Open(e) /\ sax' = next

StartProcess(e) ==
    /\ e.tag = "process"
    /\ Begin(e, [sax EXCEPT !.process = NewProcess(Len(doc) + 1)])

StartRootDefinition(e) ==
    /\ e.tag \in RootDefinitions
    /\ Begin(e, IF sax.process = None
                THEN [sax EXCEPT !.definitions[e.tag] = Prepend(Len(doc) + 1, @)]
                ELSE sax)

StartLinterScore(e) ==
    /\ e.tag = "linterRulesetScore"
    /\ Begin(e, IF sax.process = None
                THEN [sax EXCEPT !.linterScores = Prepend(Len(doc) + 1, @)]
                ELSE sax)

NewestDefault(e) ==         \* a mutated form: the defaults of other gateways are lost
    IF e.ref = Absent \/ e.tag = "boundaryEvent" THEN sax.defaultFlows
    ELSE {<<Len(doc) + 1, e.ref>>}

NewDefaults(e) ==
    IF e.ref = Absent \/ e.tag = "boundaryEvent" THEN sax.defaultFlows
    ELSE sax.defaultFlows \cup {<<Len(doc) + 1, e.ref>>}

StartFlowNode(e) ==
    /\ e.tag \in FlowNodeElements \ Subprocesses
    /\ Begin(e, [FlushShell(sax) EXCEPT !.node = NewNode(e, Len(doc) + 1),
                                        !.eventDef = None,
                                        !.defaultFlows = NewDefaults(e)])

StartSubprocess(e) ==
    /\ e.tag \in Subprocesses
    /\ LET s == FlushShell(sax)
           node == NewNode(e, Len(doc) + 1)
           saved == [node |-> node, process |-> s.process, defaultFlows |-> s.defaultFlows]
       IN Begin(e, [s EXCEPT !.node = node, !.eventDef = None,
                             !.defaultFlows = NewDefaults(e),
                             !.process = Cleared(s.process),
                             !.subprocesses = Prepend(saved, @)])

StartEventDefinition(e) ==
    /\ e.tag \in EventDefinitions
    /\ Begin(e, IF sax.node = None THEN sax
                ELSE [sax EXCEPT !.eventDef = [kind |-> e.tag, fields |-> {}]])

StartSequenceFlow(e) ==
    /\ e.tag = "sequenceFlow"
    /\ Begin(e, [sax EXCEPT !.sequenceFlow =
                    [id |-> Len(doc) + 1, conditionExpression |-> Absent, isDefault |-> FALSE]])

StartAssociation(e) ==
    /\ e.tag = "association"
    /\ Begin(e, [sax EXCEPT !.process.associations = Prepend(Len(doc) + 1, @)])

StartLane(e) ==
    /\ e.tag = "lane"
    /\ Begin(e, [sax EXCEPT !.lane = [id |-> Len(doc) + 1, flowNodeRefs |-> <<>>]])

StartChildLaneSet(e) ==
    /\ e.tag = "childLaneSet"
    /\ Begin(e, [sax EXCEPT !.parentLane = sax.lane])

StartLoop(e) ==
    /\ e.tag \in {"multiInstanceLoopCharacteristics", "standardLoopCharacteristics"}
    /\ Begin(e, IF e.tag = "multiInstanceLoopCharacteristics"
                THEN [sax EXCEPT !.multiInstance = {}]
                ELSE [sax EXCEPT !.standardLoop = {}])

\* A data item carries its name in an attribute, so it is read when it opens.
DataItemField == [inputDataItem |-> "elementVariable", outputDataItem |-> "outputElementVariable"]
StartDataItem(e) ==
    /\ e.tag \in DOMAIN DataItemField
    /\ LET f == DataItemField[e.tag] IN
       Begin(e, IF sax.multiInstance # NoLoop /\ \A p \in sax.multiInstance : p[1] # f
                THEN [sax EXCEPT !.multiInstance = @ \cup {<<f, Len(doc) + 1>>}]
                ELSE sax)

StartedHere == {"process", "linterRulesetScore", "sequenceFlow", "association", "lane",
                "childLaneSet", "multiInstanceLoopCharacteristics",
                "standardLoopCharacteristics"}
               \cup DOMAIN DataItemField \cup RootDefinitions \cup FlowNodeElements
               \cup EventDefinitions

\* Elements whose start clears the text buffer and that count when they end.
StartText(e) == e.tag \notin StartedHere /\ Begin(e, sax)

Start ==
    \E e \in OfferedFitting :
        \/ StartProcess(e) \/ StartRootDefinition(e) \/ StartLinterScore(e)
        \/ StartFlowNode(e) \/ StartSubprocess(e) \/ StartEventDefinition(e)
        \/ StartSequenceFlow(e) \/ StartAssociation(e) \/ StartLane(e)
        \/ StartChildLaneSet(e) \/ StartLoop(e) \/ StartDataItem(e) \/ StartText(e)

-----------------------------------------------------------------------------
(* End events of the innermost element.                                    *)

Ending(tags) == open # <<>> /\ TagAt(doc, Innermost) \in tags
EndTag == TagAt(doc, Innermost)
Finish(next) == Close /\ sax' = next
Refuse == [sax EXCEPT !.refused = TRUE]

EndProcess ==
    /\ Ending({"process"})
    /\ LET nodes == WithHandlers(WithBoundaryRefs(WithDefaults(sax.process.flowNodes,
                                                               sax.defaultFlows)),
                                 sax.process.associations)
           done == [sax.process EXCEPT !.flowNodes = nodes,
                       !.sequenceFlows = FlowsMarked(@, sax.defaultFlows)]
       IN Finish([sax EXCEPT !.processes = Prepend(done, @), !.process = None,
                             !.defaultFlows = {}])

EndFlowNode ==
    /\ Ending(FlowNodeElements \ Subprocesses)
    /\ IF sax.node = None THEN Finish(Refuse) ELSE
       LET node == IF EndTag \in Events /\ sax.eventDef # None
                   THEN [sax.node EXCEPT !.eventDefinition = sax.eventDef] ELSE sax.node
       IN Finish([sax EXCEPT !.process.flowNodes = Prepend(node, @), !.node = None,
                             !.eventDef = None])

EndSubprocess ==
    /\ Ending(Subprocesses)
    /\ LET s == FlushBeforeEnd(sax)
           saved == Head(s.subprocesses)
           nodes == WithHandlers(WithBoundaryRefs(WithDefaults(Reverse(s.process.flowNodes),
                                                               s.defaultFlows)),
                                 s.process.associations)
           node == [saved.node EXCEPT !.flowNodes = nodes,
                       !.sequenceFlows = FlowsMarked(Reverse(s.process.sequenceFlows),
                                                     s.defaultFlows),
                       !.data = [t \in DataItems |-> Reverse(s.process.data[t])]]
       IN Finish([s EXCEPT !.process.flowNodes = Prepend(node, saved.process.flowNodes),
                           !.process.sequenceFlows = saved.process.sequenceFlows,
                           !.process.data = saved.process.data,
                           !.node = None, !.eventDef = None,
                           !.defaultFlows = saved.defaultFlows,
                           !.subprocesses = ScopesAround(s)])

EndSequenceFlow ==
    /\ Ending({"sequenceFlow"})
    /\ Finish([sax EXCEPT !.process.sequenceFlows = Prepend(sax.sequenceFlow, @),
                          !.sequenceFlow = None])

EndConditionExpression ==
    /\ Ending({"conditionExpression"})
    /\ Finish(IF sax.sequenceFlow = None THEN Refuse
              ELSE [sax EXCEPT !.sequenceFlow.conditionExpression = Innermost])

EndLane ==
    /\ Ending({"lane"})
    /\ Finish([sax EXCEPT !.process.lanes = Prepend(sax.lane, @), !.lane = None])

EndChildLaneSet ==
    /\ Ending({"childLaneSet"})
    /\ Finish([sax EXCEPT !.lane = LaneOfSet(sax), !.parentLane = None])

EndFlowNodeRef ==
    /\ Ending({"flowNodeRef"})
    /\ Finish(IF sax.lane = None THEN Refuse
              ELSE [sax EXCEPT !.lane.flowNodeRefs = Prepend(Innermost, @)])

\* incoming and outgoing: on the node, or on the subprocess whose inner nodes
\* have ended; nowhere else.
WithRef(node, tag, i) ==
    IF tag = "incoming" THEN [node EXCEPT !.incoming = Prepend(i, @)]
    ELSE [node EXCEPT !.outgoing = Prepend(i, @)]

EndFlowRef ==
    /\ Ending({"incoming", "outgoing"})
    /\ Finish(IF sax.node # None
              THEN [sax EXCEPT !.node = WithRef(@, EndTag, Innermost)]
              ELSE IF sax.subprocesses # <<>>
              THEN [sax EXCEPT !.subprocesses[1].node = WithRef(@, EndTag, Innermost)]
              ELSE sax)

\* The clause of the start event needs a node; the one of the end event adds
\* to the node or, for a data item, to the process.
EndDataElement ==
    /\ Ending(DataItems \cup {"dataInputAssociation", "dataOutputAssociation"})
    /\ Finish(CASE EndTag \in DataItems ->
                     [sax EXCEPT !.process.data[EndTag] = Prepend(Innermost, @)]
                [] EndTag \notin DataItems /\ sax.node = None -> sax
                [] EndTag = "dataInputAssociation" /\ sax.node # None ->
                     [sax EXCEPT !.node.dataInput = Prepend(Innermost, @)]
                [] OTHER -> [sax EXCEPT !.node.dataOutput = Prepend(Innermost, @)])

\* Whoever holds the documentation: the node that is current decides.
EndDocumentation ==
    /\ Ending({"documentation"})
    /\ Finish(IF sax.node = None THEN sax
              ELSE [sax EXCEPT !.node.documentation = Innermost])

EndLoop ==
    /\ Ending({"multiInstanceLoopCharacteristics", "standardLoopCharacteristics"})
    /\ Finish(IF sax.node = None THEN Refuse
              ELSE IF EndTag = "multiInstanceLoopCharacteristics"
              THEN [sax EXCEPT !.node.multiInstance = sax.multiInstance,
                               !.multiInstance = NoLoop]
              ELSE [sax EXCEPT !.node.standardLoop = sax.standardLoop,
                               !.standardLoop = NoLoop])

\* A later text replaces an earlier one of the same field.
Put(fields, f, i) == {p \in fields : p[1] # f} \cup {<<f, i>>}

\* loopDataInput and loopDataOutput fill a field only when no extension has.
LoopField ==
    [inputCollection |-> "collectionExpression", loopDataInput |-> "collectionExpression",
     outputCollection |-> "outputCollection", loopDataOutput |-> "outputCollection",
     outputElementVariable |-> "outputElementVariable",
     elementVariable |-> "elementVariable", loopBreakCondition |-> "loopBreakCondition",
     maxIterations |-> "maxIterations", loopCardinality |-> "loopCardinality",
     loopInterval |-> "loopInterval", loopCondition |-> "loopCondition"]

EndLoopText ==
    /\ Ending(DOMAIN LoopField)
    /\ LET f == LoopField[EndTag]
           kept == /\ EndTag \in {"loopDataInput", "loopDataOutput"}
                   /\ \E p \in sax.multiInstance : p[1] = f
       IN Finish(CASE EndTag # "loopCondition" /\ sax.multiInstance # NoLoop ->
                        IF kept THEN sax ELSE [sax EXCEPT !.multiInstance = Put(@, f, Innermost)]
                   [] /\ EndTag \in {"loopInterval", "loopCondition"}
                      /\ sax.standardLoop # NoLoop
                      /\ EndTag = "loopCondition" \/ sax.multiInstance = NoLoop ->
                        [sax EXCEPT !.standardLoop = Put(@, f, Innermost)]
                   [] OTHER -> sax)

\* The type data that has a field for a text; %type{} in the end handlers.
TypesWith ==
    [resultContract |-> {"userTask", "serviceTask", "scriptTask", "businessRuleTask",
                         "receiveTask", "intermediateCatchEvent", "boundaryEvent",
                         "startEvent"} \cup Subprocesses,
     payloadContract |-> {"serviceTask", "userTask", "scriptTask", "businessRuleTask",
                          "sendTask", "intermediateThrowEvent", "endEvent"}
                         \cup Subprocesses,
     activeElements |-> {"adHocSubProcess"}, completionCondition |-> {"adHocSubProcess"},
     activationCondition |-> {"complexGateway"},
     assignees |-> {"userTask"}, formFields |-> {"userTask"}, formActions |-> {"userTask"},
     dueDate |-> {"userTask"}, priority |-> {"userTask"},
     implementation |-> {"businessRuleTask"}, scriptRef |-> {"scriptTask"},
     script |-> {"scriptTask", "businessRuleTask"},
     httpUrl |-> {"serviceTask"}, httpMethod |-> {"serviceTask"}, httpBody |-> {"serviceTask"},
     httpAuthHeader |-> {"serviceTask"}, httpResponseHeaders |-> {"serviceTask"},
     requireConfirmation |-> {"manualTask"},
     startEventId |-> {"callActivity"}, calledProcessVersion |-> {"callActivity"},
     decisionRef |-> {"businessRuleTask"}, decisionElementId |-> {"businessRuleTask"},
     resultVariable |-> {"businessRuleTask"}, traceUnmatchedRules |-> {"businessRuleTask"}]

\* Texts that look below an ended inner node for the subprocess on the stack.
ReachShell == {"resultContract", "payloadContract", "activeElements", "completionCondition"}

PutField(node, f, i) ==
    IF doc[node.id].tag \in TypesWith[f] THEN [node EXCEPT !.fields = Put(@, f, i)] ELSE node

EndFieldText ==
    /\ Ending(DOMAIN TypesWith)
    /\ Finish(CASE EndTag = "completionCondition" /\ sax.multiInstance # NoLoop ->
                     [sax EXCEPT !.multiInstance = Put(@, "completionCondition", Innermost)]
                [] ~(EndTag = "completionCondition" /\ sax.multiInstance # NoLoop)
                   /\ sax.node # None ->
                     [sax EXCEPT !.node = PutField(@, EndTag, Innermost)]
                [] ~(EndTag = "completionCondition" /\ sax.multiInstance # NoLoop)
                   /\ sax.node = None /\ sax.subprocesses # <<>> /\ EndTag \in ReachShell ->
                     [sax EXCEPT !.subprocesses[1].node = PutField(@, EndTag, Innermost)]
                [] OTHER -> sax)

\* The texts of an event definition go to the definition read last.
EventFields ==
    [timeDate |-> "timerEventDefinition", timeDuration |-> "timerEventDefinition",
     timeCycle |-> "timerEventDefinition", condition |-> "conditionalEventDefinition",
     errorCode |-> "errorEventDefinition", errorMessage |-> "errorEventDefinition",
     correlationRetrievalExpression |-> "messageEventDefinition"]

EndEventText ==
    /\ Ending(DOMAIN EventFields)
    /\ Finish(CASE sax.eventDef # None ->
                     IF sax.eventDef.kind = EventFields[EndTag]
                     THEN [sax EXCEPT !.eventDef.fields = Put(@, EndTag, Innermost)] ELSE sax
                [] sax.eventDef = None /\ sax.node # None ->
                     IF EndTag = "correlationRetrievalExpression"
                        /\ doc[sax.node.id].tag = "sendTask"
                     THEN [sax EXCEPT !.node.fields = Put(@, EndTag, Innermost)] ELSE sax
                [] OTHER -> sax)

HasIn(tag) == tag \in {"userTask", "serviceTask", "scriptTask", "businessRuleTask", "sendTask",
                       "receiveTask", "callActivity", "endEvent", "intermediateThrowEvent"}
                      \cup Subprocesses
HasOut(tag) == tag \in {"userTask", "serviceTask", "scriptTask", "businessRuleTask", "sendTask",
                        "receiveTask", "callActivity", "intermediateCatchEvent",
                        "boundaryEvent"} \cup Subprocesses

AppendMapping(node, tag, i) ==
    CASE tag = "inputMapping" /\ HasIn(doc[node.id].tag) ->
           [node EXCEPT !.inMappings = Append(@, i)]
      [] tag = "outputMapping" /\ HasOut(doc[node.id].tag) ->
           [node EXCEPT !.outMappings = Append(@, i)]
      [] OTHER -> node

\* A mapping of the process itself finds no node data to go into, which raises.
EndMapping ==
    /\ Ending({"inputMapping", "outputMapping"})
    /\ Finish(IF sax.node # None
              THEN [sax EXCEPT !.node = AppendMapping(@, EndTag, Innermost)]
              ELSE IF sax.subprocesses # <<>>
              THEN [sax EXCEPT !.subprocesses[1].node = AppendMapping(@, EndTag, Innermost)]
              ELSE Refuse)

\* Wherever the process is current: the key and the version are the process's.
EndProcessText ==
    /\ Ending({"version", "correlationKey"})
    /\ Finish(IF sax.process = None THEN sax
              ELSE IF EndTag = "version" THEN [sax EXCEPT !.process.version = Innermost]
              ELSE [sax EXCEPT !.process.correlationKey = Innermost])

EndsWithoutEffect == {"association", "laneSet", "extensionElements", "linterRulesetScore",
                      "properties"}
                     \cup DOMAIN DataItemField \cup RootDefinitions \cup EventDefinitions

EndOther == Ending(EndsWithoutEffect) /\ Finish(sax)

End ==
    \/ EndProcess \/ EndFlowNode \/ EndSubprocess \/ EndSequenceFlow
    \/ EndConditionExpression \/ EndLane \/ EndChildLaneSet \/ EndFlowNodeRef
    \/ EndFlowRef \/ EndDataElement \/ EndDocumentation \/ EndLoop \/ EndLoopText
    \/ EndFieldText \/ EndEventText \/ EndMapping \/ EndProcessText \/ EndOther

\* finalize: lanes lost while they were nested are dropped with a warning.
Finalize(s) ==
    [processes |-> LET ps == Reverse(s.processes)
                   IN [n \in DOMAIN ps |->
        [ps[n] EXCEPT
            !.flowNodes = Reverse(@), !.sequenceFlows = Reverse(@),
            !.associations = Reverse(@), !.data = [t \in DataItems |-> Reverse(ps[n].data[t])],
            !.lanes = LET kept == SelectSeq(Reverse(@), LAMBDA l : l # None)
                      IN [m \in DOMAIN kept |->
                            [kept[m] EXCEPT !.flowNodeRefs = Reverse(@)]]]],
     definitions |-> [t \in RootDefinitions |-> Reverse(s.definitions[t])],
     linterScores |-> Reverse(s.linterScores)]

BpmnInit == sax = InitialState
BpmnNext == ~sax.refused /\ (Start \/ End)
=============================================================================
