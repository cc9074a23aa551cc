------------------------------ MODULE BpmnDocument ------------------------------
(***************************************************************************)
(* The elements of BPMN documents.  The `ref' of an element is the `default' *)
(* of a gateway or subprocess, the `attachedToRef' of a boundary event or    *)
(* the `sourceRef' of an association; the `value' is the `implementation' of *)
(* a business rule task.                                                     *)
(***************************************************************************)
EXTENDS XmlDocument

Subprocesses == {"subProcess", "transaction", "adHocSubProcess"}
Gateways     == {"exclusiveGateway", "inclusiveGateway", "parallelGateway",
                 "eventBasedGateway", "complexGateway"}
Events       == {"startEvent", "endEvent", "intermediateCatchEvent",
                 "intermediateThrowEvent", "boundaryEvent"}
Tasks        == {"task", "userTask", "serviceTask", "manualTask", "scriptTask",
                 "businessRuleTask", "sendTask", "receiveTask", "callActivity"}
FlowNodeElements == Subprocesses \cup Gateways \cup Events \cup Tasks

EventDefinitions == {"messageEventDefinition", "signalEventDefinition",
                     "timerEventDefinition", "errorEventDefinition",
                     "escalationEventDefinition", "conditionalEventDefinition",
                     "compensateEventDefinition", "terminateEventDefinition",
                     "cancelEventDefinition", "linkEventDefinition"}
DataItems == {"dataObject", "dataObjectReference", "dataStoreReference"}
RootDefinitions == {"message", "signal", "error", "escalation"}

NoLoop == {<<"none", Absent>>}      \* nil in a field that holds the texts of a loop

\* A reference a modelling tool can write: a boundary event to a sibling
\* activity, a default to a sibling flow, an association to a boundary event.
RefFits(d, k) ==
    LET target == d[d[k].ref] IN
    /\ d[k].tag # "association" => target.parent = d[k].parent
    /\ CASE d[k].tag = "association" -> target.tag = "boundaryEvent"
         [] d[k].tag = "boundaryEvent" -> target.tag \in Subprocesses \cup Tasks
         [] OTHER -> target.tag = "sequenceFlow"

\* The offered elements whose references, from and to them, fit.
OfferedFitting ==
    {e \in Offered :
        LET next == Append(doc, e) IN
        \A k \in DOMAIN next :
            next[k].ref \in DOMAIN next \ {k} /\ Len(next) \in {k, next[k].ref}
                => RefFits(next, k)}
=============================================================================
