------------------------------ MODULE MCModelParsers ------------------------------
EXTENDS ModelParsers

Bpmn(content, referring, size, depth) ==
    [language |-> "bpmn", content |-> content, referring |-> referring, valued |-> {},
     size |-> size, depth |-> depth]

\* Nested scopes with flows and defaults.
Flows == <<Many({"subProcess", "exclusiveGateway", "sequenceFlow"})>>
FlowGrammar ==
    Bpmn([definitions |-> <<Many({"process"})>>, process |-> Flows, subProcess |-> Flows],
         {"subProcess", "exclusiveGateway"}, 6, 4)

\* Nested scopes with boundary events and compensation.
AttachGrammar ==
    Bpmn([definitions |-> <<One({"process"})>>,
          process |-> <<Many({"subProcess", "boundaryEvent"}), Many({"association"})>>,
          subProcess |-> <<Many({"userTask", "boundaryEvent"}), Many({"association"})>>,
          boundaryEvent |-> <<One({"compensateEventDefinition"})>>],
         {"boundaryEvent", "association"}, 6, 4)

\* References, data and documentation on both sides of a nested scope.
DataGrammar ==
    Bpmn([definitions |-> <<One({"process"})>>,
          process |-> <<Many({"subProcess", "dataObject"})>>,
          subProcess |-> <<One({"documentation"}), Many({"incoming"}), Many({"outgoing"}),
                           Many({"subProcess", "userTask", "dataObject",
                                 "dataStoreReference"})>>,
          userTask |-> <<One({"documentation"}), Many({"outgoing"}),
                         Many({"dataInputAssociation"}), Many({"dataOutputAssociation"})>>,
          dataObject |-> <<One({"documentation"})>>],
         {}, 6, 5)

LaneGrammar ==
    Bpmn([definitions |-> <<One({"process"})>>, process |-> <<One({"laneSet"})>>,
          laneSet |-> <<Many({"lane"})>>,
          lane |-> <<Many({"flowNodeRef"}), One({"childLaneSet"})>>,
          childLaneSet |-> <<Many({"lane"})>>],
         {}, 8, 7)

\* Every node type with every text below its extensions or itself, and a business
\* rule task with and without the attribute.
OwnTexts == {"script", "activationCondition", "completionCondition"}
Mappings == {"inputMapping", "outputMapping"}
TypeGrammar ==
    [Bpmn([tag \in FlowNodeElements |->
              <<One({"extensionElements"}), Each({t \in OwnTexts : tag \in TypesWith[t]})>>]
          @@ [definitions |-> <<Many({"process"})>>, process |-> <<Many(FlowNodeElements)>>,
              extensionElements |-> <<Each(DOMAIN TypesWith \ OwnTexts), Many(Mappings)>>],
          {}, 4, 4) EXCEPT !.valued = {"businessRuleTask"}]

\* Several texts and mappings, and a node inside a subprocess that has some too.
MixedGrammar ==
    Bpmn([definitions |-> <<One({"process"})>>,
          process |-> <<Many({"adHocSubProcess", "businessRuleTask"})>>,
          adHocSubProcess |-> <<One({"extensionElements"}), Many({"businessRuleTask"}),
                                One({"completionCondition"})>>,
          businessRuleTask |-> <<One({"extensionElements"}), One({"script"})>>,
          extensionElements |-> <<Each({"resultContract", "payloadContract",
                                        "activeElements"}), Many(Mappings)>>],
         {}, 6, 5)

\* Every event with every definition and its texts.
EventGrammar ==
    Bpmn([tag \in Events |-> <<One(EventDefinitions)>>]
         @@ [definitions |-> <<One({"process"})>>,
             process |-> <<Many(Events \cup {"sendTask"})>>,
             sendTask |-> <<One({"extensionElements"})>>,
             timerEventDefinition |-> <<Each({"timeDate", "timeDuration", "timeCycle"})>>,
             conditionalEventDefinition |-> <<One({"condition"})>>,
             messageEventDefinition |-> <<One({"extensionElements"})>>,
             errorEventDefinition |-> <<One({"extensionElements"})>>,
             extensionElements |-> <<Each({"errorCode", "errorMessage",
                                           "correlationRetrievalExpression"})>>],
         {}, 5, 5)

\* Loops of a task and of an ad hoc subprocess with a condition of its own.
LoopGrammar ==
    LET loops == One({"multiInstanceLoopCharacteristics", "standardLoopCharacteristics"}) IN
    Bpmn([definitions |-> <<One({"process"})>>,
          process |-> <<Many({"userTask", "adHocSubProcess"})>>,
          userTask |-> <<loops>>,
          adHocSubProcess |-> <<loops, Many({"userTask"}), One({"completionCondition"})>>,
          multiInstanceLoopCharacteristics |->
              <<One({"extensionElements"}),
                Each({"loopCardinality", "loopDataInput", "inputDataItem",
                      "completionCondition"})>>,
          standardLoopCharacteristics |-> <<Each({"extensionElements", "loopCondition"})>>,
          extensionElements |-> <<Each({"inputCollection", "elementVariable", "maxIterations",
                                        "loopBreakCondition", "loopInterval"})>>],
         {}, 6, 5)

\* What a loop of several instances takes and gives.
LoopOutputGrammar ==
    LET own == {"loopDataOutput", "outputDataItem", "inputDataItem"} IN
    Bpmn([definitions |-> <<One({"process"})>>, process |-> <<One({"userTask"})>>,
          userTask |-> <<One({"multiInstanceLoopCharacteristics"})>>,
          multiInstanceLoopCharacteristics |-> <<Each({"extensionElements"} \cup own)>>,
          extensionElements |-> <<Each({"outputCollection", "outputElementVariable"})>>],
         {}, 8, 5)

\* The level of the definitions, and what the process itself carries.
TopGrammar ==
    Bpmn([definitions |-> <<One({"extensionElements"}),
                            Many(RootDefinitions \cup {"process"})>>,
          process |-> <<One({"extensionElements"}), Many({"task"})>>,
          task |-> <<One({"documentation"})>>,
          extensionElements |-> <<Each({"version", "correlationKey", "properties"}),
                                  Many({"linterRulesetScore"})>>,
          properties |-> <<Many({"linterRulesetScore"})>>],
         {}, 5, 4)

Dmn(content, size, depth) ==
    [language |-> "dmn", content |-> content, referring |-> {}, valued |-> {},
     size |-> size, depth |-> depth]

\* Expressions in one another: what a decision holds, and each of the boxed kinds.
Nested == {"context", "list", "functionDefinition", "literalExpression"}
ContextGrammar ==
    Dmn([definitions |-> <<One({"decision"})>>, decision |-> <<One(Nested)>>,
         context |-> <<Many({"contextEntry"})>>,
         contextEntry |-> <<One({"variable"}), One(Nested)>>, list |-> <<Many(Nested)>>,
         functionDefinition |-> <<Many({"formalParameter"}), One(Nested)>>],
        7, 7)

Called == {"invocation", "relation", "literalExpression"}
InvocationGrammar ==
    Dmn([definitions |-> <<One({"decision"})>>, decision |-> <<One(Called)>>,
         invocation |-> <<One({"literalExpression", "functionDefinition", "list"}),
                          Many({"binding"})>>,
         binding |-> <<One({"parameter"}), One(Called)>>,
         functionDefinition |-> <<One({"literalExpression"})>>,
         list |-> <<Many({"literalExpression"})>>, literalExpression |-> <<One({"text"})>>,
         relation |-> <<Many({"column"}), Many({"row"})>>, row |-> <<Many(Called)>>],
        7, 7)

Branched == {"conditional", "filter", "for", "every", "some", "literalExpression"}
BranchGrammar ==
    Dmn([tag \in Branches |-> <<One(Branched)>>]
        @@ [definitions |-> <<One({"decision"})>>, decision |-> <<One(Branched)>>,
            conditional |-> <<Each({"if", "then", "else"})>>,
            filter |-> <<Each({"in", "match"})>>, for |-> <<Each({"in", "return"})>>,
            every |-> <<Each({"in", "satisfies"})>>, some |-> <<Each({"in", "satisfies"})>>],
        6, 6)

\* A function as logic and inside its body, and a table in every place.
TableGrammar ==
    Dmn([definitions |-> <<One({"decision", "businessKnowledgeModel"})>>,
         decision |-> <<One({"decisionTable", "list"})>>, list |-> <<Many({"decisionTable"})>>,
         businessKnowledgeModel |-> <<One({"encapsulatedLogic"})>>,
         encapsulatedLogic |-> <<Many({"formalParameter"}),
                                 One({"decisionTable", "functionDefinition"})>>,
         functionDefinition |-> <<Many({"formalParameter"}), One({"decisionTable"})>>,
         decisionTable |-> <<Many({"input"}), Many({"output"}), Many({"rule"})>>,
         input |-> <<One({"inputExpression"}), One({"inputValues"})>>,
         output |-> <<Each({"outputValues", "defaultOutputEntry"})>>,
         rule |-> <<One({"description"}), Many({"inputEntry"}), Many({"outputEntry"}),
                    Many({"annotationEntry"})>>,
         inputExpression |-> <<One({"text"})>>, outputValues |-> <<One({"text"})>>,
         inputEntry |-> <<One({"text"})>>, annotationEntry |-> <<One({"text"})>>],
        6, 6)

\* Labels and descriptions as an attribute, as an element, and as both.
LabelGrammar ==
    [Dmn([definitions |-> <<Many({"decision"})>>,
          decision |-> <<One({"variable"}), One({"decisionTable"})>>,
          decisionTable |-> <<Many({"rule"})>>,
          rule |-> <<One({"description"}), Many({"inputEntry"})>>],
         5, 4) EXCEPT !.valued = {"decision", "rule"}]

\* What the definitions hold beside expressions.
RequirementGrammar ==
    LET required == Many({"knowledgeRequirement", "authorityRequirement"}) IN
    Dmn([definitions |-> <<Many({"decision", "businessKnowledgeModel", "knowledgeSource",
                                 "inputData", "decisionService", "import"})>>,
         decision |-> <<One({"variable"}), Many({"informationRequirement"}), required>>,
         businessKnowledgeModel |-> <<One({"variable"}), required>>,
         knowledgeSource |-> <<Many({"authorityRequirement"})>>,
         inputData |-> <<One({"variable"})>>,
         decisionService |-> <<Many({"outputDecision"}), Many({"encapsulatedDecision"}),
                               Many({"inputDecision"}), Many({"inputData"})>>,
         informationRequirement |-> <<One({"requiredDecision", "requiredInput"})>>,
         knowledgeRequirement |-> <<One({"requiredKnowledge"})>>,
         authorityRequirement |-> <<One({"requiredDecision", "requiredInput",
                                         "requiredAuthority"})>>],
        5, 3)

ItemGrammar ==
    LET item == <<One({"typeRef", "itemComponent"}), One({"allowedValues"}),
                  Many({"itemComponent"})>> IN
    Dmn([definitions |-> <<Many({"itemDefinition"})>>, itemDefinition |-> item,
         itemComponent |-> item, allowedValues |-> <<One({"text"})>>],
        7, 5)

DmnGrammars == {ContextGrammar, InvocationGrammar, BranchGrammar, TableGrammar,
                LabelGrammar, RequirementGrammar, ItemGrammar}
BpmnGrammars == {FlowGrammar, AttachGrammar, DataGrammar, LaneGrammar, TypeGrammar,
                 MixedGrammar, EventGrammar, LoopGrammar, LoopOutputGrammar, TopGrammar}
ModelGrammars == BpmnGrammars \cup DmnGrammars
=============================================================================
