------------------------------ MODULE DmnDocument ------------------------------
(***************************************************************************)
(* The elements of DMN documents and the records both parsers make of them:  *)
(* the interfaces of the SDK's model, the structs of BfwEngine.DMN.Model.    *)
(*                                                                         *)
(* A record is [id, fields]; `id' is the element it was made from, and a     *)
(* field is the sequence of what it holds, of length one at most where the   *)
(* model has a single value.  Attributes that are only copied are left out;  *)
(* the `value' of an element is one that competes with a child.              *)
(***************************************************************************)
EXTENDS XmlDocument

BoxedExpressions == {"context", "invocation", "list", "relation", "conditional", "filter",
                     "for", "every", "some"}
Expressions == BoxedExpressions \cup {"decisionTable", "literalExpression",
                                      "functionDefinition"}

\* The boxed expressions and their parts.
BoxedFieldsOf ==
    [functionDefinition |-> {"formalParameters", "body"},
     encapsulatedLogic |-> {"formalParameters", "body"},
     context |-> {"contextEntries"}, contextEntry |-> {"variable", "expression"},
     invocation |-> {"calledFunction", "bindings"}, binding |-> {"parameter", "expression"},
     list |-> {"elements"}, relation |-> {"columns", "rows"}, row |-> {"cells"},
     conditional |-> {"ifExpression", "thenExpression", "elseExpression"},
     filter |-> {"inExpression", "matchExpression"},
     for |-> {"inExpression", "returnExpression"},
     every |-> {"inExpression", "satisfiesExpression"},
     some |-> {"inExpression", "satisfiesExpression"}]

ServiceFieldsOf ==
    [decisionService |-> {"outputDecisions", "encapsulatedDecisions", "inputDecisions",
                          "inputData"},
     knowledgeRequirement |-> {"requiredKnowledge"},
     knowledgeSource |-> {"authorityRequirements"},
     authorityRequirement |-> {"requiredAuthority", "requiredDecision", "requiredInput"},
     itemDefinition |-> {"typeRef", "allowedValues", "itemComponents"},
     itemComponent |-> {"typeRef", "allowedValues", "itemComponents"}]

DecisionFieldsOf ==
    [definitions |-> {"decisions", "inputData", "businessKnowledgeModels", "knowledgeSources",
                      "itemDefinitions", "imports", "decisionServices"},
     decision |-> {"outputLabel", "variable", "expression", "informationRequirements",
                   "knowledgeRequirements", "authorityRequirements"},
     businessKnowledgeModel |-> {"variable", "encapsulatedLogic", "knowledgeRequirements",
                                 "authorityRequirements"},
     inputData |-> {"typeRef"},
     informationRequirement |-> {"requiredDecision", "requiredInput"},
     decisionTable |-> {"inputs", "outputs", "rules"},
     input |-> {"inputExpression", "inputValues"},
     output |-> {"outputValues", "defaultOutputValue"},
     rule |-> {"description", "inputEntries", "outputEntries", "annotationEntries"},
     inputEntry |-> {"text"}, outputEntry |-> {"text"}, literalExpression |-> {"text"}]

FieldsOf == DecisionFieldsOf @@ ServiceFieldsOf @@ BoxedFieldsOf

NewRecord(tag, i) ==
    [id |-> i,
     fields |-> [f \in IF tag \in DOMAIN FieldsOf THEN FieldsOf[tag] ELSE {} |-> <<>>]]

\* The field that holds the `value' of an element: its outputLabel or description.
ValueField(tag) == IF tag = "decision" THEN "outputLabel" ELSE "description"
=============================================================================
