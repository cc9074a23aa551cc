----------------------------- MODULE SdkDmnParser -----------------------------
(***************************************************************************)
(* parseDmn of the TypeScript SDK: a recursive walk over the finished tree.  *)
(* A record names its children by their element; what is only a text, or a   *)
(* copy of an element's attributes, is that element's position.  The diagram *)
(* (parseDMNDI), which the engine ignores, is left out.                      *)
(***************************************************************************)
EXTENDS DmnDocument

\* Mutated form of TextContent, a plausible bug.
TextChildOnly(d, k) == KidsTagged(d, k, {"text"})

AllOf(d, i, tags) == KidsTagged(d, i, tags)
FirstOf(d, i, tags) ==      \* findElement
    LET found == KidsTagged(d, i, tags) IN IF found = <<>> THEN <<>> ELSE <<Head(found)>>
LastOf(d, i, tags) ==       \* a field assigned in a loop over the children
    LET found == KidsTagged(d, i, tags) IN IF found = <<>> THEN <<>> ELSE <<Last(found)>>

\* textContent: what the element holds itself, which is only layout when it has
\* child elements.  entryBodyText: its <text> child first.
TextContent(d, k) == IF Kids(d, k) = <<>> THEN <<k>> ELSE <<>>
EntryBodyText(d, k) ==
    LET text == FirstOf(d, k, {"text"}) IN IF text = <<>> THEN TextContent(d, k) ELSE text

\* The text of the first child, the last child or all children of that name.
TextsOf(d, found, Text(_, _)) == FlattenSeq([n \in DOMAIN found |-> Text(d, found[n])])

\* firstExpressionBodyInChildren of the last such branch.
Branch(d, i, tag) ==
    LET found == LastOf(d, i, {tag})
    IN IF found = <<>> THEN <<>> ELSE FirstOf(d, Head(found), Expressions)

\* The first expression names the function, if it is a literal one.
CalledFunction(d, i) ==
    LET found == FirstOf(d, i, Expressions)
    IN IF found = <<>> \/ d[Head(found)].tag # "literalExpression" THEN <<>>
       ELSE FirstOf(d, Head(found), {"text"})

ItemComponents(d, i) == AllOf(d, i, {"itemComponent"})

RECURSIVE Parse(_, _)
ParseAll(d, found) == [n \in DOMAIN found |-> Parse(d, found[n])]
Parsed(d, i, tag) == ParseAll(d, AllOf(d, i, {tag}))
Expression(d, i) == ParseAll(d, LastOf(d, i, Expressions))
InBranch(d, i, tag) == ParseAll(d, Branch(d, i, tag))
First(d, i, tag) == FirstOf(d, i, {tag})
BodyOf(d, i, tag) == TextsOf(d, First(d, i, tag), EntryBodyText)

\* The label of the output is the name of the variable.
ParseDecision(d, i) ==
    [variable |-> First(d, i, "variable"), outputLabel |-> First(d, i, "variable"),
     expression |-> Expression(d, i),
     informationRequirements |-> Parsed(d, i, "informationRequirement"),
     knowledgeRequirements |-> Parsed(d, i, "knowledgeRequirement"),
     authorityRequirements |-> Parsed(d, i, "authorityRequirement")]

ParseDecisionTable(d, i) ==
    [inputs |-> Parsed(d, i, "input"), outputs |-> Parsed(d, i, "output"),
     rules |-> Parsed(d, i, "rule")]

ParseInput(d, i) ==
    [inputExpression |-> BodyOf(d, i, "inputExpression"),
     inputValues |-> BodyOf(d, i, "inputValues")]

ParseOutput(d, i) ==
    [outputValues |-> BodyOf(d, i, "outputValues"),
     defaultOutputValue |-> BodyOf(d, i, "defaultOutputEntry")]

\* A description in an attribute comes before one in an element.
ParseRule(d, i) ==
    [inputEntries |-> Parsed(d, i, "inputEntry"), outputEntries |-> Parsed(d, i, "outputEntry"),
     description |-> IF d[i].value THEN <<i>> ELSE BodyOf(d, i, "description"),
     annotationEntries |-> TextsOf(d, AllOf(d, i, {"annotationEntry"}), EntryBodyText)]

ParseInformationRequirement(d, i) ==
    [requiredDecision |-> First(d, i, "requiredDecision"),
     requiredInput |-> First(d, i, "requiredInput")]

ParseAuthorityRequirement(d, i) ==
    ParseInformationRequirement(d, i)
        @@ [requiredAuthority |-> First(d, i, "requiredAuthority")]

ParseBusinessKnowledgeModel(d, i) ==
    [variable |-> LastOf(d, i, {"variable"}),
     encapsulatedLogic |-> ParseAll(d, LastOf(d, i, {"encapsulatedLogic"})),
     knowledgeRequirements |-> Parsed(d, i, "knowledgeRequirement"),
     authorityRequirements |-> Parsed(d, i, "authorityRequirement")]

ParseFunctionDefinition(d, i) ==
    [body |-> Expression(d, i), formalParameters |-> AllOf(d, i, {"formalParameter"})]

ParseContextEntry(d, i) ==
    [variable |-> LastOf(d, i, {"variable"}), expression |-> Expression(d, i)]

ParseBoxedInvocation(d, i) ==
    [calledFunction |-> CalledFunction(d, i), bindings |-> Parsed(d, i, "binding")]

ParseBinding(d, i) ==
    [parameter |-> LastOf(d, i, {"parameter"}), expression |-> Expression(d, i)]

ParseBoxedList(d, i) == [elements |-> ParseAll(d, AllOf(d, i, Expressions))]

\* A row is a list of its cells.
ParseRelation(d, i) == [columns |-> AllOf(d, i, {"column"}), rows |-> Parsed(d, i, "row")]

ParseBoxedConditional(d, i) ==
    [ifExpression |-> InBranch(d, i, "if"), thenExpression |-> InBranch(d, i, "then"),
     elseExpression |-> InBranch(d, i, "else")]

\* filter, for, every and some: each has the collection and one other branch.
ParseIteration(d, i, field, tag) ==
    [inExpression |-> InBranch(d, i, "in")] @@ (field :> InBranch(d, i, tag))

ParseDecisionService(d, i) ==
    [outputDecisions |-> AllOf(d, i, {"outputDecision"}),
     encapsulatedDecisions |-> AllOf(d, i, {"encapsulatedDecision"}),
     inputDecisions |-> AllOf(d, i, {"inputDecision"}), inputData |-> AllOf(d, i, {"inputData"})]

ParseItemDefinition(d, i) ==
    [itemComponents |-> ParseAll(d, ItemComponents(d, i)),
     typeRef |-> TextsOf(d, LastOf(d, i, {"typeRef"}), TextContent),
     allowedValues |-> TextsOf(d, LastOf(d, i, {"allowedValues"}), TextContent)]

\* parseExpressionBody, and the other elements that are parsed by their name.
FieldsFrom(d, i, tag) ==
    CASE tag = "decision" -> ParseDecision(d, i)
      [] tag = "decisionTable" -> ParseDecisionTable(d, i)
      [] tag = "input" -> ParseInput(d, i)
      [] tag = "output" -> ParseOutput(d, i)
      [] tag = "rule" -> ParseRule(d, i)
      [] tag \in {"inputEntry", "outputEntry"} -> [text |-> EntryBodyText(d, i)]
      [] tag = "literalExpression" -> [text |-> First(d, i, "text")]
      [] tag = "inputData" -> [typeRef |-> First(d, i, "variable")]
      [] tag = "informationRequirement" -> ParseInformationRequirement(d, i)
      [] tag = "authorityRequirement" -> ParseAuthorityRequirement(d, i)
      [] tag = "knowledgeRequirement" -> [requiredKnowledge |-> First(d, i, "requiredKnowledge")]
      [] tag = "knowledgeSource" ->
            [authorityRequirements |-> Parsed(d, i, "authorityRequirement")]
      [] tag = "businessKnowledgeModel" -> ParseBusinessKnowledgeModel(d, i)
      [] tag \in {"functionDefinition", "encapsulatedLogic"} -> ParseFunctionDefinition(d, i)
      [] tag = "context" -> [contextEntries |-> Parsed(d, i, "contextEntry")]
      [] tag = "contextEntry" -> ParseContextEntry(d, i)
      [] tag = "invocation" -> ParseBoxedInvocation(d, i)
      [] tag = "binding" -> ParseBinding(d, i)
      [] tag = "list" -> ParseBoxedList(d, i)
      [] tag = "relation" -> ParseRelation(d, i)
      [] tag = "row" -> [cells |-> ParseAll(d, AllOf(d, i, Expressions))]
      [] tag = "conditional" -> ParseBoxedConditional(d, i)
      [] tag = "filter" -> ParseIteration(d, i, "matchExpression", "match")
      [] tag = "for" -> ParseIteration(d, i, "returnExpression", "return")
      [] tag \in {"every", "some"} -> ParseIteration(d, i, "satisfiesExpression", "satisfies")
      [] tag = "decisionService" -> ParseDecisionService(d, i)
      [] tag \in {"itemDefinition", "itemComponent"} -> ParseItemDefinition(d, i)
      [] OTHER -> <<>>

Parse(d, i) == [id |-> i, fields |-> FieldsFrom(d, i, d[i].tag)]

ParseDefinitions(d) ==
    LET All(tag) == ParseAll(d, AllOf(d, Root, {tag}))
    IN [decisions |-> All("decision"), inputData |-> All("inputData"),
        businessKnowledgeModels |-> All("businessKnowledgeModel"),
        knowledgeSources |-> All("knowledgeSource"),
        itemDefinitions |-> All("itemDefinition"), imports |-> All("import"),
        decisionServices |-> All("decisionService")]
=============================================================================
