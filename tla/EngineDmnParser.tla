---------------------------- MODULE EngineDmnParser ----------------------------
(***************************************************************************)
(* BfwEngine.DMN.Parser.SaxHandler and its BoxedExpressions, the engine's    *)
(* parser: a state machine over the start and end events of the elements.    *)
(* For every kind of record one field holds the record that is open, and for *)
(* some kinds a stack holds those around it.  Most start clauses are guarded *)
(* by the top of the stack of open elements; an element without a matching   *)
(* clause is ignored and not pushed, but its end event may still find one.   *)
(*                                                                         *)
(* A pattern that does not match raises, and Parser.parse refuses the        *)
(* document: `refused'.                                                      *)
(***************************************************************************)
EXTENDS DmnDocument

VARIABLE dmn        \* the state map of the handler

\* The kinds of records that are open one at a time, the record's fields
\* prepended to and reversed at the end, and the kinds with a stack.
KindOf(tag) == CASE tag = "encapsulatedLogic" -> "functionDefinition"
                 [] tag = "itemComponent" -> "itemDefinition"
                 [] OTHER -> tag
RecordTags == DOMAIN FieldsOf \ {"definitions", "inputData", "inputEntry", "outputEntry"}
RecordKinds == {KindOf(tag) : tag \in RecordTags}
Stacked == (BoxedExpressions \cup {"contextEntry", "itemDefinition"})
ReversedAtEnd ==
    [k \in RecordKinds |->
        CASE k = "decisionTable" -> {"inputs", "outputs", "rules"}
          [] k = "rule" -> {"inputEntries", "outputEntries", "annotationEntries"}
          [] k = "functionDefinition" -> {"formalParameters"}
          [] k = "list" -> {"elements"}
          [] k = "row" -> {"cells"}
          [] k \in {"decision", "businessKnowledgeModel", "knowledgeSource"} ->
               {"informationRequirements", "knowledgeRequirements", "authorityRequirements"}
          [] k = "decisionService" -> FieldsOf.decisionService
          [] k = "itemDefinition" -> {"itemComponents"}
          [] OTHER -> {}]

DmnInitialState ==
    [stack |-> <<Root>>, current |-> [k \in RecordKinds |-> None],
     saved |-> [k \in Stacked |-> <<>>],
     model |-> [f \in FieldsOf.definitions |-> <<>>], text |-> Absent, refused |-> FALSE]

\* Mutated forms of operators below, each a plausible bug.
CellsPrepended(record, kind) ==
    [record EXCEPT !.fields = [f \in DOMAIN @ |-> IF f \in ReversedAtEnd[kind] \ {"cells"}
                                                  THEN Reverse(@[f]) ELSE @[f]]]
RestoredToNone(s, kind) == [s EXCEPT !.current[kind] = None]

-----------------------------------------------------------------------------
\* The atom on the stack; a service's reference to input data has one of its own.
StackTag(i) == IF TagAt(doc, i) = "inputData" /\ doc[i].parent # Root THEN "serviceInputData"
               ELSE TagAt(doc, i)
Top(s) == IF s.stack = <<>> THEN "nothing" ELSE StackTag(Head(s.stack))
Push(s, i) == [s EXCEPT !.stack = <<i>> \o @]
Pop(s) == IF s.stack = <<>> THEN [s EXCEPT !.refused = TRUE] ELSE [s EXCEPT !.stack = Tail(@)]

\* %{record | field: ...}, which raises on nil.
Update(s, kind, field, New(_)) ==
    IF s.current[kind] = None THEN [s EXCEPT !.refused = TRUE]
    ELSE [s EXCEPT !.current[kind].fields[field] = New(@)]
SetIn(s, kind, field, value) == Update(s, kind, field, LAMBDA old : value)
PrependIn(s, kind, field, x) == Update(s, kind, field, LAMBDA old : <<x>> \o old)
AppendIn(s, kind, field, x) == Update(s, kind, field, LAMBDA old : Append(old, x))

\* push_* and pop_*: a kind without a stack forgets the record around it.
Saved(s, kind) ==
    IF kind \in Stacked /\ s.current[kind] # None
    THEN [s EXCEPT !.saved[kind] = <<s.current[kind]>> \o @] ELSE s
Restored(s, kind) ==
    IF kind \in Stacked /\ s.saved[kind] # <<>>
    THEN [s EXCEPT !.current[kind] = Head(s.saved[kind]), !.saved[kind] = Tail(@)]
    ELSE [s EXCEPT !.current[kind] = None]

\* finalize_*: what was prepended goes back into document order.
InOrder(record, kind) ==
    [record EXCEPT !.fields = [f \in DOMAIN @ |-> IF f \in ReversedAtEnd[kind]
                                                  THEN Reverse(@[f]) ELSE @[f]]]
Ended(s, kind) == InOrder(s.current[kind], kind)

-----------------------------------------------------------------------------
(* attach_completed_expression: the innermost open element that can hold an *)
(* expression decides which open record takes it.                          *)

Branches == {"if", "then", "else", "in", "match", "return", "satisfies"}
BranchField(tag) ==
    CASE tag = "if" -> "ifExpression" [] tag = "then" -> "thenExpression"
      [] tag = "else" -> "elseExpression" [] tag = "in" -> "inExpression"
      [] tag = "match" -> "matchExpression" [] tag = "return" -> "returnExpression"
      [] tag = "satisfies" -> "satisfiesExpression"
ExpressionParents ==
    {"decision", "encapsulatedLogic", "functionDefinition", "contextEntry", "binding",
     "invocation", "list", "row"} \cup Branches

\* A row that is not open takes the expression into an improper list, and
\* raises when it ends.
AttachTo(s, i, x) ==
    LET tag == TagAt(doc, i) IN
    CASE tag = "list" -> PrependIn(s, "list", "elements", x)
      [] tag = "row" -> PrependIn(s, "row", "cells", x)
      [] tag = "invocation" ->
           Update(s, "invocation", "calledFunction",
                  LAMBDA old : IF old # <<>> \/ TagAt(doc, x.id) # "literalExpression"
                               THEN old ELSE x.fields["text"])
      [] tag \in {"encapsulatedLogic", "functionDefinition"} ->
           SetIn(s, "functionDefinition", "body", <<x>>)
      [] tag \in {"decision", "contextEntry", "binding"} ->
           SetIn(s, tag, "expression", <<x>>)
      [] OTHER -> SetIn(s, TagAt(doc, doc[i].parent), BranchField(tag), <<x>>)

Attach(s, x) ==
    LET parents == SelectSeq(s.stack, LAMBDA i : TagAt(doc, i) \in ExpressionParents)
    IN IF parents = <<>> THEN s ELSE AttachTo(s, Head(parents), x)

-----------------------------------------------------------------------------
(* Start events.  Every one clears the text buffer.                        *)

StartsUnder(tag) ==
    CASE tag \in {"input", "output", "rule"} -> {"decisionTable"}
      [] tag \in {"inputExpression", "inputValues"} -> {"input"}
      [] tag \in {"outputValues", "defaultOutputEntry"} -> {"output"}
      [] tag \in {"inputEntry", "outputEntry", "description", "annotationEntry"} -> {"rule"}
      [] tag \in BoxedExpressions \cup {"literalExpression"} -> ExpressionParents
      [] tag = "functionDefinition" -> {"decision", "contextEntry"}
      [] tag = "encapsulatedLogic" -> {"businessKnowledgeModel"}
      [] tag = "contextEntry" -> {"context"}
      [] tag = "binding" -> {"invocation"}
      [] tag = "row" -> {"relation"}
      [] tag \in {"if", "then", "else"} -> {"conditional"}
      [] tag = "in" -> {"filter", "for", "every", "some"}
      [] tag = "match" -> {"filter"}
      [] tag = "return" -> {"for"}
      [] tag = "satisfies" -> {"every", "some"}
      [] tag = "informationRequirement" -> {"decision"}
      [] tag = "knowledgeRequirement" -> {"decision", "businessKnowledgeModel"}
      [] tag = "authorityRequirement" ->
           {"decision", "businessKnowledgeModel", "knowledgeSource"}
      [] tag \in {"outputDecision", "encapsulatedDecision", "inputDecision"} ->
           {"decisionService"}
      [] tag = "itemComponent" -> {"itemDefinition"}
      [] tag \in {"typeRef", "allowedValues"} -> {"itemDefinition", "itemComponent"}
      [] tag = "variable" -> {"inputData", "decision", "businessKnowledgeModel", "contextEntry"}
      [] tag = "formalParameter" -> {"encapsulatedLogic", "functionDefinition"}
      [] tag = "parameter" -> {"binding"}
      [] tag = "column" -> {"relation"}
      [] tag \in {"requiredDecision", "requiredInput"} ->
           {"informationRequirement", "authorityRequirement"}
      [] tag = "requiredAuthority" -> {"authorityRequirement"}
      [] tag = "requiredKnowledge" -> {"knowledgeRequirement"}

Anywhere == {"decision", "decisionTable", "businessKnowledgeModel", "knowledgeSource",
             "decisionService", "itemDefinition", "import", "text", "inputData"}
Known(tag) == tag \notin Anywhere => Top(dmn) \in StartsUnder(tag)

Here == Len(doc) + 1
Read(e, next) == Open(e) /\ dmn' = [next EXCEPT !.text = Here]

\* A record opens, with what its attributes say.
Opened(e) ==
    IF e.value THEN [NewRecord(e.tag, Here) EXCEPT !.fields[ValueField(e.tag)] = <<Here>>]
    ELSE NewRecord(e.tag, Here)
StartRecord(e) ==
    /\ e.tag \in RecordTags /\ Known(e.tag)
    /\ LET kind == KindOf(e.tag)
       IN Read(e, Push([Saved(dmn, kind) EXCEPT !.current[kind] = Opened(e)], Here))

\* An element that only says where its text or its expression belongs.
StartPart(e) ==
    /\ e.tag \in Branches \cup {"text", "inputExpression", "inputValues", "outputValues",
                                "defaultOutputEntry", "inputEntry", "outputEntry",
                                "description", "annotationEntry", "typeRef", "allowedValues"}
    /\ Known(e.tag)
    /\ Read(e, Push(dmn, Here))

\* A reference of a decision service.
ServiceField(tag) ==
    CASE tag = "outputDecision" -> "outputDecisions" [] tag = "inputDecision" -> "inputDecisions"
      [] tag = "encapsulatedDecision" -> "encapsulatedDecisions" [] tag = "inputData" -> "inputData"
StartServiceReference(e) ==
    /\ e.tag \in {"outputDecision", "encapsulatedDecision", "inputDecision", "inputData"}
    /\ Top(dmn) = "decisionService"
    /\ Read(e, Push(PrependIn(dmn, "decisionService", ServiceField(e.tag), Here), Here))

\* Input data and imports are complete when they open.
StartListed(e) ==
    /\ \/ e.tag = "inputData" /\ Top(dmn) # "decisionService"
       \/ e.tag = "import"
    /\ LET list == IF e.tag = "import" THEN "imports" ELSE "inputData"
       IN Read(e, Push([dmn EXCEPT !.model[list] = <<NewRecord(e.tag, Here)>> \o @], Here))

\* An element that is read entirely from its attributes and not pushed.
StartValue(e) ==
    /\ e.tag \in {"variable", "formalParameter", "parameter", "column", "requiredDecision",
                  "requiredInput", "requiredAuthority", "requiredKnowledge"}
    /\ Known(e.tag)
    /\ Read(e, CASE Top(dmn) = "inputData" ->
                      [dmn EXCEPT !.model["inputData"][1].fields["typeRef"] = <<Here>>]
                 [] e.tag = "formalParameter" ->
                      PrependIn(dmn, "functionDefinition", "formalParameters", Here)
                 [] e.tag = "column" -> AppendIn(dmn, "relation", "columns", Here)
                 [] OTHER -> SetIn(dmn, Top(dmn), e.tag, <<Here>>))

StartUnknown(e) == ~Known(e.tag) /\ Read(e, dmn)

DmnStart ==
    \E e \in Offered :
        \/ StartRecord(e) \/ StartPart(e) \/ StartServiceReference(e) \/ StartListed(e)
        \/ StartValue(e) \/ StartUnknown(e)

-----------------------------------------------------------------------------
(* End events.  The guarded clauses look at the top of the stack; the       *)
(* others run whatever is on it.                                           *)

DmnEnding(tags) == open # <<>> /\ TagAt(doc, Innermost) \in tags
EndedTag == TagAt(doc, Innermost)
Finished(next) == Close /\ dmn' = next

GuardedEnds == BoxedExpressions \cup Branches
               \cup {"functionDefinition", "row", "description", "annotationEntry", "typeRef",
                     "allowedValues"}
Matched == (EndedTag \in GuardedEnds) => (Top(dmn) = EndedTag)

\* A table or a literal expression is attached before it is popped, the others
\* after: a list or an invocation could otherwise take itself.
EndExpression ==
    /\ DmnEnding(Expressions) /\ Matched
    /\ LET done == Ended(dmn, EndedTag)
           s == Restored(dmn, EndedTag)
       IN Finished(IF EndedTag \in {"decisionTable", "literalExpression"}
                   THEN Pop(Attach(s, done)) ELSE Attach(Pop(s), done))

\* A part of an expression joins the expression that is open.
EndExpressionPart ==
    /\ DmnEnding({"input", "output", "rule", "contextEntry", "binding", "row"}) /\ Matched
    /\ IF dmn.current[EndedTag] = None THEN Finished([dmn EXCEPT !.refused = TRUE]) ELSE
       LET done == Ended(dmn, EndedTag)
           s == Restored(dmn, EndedTag)
       IN Finished(Pop(CASE EndedTag = "input" -> PrependIn(s, "decisionTable", "inputs", done)
                         [] EndedTag = "output" -> PrependIn(s, "decisionTable", "outputs", done)
                         [] EndedTag = "rule" -> PrependIn(s, "decisionTable", "rules", done)
                         [] EndedTag = "contextEntry" ->
                              AppendIn(s, "context", "contextEntries", done)
                         [] EndedTag = "binding" -> AppendIn(s, "invocation", "bindings", done)
                         [] EndedTag = "row" -> AppendIn(s, "relation", "rows", done)))

\* The element's text is what the buffer holds: its own, or a child's.
Buffered == IF dmn.text = Absent THEN <<>> ELSE <<dmn.text>>
EndTexted ==
    /\ DmnEnding({"inputExpression", "inputValues", "outputValues", "defaultOutputEntry",
                  "description", "annotationEntry", "inputEntry", "outputEntry", "typeRef",
                  "allowedValues"}) /\ Matched
    /\ LET entry == [id |-> Head(dmn.stack), fields |-> [text |-> Buffered]]
           next == CASE EndedTag \in {"inputExpression", "inputValues"} ->
                          SetIn(dmn, "input", EndedTag, Buffered)
                     [] EndedTag = "outputValues" ->
                          SetIn(dmn, "output", "outputValues", Buffered)
                     [] EndedTag = "defaultOutputEntry" ->
                          SetIn(dmn, "output", "defaultOutputValue", Buffered)
                     [] EndedTag = "description" -> SetIn(dmn, "rule", "description", Buffered)
                     [] EndedTag = "annotationEntry" ->
                          PrependIn(dmn, "rule", "annotationEntries", dmn.text)
                     [] EndedTag = "inputEntry" -> PrependIn(dmn, "rule", "inputEntries", entry)
                     [] EndedTag = "outputEntry" -> PrependIn(dmn, "rule", "outputEntries", entry)
                     [] EndedTag \in {"typeRef", "allowedValues"} ->
                          SetIn(dmn, "itemDefinition", EndedTag, Buffered)
       IN Finished([Pop(next) EXCEPT !.text = Absent])

\* Only a literal expression keeps the text as it ends; the others read the
\* buffer when they end themselves.
EndText ==
    /\ DmnEnding({"text"})
    /\ Finished(Pop(IF dmn.current["literalExpression"] = None THEN dmn
                    ELSE SetIn(dmn, "literalExpression", "text", Buffered)))

EndEncapsulatedLogic ==
    /\ DmnEnding({"encapsulatedLogic"})
    /\ IF dmn.current["functionDefinition"] = None
       THEN Finished([dmn EXCEPT !.refused = TRUE])
       ELSE Finished(Pop(Restored(SetIn(dmn, "businessKnowledgeModel", "encapsulatedLogic",
                                        <<Ended(dmn, "functionDefinition")>>),
                                  "functionDefinition")))

\* find_parent_context: the innermost open element that has requirements.
RequirementOwner(s) ==
    LET owners == SelectSeq(Tail(s.stack),
                            LAMBDA i : TagAt(doc, i) \in {"decision", "businessKnowledgeModel",
                                                          "knowledgeSource"})
    IN IF owners = <<>> THEN "nothing" ELSE TagAt(doc, Head(owners))

EndRequirement ==
    /\ DmnEnding({"informationRequirement", "knowledgeRequirement", "authorityRequirement"})
    /\ LET owner == IF EndedTag = "informationRequirement" THEN "decision"
                    ELSE RequirementOwner(dmn)
           field == CASE EndedTag = "informationRequirement" -> "informationRequirements"
                      [] EndedTag = "knowledgeRequirement" -> "knowledgeRequirements"
                      [] EndedTag = "authorityRequirement" -> "authorityRequirements"
           taken == IF owner = "nothing" \/ (owner = "knowledgeSource"
                                             /\ EndedTag = "knowledgeRequirement")
                    THEN dmn ELSE PrependIn(dmn, owner, field, dmn.current[EndedTag])
       IN Finished(Pop(Restored(taken, EndedTag)))

\* The elements of the definitions; what is prepended here is reversed by
\* finalize, which also puts the requirements of decisions into order.
TopList(tag) ==
    CASE tag = "decision" -> "decisions" [] tag = "knowledgeSource" -> "knowledgeSources"
      [] tag = "businessKnowledgeModel" -> "businessKnowledgeModels"
      [] tag = "decisionService" -> "decisionServices"
      [] tag = "itemDefinition" -> "itemDefinitions"
EndTopElement ==
    /\ DmnEnding({"decision", "businessKnowledgeModel", "knowledgeSource", "decisionService"})
    /\ Finished(Pop([Restored(dmn, EndedTag) EXCEPT
                       !.model[TopList(EndedTag)] = <<Ended(dmn, EndedTag)>> \o @]))

\* An item definition inside another becomes its component.
EndItemDefinition ==
    /\ DmnEnding({"itemDefinition"})
    /\ LET done == Ended(dmn, "itemDefinition")
           s == Restored(dmn, "itemDefinition")
       IN Finished(Pop(IF dmn.saved["itemDefinition"] = <<>>
                       THEN [s EXCEPT !.model["itemDefinitions"] = <<done>> \o @]
                       ELSE PrependIn(s, "itemDefinition", "itemComponents", done)))

\* Unguarded: the end of a component that was ignored closes the one around it.
EndItemComponent ==
    /\ DmnEnding({"itemComponent"})
    /\ IF dmn.saved["itemDefinition"] = <<>> THEN Finished([dmn EXCEPT !.refused = TRUE])
       ELSE Finished(Pop(PrependIn(Restored(dmn, "itemDefinition"), "itemDefinition",
                                   "itemComponents", dmn.current["itemDefinition"])))

EndPart ==
    /\ DmnEnding(Branches \cup {"inputData", "import", "outputDecision", "inputDecision",
                                "encapsulatedDecision"}) /\ Matched
    /\ Finished(Pop(dmn))

EndUnknown ==
    /\ DmnEnding(GuardedEnds \cup {"variable", "formalParameter", "parameter", "column",
                                   "requiredDecision", "requiredInput", "requiredAuthority",
                                   "requiredKnowledge"})
    /\ ~(EndedTag \in GuardedEnds /\ Matched)
    /\ Finished(dmn)

DmnEnd == \/ EndExpression \/ EndExpressionPart \/ EndTexted \/ EndText
          \/ EndEncapsulatedLogic \/ EndRequirement \/ EndTopElement \/ EndItemDefinition
          \/ EndItemComponent \/ EndPart \/ EndUnknown

DmnFinalize(s) == [f \in DOMAIN s.model |-> Reverse(s.model[f])]

DmnInit == dmn = DmnInitialState
DmnNext == ~dmn.refused /\ (DmnStart \/ DmnEnd)
=============================================================================
