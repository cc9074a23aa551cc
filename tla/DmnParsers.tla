------------------------------- MODULE DmnParsers -------------------------------
(***************************************************************************)
(* The SDK promises the model the engine's parser builds (parseDmn: "the     *)
(* same typed model as the engine's internal parser").  Every closed         *)
(* document is read by both; the properties compare the two.                 *)
(***************************************************************************)
EXTENDS EngineDmnParser

SdkDmn == INSTANCE SdkDmnParser

Tag(k) == doc[k].tag
ParentTag(k) == TagAt(doc, doc[k].parent)

\* The handler opens a function only as the expression of a decision or of a
\* context entry and as the logic of a knowledge model; anywhere else it does not
\* see the element, only what is in it.
OpensFunction(k) ==
    \/ Tag(k) = "encapsulatedLogic"
    \/ Tag(k) = "functionDefinition" /\ ParentTag(k) \in {"decision", "contextEntry"}
Unseen(k) == Tag(k) = "functionDefinition" /\ ~OpensFunction(k)

\* The element the handler takes for the parent of what is in i.
RECURSIVE SeenParent(_, _)
SeenParent(d, i) == IF i # Root /\ Unseen(i) THEN SeenParent(d, d[i].parent) ELSE i

\* Four kinds of records are kept in one field without a stack: the inner one
\* overwrites the outer, which is then missing when the next part arrives.
Overwrites(k, i) ==
    \/ Tag(k) = Tag(i) /\ Tag(k) \in {"binding", "row", "itemComponent"}
    \/ OpensFunction(k) /\ OpensFunction(i)
Overwritten ==
    \E k, i \in DOMAIN doc : k # i /\ Inside(doc, k, i) /\ Overwrites(k, i)

\* Unless a record was overwritten, the stack holds the open elements that were
\* pushed, innermost first, and the open records of a kind with a stack are its
\* current one and the saved ones.  An unseen function that ends directly in
\* another function closes that one.
Pushed(k) ==
    /\ Tag(k) \notin {"variable", "formalParameter", "parameter", "column",
                      "requiredDecision", "requiredInput", "requiredAuthority",
                      "requiredKnowledge"}
    /\ ~Unseen(k)
ClosedEarly(k) ==
    \E n \in DOMAIN doc \ ToSet(open) :
        /\ Tag(n) = "functionDefinition" /\ Tag(k) = Tag(n) /\ n # k
        /\ SeenParent(doc, doc[n].parent) = k
DmnTypeOK ==
    ~dmn.refused /\ ~Overwritten =>
        /\ dmn.stack = Reverse(SelectSeq(open, LAMBDA k : Pushed(k) /\ ~ClosedEarly(k)))
                          \o <<Root>>
        /\ \A kind \in BoxedExpressions \cup {"contextEntry"} :
              LET records == (IF dmn.current[kind] = None THEN <<>> ELSE <<dmn.current[kind]>>)
                                \o dmn.saved[kind]
              IN [n \in DOMAIN records |-> records[n].id] = Reverse(OpenAre({kind}))

\* The engine refuses exactly the documents in which a binding, a row, a function
\* or an item component lies in another one, although its comment promises
\* "arbitrary nesting" of the boxed expressions (sax_handler.ex:6).
RefusesOverwritten ==
    /\ dmn.refused => Overwritten
    /\ Judged("dmn") /\ Overwritten => dmn.refused

-----------------------------------------------------------------------------
\* The document as the handler sees it: what is in an unseen function belongs to
\* the element around it, and the description in an element replaces the one in an
\* attribute (sax_handler.ex:825), which the SDK has first (parser.ts:414).
Replaced(d, k) == d[k].tag = "rule" /\ KidsTagged(d, k, {"description"}) # <<>>
AsSeen(d) ==
    [k \in DOMAIN d |-> [d[k] EXCEPT !.parent = IF Unseen(k) THEN k ELSE SeenParent(d, @),
                                     !.value = @ /\ ~Replaced(d, k)]]

DmnEngine == DmnFinalize(dmn)
DmnModel  == SdkDmn!ParseDefinitions(AsSeen(doc))
DmnJudged == Judged("dmn") /\ ~dmn.refused

\* The label of a decision is its attribute for the engine (sax_handler.ex:223) and
\* the name of its variable for the SDK (parser.ts:209): they agree on none that has
\* either.
WithLabel(decision) ==
    [decision EXCEPT !.fields.outputLabel =
        IF doc[decision.id].value THEN <<decision.id>> ELSE <<>>]

\* Otherwise both read the same decisions, knowledge models and sources, input
\* data, services and imports: every expression in the same place and the same
\* order at any depth, whatever was open around it, and every requirement at the
\* element that has it.
SameDecisions ==
    DmnJudged =>
        LET engine == DmnEngine
            model == DmnModel
        IN  /\ engine.decisions = [n \in DOMAIN model.decisions |-> WithLabel(model.decisions[n])]
            /\ \A f \in FieldsOf.definitions \ {"decisions", "itemDefinitions"} :
                  engine[f] = model[f]

\* Both read the same item definitions, but for allowed values in a <text> child,
\* as the DMN standard has them: the SDK takes only the text of the element itself.
RECURSIVE WithAllowedText(_)
WithAllowedText(item) ==
    LET values == KidsTagged(doc, item.id, {"allowedValues"})
        components == item.fields.itemComponents
    IN [item EXCEPT
          !.fields.allowedValues =
             IF values = <<>> \/ KidsTagged(doc, Last(values), {"text"}) = <<>> THEN @
             ELSE KidsTagged(doc, Last(values), {"text"}),
          !.fields.itemComponents = [n \in DOMAIN components |-> WithAllowedText(components[n])]]
SameItems ==
    DmnJudged =>
        LET items == DmnModel.itemDefinitions
        IN DmnEngine.itemDefinitions = [n \in DOMAIN items |-> WithAllowedText(items[n])]
=============================================================================
