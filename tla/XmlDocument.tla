------------------------------- MODULE XmlDocument -------------------------------
(***************************************************************************)
(* Documents as the parsers of the repository read them: a tree of          *)
(* elements in document order.  The XML tokenizers (Saxy for the engine,    *)
(* fast-xml-parser for the SDK) are external: a document is what they       *)
(* deliver, without namespaces, comments and blank text.                    *)
(*                                                                         *)
(* An element is identified by its position in the document, which also     *)
(* stands for its id attribute and for the text it holds.  `ref' is the     *)
(* one attribute that names another element, `value' says that it carries   *)
(* an attribute that competes with the text of a child.                     *)
(*                                                                         *)
(* A document grows while it is read; the behaviours of a module that reads *)
(* one are therefore all the documents of the grammars.                     *)
(***************************************************************************)
EXTENDS Naturals, Sequences, SequencesExt, FiniteSets

CONSTANT
    Grammars        \* what documents are drawn from, each a record of
                    \* [content: parent tag -> sequence of steps, referring: tags
                    \* with a ref, valued: tags with a value, language, size and depth]

Absent == 0
Root   == 0
None   == <<>>      \* nil in a field that holds a record

\* A step of a content model, as an XML schema's sequence has it: at most `most'
\* elements of these tags, at most `each' of one tag.
One(tags)  == [of |-> tags, most |-> 1, each |-> 1]
Each(tags) == [of |-> tags, most |-> Cardinality(tags), each |-> 1]
Many(tags) == [of |-> tags, most |-> 9, each |-> 9]

ASSUME GrammarsAssumption ==
    \A g \in Grammars : g.size \in Nat /\ g.depth \in Nat /\ g.language \in {"bpmn", "dmn"}

VARIABLES
    grammar,    \* the grammar of this document
    doc,        \* the elements in document order: tag, parent, ref and value
    open        \* positions of the open elements, innermost last

documentVars == <<grammar, doc, open>>

Innermost == IF open = <<>> THEN Root ELSE Last(open)
TagAt(d, i) == IF i = Root THEN "definitions" ELSE d[i].tag
Kids(d, i) == SelectSeq([k \in DOMAIN d |-> k], LAMBDA k : d[k].parent = i)
KidsTagged(d, i, tags) == SelectSeq(Kids(d, i), LAMBDA k : d[k].tag \in tags)

\* k is i or lies below it.
RECURSIVE Inside(_, _, _)
Inside(d, k, i) == k # Root /\ (k = i \/ Inside(d, d[k].parent, i))

\* The first or the last child of that name, or none.
FirstOrNone(s) == IF s = <<>> THEN Absent ELSE Head(s)
LastOrNone(s)  == IF s = <<>> THEN Absent ELSE Last(s)
FirstTagged(d, kids, tag) == FirstOrNone(SelectSeq(kids, LAMBDA k : d[k].tag = tag))
LastTagged(d, kids, tag)  == LastOrNone(SelectSeq(kids, LAMBDA k : d[k].tag = tag))

\* The tags the content model of the innermost element allows next.
Allowed ==
    LET tag == TagAt(doc, Innermost)
        steps == IF tag \in DOMAIN grammar.content THEN grammar.content[tag] ELSE <<>>
        before == Kids(doc, Innermost)
        Count(tags) == Len(SelectSeq(before, LAMBDA k : doc[k].tag \in tags))
    IN UNION {{t \in steps[n].of : /\ Count({t}) < steps[n].each
                                   /\ Count(steps[n].of) < steps[n].most
                                   /\ \A m \in DOMAIN steps : m > n => Count(steps[m].of) = 0} :
                 n \in DOMAIN steps}

\* The elements the document may go on with.  A reference may point forward.
Offered ==
    IF Len(doc) = grammar.size \/ Len(open) = grammar.depth THEN {}
    ELSE UNION {[tag : {t}, parent : {Innermost},
                 ref : IF t \in grammar.referring THEN Absent .. grammar.size ELSE {Absent},
                 value : IF t \in grammar.valued THEN BOOLEAN ELSE {FALSE}] :
                   t \in Allowed}

Resolvable(d) == \A k \in DOMAIN d : d[k].ref \in {Absent} \cup (DOMAIN d \ {k})

DocumentInit == grammar \in Grammars /\ doc = <<>> /\ open = <<>>

Open(e) ==
    /\ doc' = Append(doc, e)
    /\ open' = Append(open, Len(doc) + 1)
    /\ UNCHANGED grammar

Close ==
    /\ open # <<>>
    /\ open' = Front(open)
    /\ UNCHANGED <<grammar, doc>>

\* A finished document, whose references all name an element.
Judged(language) == grammar.language = language /\ open = <<>> /\ Resolvable(doc)

\* The open elements of these tags, outermost first.
OpenAre(tags) == SelectSeq(open, LAMBDA k : doc[k].tag \in tags)
=============================================================================
