------------------------------ MODULE ModelParsers ------------------------------
(***************************************************************************)
(* The parsers of the engine read a document element by element; the SDK's   *)
(* parsers read it when it is closed.  The language of the grammar decides   *)
(* which pair.                                                               *)
(***************************************************************************)
EXTENDS BpmnParsers, DmnParsers

vars == <<grammar, doc, open, sax, dmn>>

\* What a handler remembers of the elements it is in is what is open.
TypeOK ==
    /\ open \in Seq(DOMAIN doc) /\ sax.refused \in BOOLEAN /\ dmn.refused \in BOOLEAN
    /\ IF grammar.language = "bpmn" THEN BpmnTypeOK ELSE DmnTypeOK

Init == DocumentInit /\ BpmnInit /\ DmnInit
Next ==
    \/ grammar.language = "bpmn" /\ BpmnNext /\ UNCHANGED dmn
    \/ grammar.language = "dmn" /\ DmnNext /\ UNCHANGED sax
Spec == Init /\ [][Next]_vars
=============================================================================
