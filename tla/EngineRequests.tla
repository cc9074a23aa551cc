------------------------------ MODULE EngineRequests ------------------------------
(***************************************************************************)
(* HttpTransport, the REST sub-clients and GraphqlClient of                  *)
(* @elraptorus/bfw_engine_client, used as the graphql-queries example does:  *)
(* one request after the other, and a walk through the pages of a list while *)
(* the engine's rows change.  A request waits for its token, is sent, is     *)
(* answered by the engine (or by something in front of it), and is read by   *)
(* the client.                                                               *)
(***************************************************************************)
EXTENDS RestCalls, Sequences, FiniteSets, SequencesExt

CONSTANTS
    InitialRows,  \* rows of the list when the walk begins
    MaxRows,      \* bound on the rows there ever are
    PageLimit,
    MaxPages      \* the pages the application asks for at most

ASSUME RequestAssumption ==
    /\ {InitialRows, MaxRows} \subseteq Nat /\ InitialRows <= MaxRows
    /\ {PageLimit, MaxPages} \subseteq Nat \ {0}

VARIABLES
    rows,     \* the rows of the engine that match, in the order of the list
    made,     \* how many rows there ever were: rows are numbered
    gone,     \* the rows removed
    request,  \* the request under way: what it asks for, how far it is, its answer
    walk,     \* the loop over the pages
    outcome   \* what the last request came to

requestVars == <<rows, made, gone, request, walk, outcome>>

\* The methods of GraphqlClient: a query by offset or by cursor, a record by its
\* id, the first record of a filtered query, and raw().
Graphql == {"page", "cursor", "record", "first", "raw"}

\* The others go by get/post/put/delete of the transport, by getText or by head.
Kinds == {"call", "text", "probe"} \cup Graphql

NoCall == Asks("get", <<>>, "nothing")
CallsOf(kind) == IF kind = "call" THEN EveryCall ELSE {NoCall}

NoPage == [rows |-> <<>>, count |-> 0, more |-> FALSE]
NoAnswer == [by |-> "nobody", status |-> 0, json |-> FALSE, code |-> "none", page |-> NoPage,
             body |-> "none"]
Idle == [kind |-> "call", call |-> NoCall, phase |-> "idle", answer |-> NoAnswer]
NoOutcome == [is |-> "none", status |-> 0, code |-> "none", page |-> NoPage, body |-> "none"]

RequestTypeOK ==
    /\ rows \in Seq(1..made) /\ made \in InitialRows..MaxRows /\ gone \subseteq 1..made
    /\ request.kind \in Kinds /\ request.call \in CallsOf(request.kind) \cup {NoCall}
    /\ request.phase \in {"idle", "token", "sent", "answered"}
    /\ walk.offset \in Nat /\ walk.seen \in Seq(1..made)
    /\ walk.state \in {"before", "going", "complete", "stopped", "failed"}
    /\ outcome.is \in {"none", "value", "nothing", "null", "page", "error", "fault"}

RequestInit ==
    /\ rows = [i \in 1..InitialRows |-> i] /\ made = InitialRows /\ gone = {}
    /\ request = Idle /\ outcome = NoOutcome
    /\ walk = [state |-> "before", offset |-> 0, pages |-> 0, seen |-> <<>>]

-----------------------------------------------------------------------------
(* The engine's answers                                                    *)

Success(status, page) ==
    [NoAnswer EXCEPT !.by = "success", !.status = status, !.json = TRUE, !.page = page]

\* The action behind the route answers: with no content, or a body of its shape.
\* The two catalogues answer a failed read like an empty list.
Carried(call) ==
    LET As(by, route) == [NoAnswer EXCEPT !.by = by, !.json = route.body # "none",
                                          !.body = route.body,
                                          !.status = IF route.body = "none" THEN 204 ELSE 200]
    IN  {As("success", r) : r \in Serves(call)}
        \cup IF HidesFailedReads(call) THEN {As("failedRead", r) : r \in Serves(call)} ELSE {}

\* What the list query reads: `offset` rows are skipped, the next `limit` are
\* the page, and there is a next page if rows are left.
PageOf(offset) ==
    LET last == IF offset + PageLimit < Len(rows) THEN offset + PageLimit ELSE Len(rows)
    IN  [rows |-> SubSeq(rows, offset + 1, last), count |-> Len(rows), more |-> last < Len(rows)]

\* The row with number 1, as long as it is there.
RecordOne == [NoPage EXCEPT !.rows = SelectSeq(rows, LAMBDA r : r = 1)]

\* A proxy or some other server, that has carried nothing out: a page or an
\* object of its own as JSON, without `data', `errors' or an `error' the client
\* knows, with a status of success or of failure; or no content.
Foreign(status, body) ==
    [NoAnswer EXCEPT !.by = "foreign", !.status = status, !.json = body # "none",
                     !.code = "unknown", !.body = body]

ForeignAnswers ==
    {Foreign(status, body) : status \in {200, 404, 502}, body \in {"none", "foreign"}}
    \cup {Foreign(204, "none")}

RefusalsOf(kind, call) ==
    ErrorJson \cup
    CASE kind = "call" -> (UNION {r.refusals : r \in Serves(call)})
                          \cup IF SkipsAuth(call) THEN {} ELSE AuthRefusals \cup LimitRefusals
      [] kind \in Graphql -> AuthRefusals \cup LimitRefusals
      [] kind \in {"text", "probe"} -> {}

RefusingAnswers(kind, call) ==
    {[NoAnswer EXCEPT !.by = "engine", !.status = r.status, !.json = kind # "probe",
                      !.code = r.code] :
        r \in RefusalsOf(kind, call)}

\* GraphQL answers its errors with 200; only some carry a code.
GraphqlErrors ==
    {[NoAnswer EXCEPT !.by = "graphql", !.status = 200, !.json = TRUE, !.code = c] :
        c \in {"none", "forbidden", "invalid_query", "graphql_depth_limit"}}

\* The `data' of an answer, with the resource that was asked for.
Found(page) == [Success(200, page) EXCEPT !.body = "data"]

\* Every list of the engine is paginated by offset: the schema has no keysets.
GraphqlAnswers(kind, offset) ==
    GraphqlErrors \cup
    CASE kind \in {"page", "raw"} -> {Found(PageOf(offset))}
      [] kind \in {"record", "first"} -> {Found(RecordOne)}
      [] kind = "cursor" -> {}

AnswersTo(kind, call, offset) ==
    {NoAnswer} \cup ForeignAnswers \cup RefusingAnswers(kind, call) \cup
    CASE kind \in Graphql -> GraphqlAnswers(kind, offset)
      [] kind = "probe" -> {Success(204, NoPage)}
      [] kind = "text" -> {Success(200, NoPage)}
      [] kind = "call" -> Carried(call)

-----------------------------------------------------------------------------
(* What the client makes of an answer                                      *)

Fault == [NoOutcome EXCEPT !.is = "fault"]
Value(page) == [NoOutcome EXCEPT !.is = "value", !.page = page]
Error(e) == [NoOutcome EXCEPT !.is = "error", !.status = e.status, !.code = e.code]

Ok(a) == a.status \in 200..299

\* A body that is no JSON is taken for the code `unknown`.
BodyError(a) == Error(MapResponseError(a.status, IF a.json THEN a.code ELSE "unknown"))

HandleResponse(a) ==
    CASE ~Ok(a) -> BodyError(a)
      [] Ok(a) /\ a.status = 204 -> [NoOutcome EXCEPT !.is = "nothing"]
      [] Ok(a) /\ a.status # 204 -> IF a.json THEN [Value(a.page) EXCEPT !.body = a.body] ELSE Fault

Nothing == [NoOutcome EXCEPT !.is = "nothing"]

\* What a method of a sub-client returns of a body it was given; `data' of no
\* body is a TypeError, and of any other body than an envelope undefined.
Promised(call, o) ==
    CASE o.is \in {"error", "fault"} -> o
      [] o.is = "nothing" -> IF call.promise = "data" THEN Fault ELSE o
      [] o.is = "value" /\ call.promise = "nothing" -> Nothing
      [] o.is = "value" /\ call.promise = "body" -> o
      [] o.is = "value" /\ call.promise = "data" ->
            IF o.body = "data" THEN [o EXCEPT !.body = "bare"] ELSE Nothing

GetText(a) ==
    CASE a.status = 404 -> [NoOutcome EXCEPT !.is = "null"]
      [] a.status # 404 -> IF Ok(a) THEN Value(a.page) ELSE BodyError(a)

\* health() expects the status 204.
HeadProbe(a) ==
    IF a.status # 204 THEN Error(MapResponseError(a.status, "unexpected_status"))
    ELSE [NoOutcome EXCEPT !.is = "nothing"]

ThrowOnGraphqlErrors(a) ==
    IF a.code = "none" THEN Fault ELSE Error(MapResponseError(200, a.code))

\* buildPageInfo of the offset mode takes hasNextPage from the engine.
BuildPageInfo(a) == a.page

\* A list of which the answer has no data is an empty page, and the last one.
ExecuteListQuery(a) ==
    [Value(IF a.body = "data" THEN BuildPageInfo(a) ELSE NoPage) EXCEPT !.is = "page"]

ExecuteGetQuery(a) ==
    IF a.body # "data" \/ a.page.rows = <<>> THEN [NoOutcome EXCEPT !.is = "null"]
    ELSE Value(a.page)

\* getProcessModel and getDecisionDefinition: a list of one, filtered by the id.
FirstOfList(a) ==
    LET page == ExecuteListQuery(a).page
    IN  IF page.rows = <<>> THEN [NoOutcome EXCEPT !.is = "null"] ELSE Value(page)

QueryResult(kind, a) ==
    CASE kind \in {"page", "cursor"} -> ExecuteListQuery(a)
      [] kind = "record" -> ExecuteGetQuery(a)
      [] kind = "first" -> FirstOfList(a)
      [] kind = "raw" -> IF a.body = "data" THEN Value(a.page) ELSE Nothing

\* Mutant: the errors of an answer with the status 200 are not looked at.
GraphqlUnchecked(kind, a) ==
    LET o == HandleResponse(a)
    IN  CASE o.is \in {"error", "fault"} -> o
          [] o.is = "nothing" -> Fault
          [] o.is = "value" -> QueryResult(kind, a)

\* To look for the errors of an answer without content is a TypeError.
GraphqlOutcome(kind, a) ==
    LET o == HandleResponse(a)
    IN  CASE o.is \in {"error", "fault"} -> o
          [] o.is = "nothing" -> Fault
          [] o.is = "value" /\ a.by = "graphql" -> ThrowOnGraphqlErrors(a)
          [] o.is = "value" /\ a.by # "graphql" -> QueryResult(kind, a)

\* fetch itself fails when nobody answers.
OutcomeOf(kind, call, a) ==
    CASE a.by = "nobody" -> Fault
      [] a.by # "nobody" /\ kind \in Graphql -> GraphqlOutcome(kind, a)
      [] a.by # "nobody" /\ kind = "call" -> Promised(call, HandleResponse(a))
      [] a.by # "nobody" /\ kind = "text" -> GetText(a)
      [] a.by # "nobody" /\ kind = "probe" -> HeadProbe(a)

-----------------------------------------------------------------------------
(* Actions                                                                 *)

Ask(kind, call) ==
    /\ request.phase = "idle"
    /\ request' = [Idle EXCEPT !.kind = kind, !.call = call, !.phase = "token"]
    /\ outcome' = NoOutcome
    /\ UNCHANGED <<rows, made, gone>>

\* Any other request of the application, before it walks through the pages.
AskOnce(kind) ==
    /\ walk.state = "before" /\ kind # "page"
    /\ \E call \in CallsOf(kind) : Ask(kind, call)
    /\ UNCHANGED walk

\* The token is fetched for every request, but for those that need none.
TokenFails ==
    /\ request.phase = "token" /\ request.kind \notin {"probe", "text"} /\ ~SkipsAuth(request.call)
    /\ request' = Idle /\ outcome' = Fault
    /\ walk' = IF request.kind = "page" THEN [walk EXCEPT !.state = "failed"] ELSE walk
    /\ UNCHANGED <<rows, made, gone>>

Send ==
    /\ request.phase = "token"
    /\ request' = [request EXCEPT !.phase = "sent"]
    /\ UNCHANGED <<rows, made, gone, walk, outcome>>

\* Mutant: the number of the page is sent for the offset.
PageNumber(offset) == offset \div PageLimit

\* buildListQuery leaves out an offset of 0: the engine takes it for 0.
OffsetArgument(offset) == IF offset > 0 THEN offset ELSE 0

Answer ==
    /\ request.phase = "sent"
    /\ \E a \in AnswersTo(request.kind, request.call, OffsetArgument(walk.offset)) :
          request' = [request EXCEPT !.phase = "answered", !.answer = a]
    /\ UNCHANGED <<rows, made, gone, walk, outcome>>

\* The loop of the example goes on while there is a next page, up to a number
\* of pages; whatever is thrown ends it.
NextStep(o) ==
    IF o.is # "page" THEN [walk EXCEPT !.state = "failed"]
    ELSE [state |-> CASE ~o.page.more -> "complete"
                      [] o.page.more -> IF walk.pages + 1 < MaxPages THEN "going" ELSE "stopped",
          offset |-> IF o.page.more THEN walk.offset + PageLimit ELSE walk.offset,
          pages |-> walk.pages + 1,
          seen |-> walk.seen \o o.page.rows]

Receive ==
    /\ request.phase = "answered"
    /\ LET o == OutcomeOf(request.kind, request.call, request.answer)
       IN  /\ outcome' = o
           /\ walk' = IF request.kind = "page" THEN NextStep(o) ELSE walk
    /\ request' = [request EXCEPT !.phase = "idle"]
    /\ UNCHANGED <<rows, made, gone>>

AskForPage ==
    /\ walk.state \in {"before", "going"}
    /\ Ask("page", NoCall)
    /\ walk' = [walk EXCEPT !.state = "going"]

\* The engine goes on while the application walks.
InsertRow(i) ==
    /\ walk.state = "going" /\ made < MaxRows
    /\ made' = made + 1
    /\ rows' = InsertAt(rows, i, made + 1)
    /\ UNCHANGED <<gone, request, walk, outcome>>

RemoveRow(i) ==
    /\ walk.state = "going"
    /\ rows' = RemoveAt(rows, i)
    /\ gone' = gone \cup {rows[i]}
    /\ UNCHANGED <<made, request, walk, outcome>>

RequestNext ==
    \/ \E kind \in Kinds : AskOnce(kind)
    \/ AskForPage \/ TokenFails \/ Send \/ Answer \/ Receive
    \/ \E i \in 1..(Len(rows) + 1) : InsertRow(i)
    \/ \E i \in DOMAIN rows : RemoveRow(i)

-----------------------------------------------------------------------------
(* Properties                                                              *)

Received == request.phase = "idle" /\ outcome # NoOutcome
Refused(a) == a.by # "success"

\* What the client cannot tell from the engine's answer to a request that was
\* carried out.  The two catalogues answer a read that failed with an empty
\* list, so nothing is deployed.  getText takes any 404 for metrics that are
\* switched off and any other text for the metrics, and health() any 204 for an
\* engine that is alive.  An answer of something else with a status of success
\* is taken for the engine's where it is JSON: a list is then an empty page, a
\* record null, and a REST method returns what it was given or, where it wants
\* the `data', undefined.  So is a 204 to a REST method, unless it wants the
\* `data'.
LooksCarriedOut(kind, call, a) ==
    \/ a.by = "failedRead"
    \/ kind = "text" /\ a.status \in {200, 204, 404}
    \/ kind = "probe" /\ a.status = 204
    \/ a.by = "foreign" /\ Ok(a) /\ a.json /\ kind \in Graphql \cup {"call"}
    \/ a.by = "foreign" /\ a.status = 204 /\ kind = "call" /\ call.promise # "data"

\* Nothing that went wrong looks like a result but these, and these do: whatever
\* else is not the answer the engine gives to a request it carried out is
\* thrown, also an error in an answer with the status 200, a success that is no
\* JSON, and an answer without content to a query.
NoFailureLooksLikeAResult ==
    Received /\ Refused(request.answer) =>
        (outcome.is \in {"error", "fault"}
            <=> ~LooksCarriedOut(request.kind, request.call, request.answer))

\* The caller reads from an error the status and the code of the engine's
\* answer, as BfwEngineError documents, except that a class with a code of its
\* own hides the code of the answer, and that four refusals are shown with the
\* status of their class: a start whose payload is too large (422 is shown as
\* 413), an ad-hoc subprocess that completes or is not active (409 is shown as
\* 422), and what the renderer has no code for, like a body that was not read
\* in time (408 is shown as 500).
ErrorsAreTheAnswers ==
    outcome.is = "error" /\ request.answer.by = "engine" /\ request.kind # "probe" =>
        LET a == request.answer
        IN  /\ outcome.code = a.code \/ a.code \in Renamed
            /\ \/ outcome.status = a.status
               \/ a.status = 422 /\ a.code = "payload_too_large"
               \/ a.status = 409 /\ a.code \in {"adhoc_already_completing", "adhoc_not_active"}
               \/ a.status = 408 /\ a.code = "internal_error"

Inserted == made - InitialRows
Times(r) == Cardinality({i \in DOMAIN walk.seen : walk.seen[i] = r})

\* A walk that came to the last page of the engine missed no more of the rows
\* that were there all the time than rows were removed, and read no more rows
\* again than were inserted: with an unchanged list it is the list.  (A walk
\* that ends with JSON of something else, an empty page, may have missed any.)
WalkSeesTheList ==
    walk.state = "complete" /\ request.answer.by = "success" =>
        /\ Cardinality({r \in (1..InitialRows) \ gone : Times(r) = 0}) <= Cardinality(gone)
        /\ Len(walk.seen) - Cardinality({r \in 1..made : Times(r) > 0}) <= Inserted

\* Whatever method of a sub-client is called, the engine has a route for it, and
\* when the engine has carried it out the caller is given what the type of the
\* method says: nothing where it says void, and otherwise the body without its
\* envelope, never undefined and never an envelope.
CallsGiveWhatTheyPromise ==
    request.kind = "call" /\ request.call # NoCall =>
        /\ Serves(request.call) # {}
        /\ Received /\ request.answer.by = "success" =>
              IF request.call.promise = "nothing" THEN outcome.is = "nothing"
              ELSE outcome.is = "value" /\ outcome.body = "bare"
=============================================================================
