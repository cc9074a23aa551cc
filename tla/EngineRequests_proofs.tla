------------------------- MODULE EngineRequests_proofs -------------------------
(***************************************************************************)
(* The requests of an application for any list, any pages and any number of  *)
(* rows that come and go, and with them the whole client.                    *)
(***************************************************************************)
EXTENDS BfwEngineClient_proofs

-----------------------------------------------------------------------------
(* What the engine and others answer                                       *)

\* The members of a table row have its status.
LEMMA StatusOf ==
    ASSUME NEW status, NEW codes, NEW r \in With(status, codes)
    PROVE  r.status = status
BY DEF With

Refuses(refusals) == \A r \in refusals : r.status \notin 200..299

\* No controller refuses with a status of success.
LEMMA ControllersRefuse ==
    /\ Refuses(ProcessRefusals) /\ Refuses(DecisionRefusals) /\ Refuses(UserTaskRefusals)
    /\ Refuses(ManualTaskRefusals) /\ Refuses(ProcessInstanceRefusals) /\ Refuses(PublishRefusals)
    /\ Refuses(AdHocRefusals) /\ Refuses(TimerRefusals) /\ Refuses(ScheduleRefusals)
    /\ Refuses(EscalationRefusals) /\ Refuses(With(503, {"service_unavailable"}))
    /\ Refuses(AuthRefusals) /\ Refuses(LimitRefusals) /\ Refuses(ErrorJson)
<1>1. Refuses(ProcessRefusals)
  BY StatusOf DEF Refuses, ProcessRefusals
<1>2. Refuses(DecisionRefusals)
  BY StatusOf DEF Refuses, DecisionRefusals
<1>3. Refuses(UserTaskRefusals)
  BY StatusOf DEF Refuses, UserTaskRefusals
<1>4. Refuses(ManualTaskRefusals)
  BY StatusOf DEF Refuses, ManualTaskRefusals
<1>5. Refuses(ProcessInstanceRefusals)
  BY StatusOf DEF Refuses, ProcessInstanceRefusals
<1>6. Refuses(PublishRefusals)
  BY StatusOf DEF Refuses, PublishRefusals
<1>7. Refuses(AdHocRefusals)
  BY StatusOf DEF Refuses, AdHocRefusals
<1>8. Refuses(TimerRefusals)
  BY StatusOf DEF Refuses, TimerRefusals
<1>9. Refuses(ScheduleRefusals)
  BY StatusOf DEF Refuses, ScheduleRefusals
<1>10. Refuses(EscalationRefusals)
  BY StatusOf DEF Refuses, EscalationRefusals
<1>11. Refuses(With(503, {"service_unavailable"}))
  BY StatusOf DEF Refuses
<1>12. Refuses(AuthRefusals) /\ Refuses(LimitRefusals) /\ Refuses(ErrorJson)
  BY StatusOf DEF Refuses, AuthRefusals, LimitRefusals, ErrorJson
<1> QED BY <1>1, <1>2, <1>3, <1>4, <1>5, <1>6, <1>7, <1>8, <1>9, <1>10, <1>11, <1>12

\* What the actions behind the routes refuse with.
ControllerRefusals ==
    {ProcessRefusals, DecisionRefusals, UserTaskRefusals, ManualTaskRefusals, ProcessInstanceRefusals,
     PublishRefusals, AdHocRefusals, TimerRefusals, ScheduleRefusals, EscalationRefusals,
     With(503, {"service_unavailable"}), {}}

LEMMA RefusalsOfRoutes == \A r \in Routes : r.refusals \in ControllerRefusals
<1>1. \A r \in CatalogueRoutes("processes", ProcessRefusals)
             \cup CatalogueRoutes("decisions", DecisionRefusals) : r.refusals \in ControllerRefusals
  BY DEF ControllerRefusals, CatalogueRoutes, Route
<1>2. \A r \in DefinitionRoutes : r.refusals \in ControllerRefusals
  BY <1>1 DEF ControllerRefusals, DefinitionRoutes, Route
<1>3. \A r \in InstanceRoutes : r.refusals \in ControllerRefusals
  BY DEF ControllerRefusals, InstanceRoutes, Route
<1>4. \A r \in EventRoutes : r.refusals \in ControllerRefusals
  BY DEF ControllerRefusals, EventRoutes, Route
<1>5. \A r \in AdHocRoutes : r.refusals \in ControllerRefusals
  BY DEF ControllerRefusals, AdHocRoutes, Route
<1> QED BY <1>2, <1>3, <1>4, <1>5 DEF Routes, Route, ControllerRefusals

\* So no route does.
LEMMA RoutesRefuse == \A r \in Routes : Refuses(r.refusals)
<1>1. Refuses({})
  BY DEF Refuses
<1> QED BY <1>1, RefusalsOfRoutes, ControllersRefuse DEF ControllerRefusals

\* What an answer to a request tells, by who gave it.
AnswerFits(kind, call, a) ==
    /\ a.by \in {"nobody", "foreign", "engine", "graphql", "failedRead", "success"}
    /\ a.by = "nobody" => a.status = 0
    /\ a.by = "foreign" => /\ a.status \in {200, 204, 404, 502}
                           /\ a.json = TRUE \/ a.json = FALSE
                           /\ a.status = 204 => a.json = FALSE
                           /\ a.body # "data"
    /\ a.by = "engine" => a.status \notin 200..299
    /\ a.by = "graphql" => kind \in Graphql /\ a.status = 200 /\ a.json = TRUE
    /\ a.by = "failedRead" => /\ kind = "call" /\ HidesFailedReads(call)
                              /\ a.status = 200 /\ a.json = TRUE

\* What is in front of the engine has none of its data.
LEMMA ForeignAnswered ==
    ASSUME NEW a \in ForeignAnswers
    PROVE  /\ a.by = "foreign" /\ a.status \in {200, 204, 404, 502}
           /\ a.json = TRUE \/ a.json = FALSE
           /\ a.status = 204 => a.json = FALSE
           /\ a.body # "data"
<1>1. PICK s, body : /\ a = Foreign(s, body) /\ body \in {"none", "foreign"}
                     /\ s \in {200, 404, 502} \/ (s = 204 /\ body = "none")
  BY DEF ForeignAnswers
<1>2. /\ Foreign(s, body).by = "foreign" /\ Foreign(s, body).status = s
      /\ Foreign(s, body).json = (body # "none") /\ Foreign(s, body).body = body
  BY DEF Foreign, NoAnswer
<1>3. a.by = "foreign" /\ a.status = s /\ a.body = body
  BY <1>1, <1>2
<1>4. CASE body = "none"
  <2>1. (body # "none") = FALSE
    BY <1>4
  <2>2. a.json = FALSE
    BY <1>1, <1>2, <2>1
  <2> QED BY <1>1, <1>3, <1>4, <2>2
<1>5. CASE body = "foreign"
  <2>1. (body # "none") = TRUE
    BY <1>5
  <2>2. a.json = TRUE
    BY <1>1, <1>2, <2>1
  <2> QED BY <1>1, <1>3, <1>5, <2>2
<1> QED BY <1>1, <1>4, <1>5

\* A failed read is answered as one with an empty list.
LEMMA FailedReadAnswered ==
    ASSUME NEW call, NEW a \in Carried(call), a.by # "success"
    PROVE  a.by = "failedRead" /\ HidesFailedReads(call) /\ a.status = 200 /\ a.json = TRUE
<1> DEFINE As(by, route) == [NoAnswer EXCEPT !.by = by, !.json = route.body # "none",
                                            !.body = route.body,
                                            !.status = IF route.body = "none" THEN 204 ELSE 200]
<1>1. \A r : As("success", r).by = "success"
  BY DEF NoAnswer
<1>2. Carried(call) = {As("success", r) : r \in Serves(call)}
          \cup IF HidesFailedReads(call) THEN {As("failedRead", r) : r \in Serves(call)} ELSE {}
  BY DEF Carried
<1>3. HidesFailedReads(call) /\ \E r \in Serves(call) : a = As("failedRead", r)
  <2> HIDE DEF As
  <2> QED BY <1>1, <1>2
<1>4. PICK r \in Serves(call) : a = As("failedRead", r)
  BY <1>3
<1>5. r.body # "none"
  <2>1. r \in Routes /\ r.verb = "get"
    BY <1>3 DEF Serves, HidesFailedReads
  <2>2. \A x \in Routes : x.verb = "get" => x.body # "none"
    BY DEF Routes, DefinitionRoutes, CatalogueRoutes, InstanceRoutes, EventRoutes, AdHocRoutes, Route
  <2> QED BY <2>1, <2>2
<1>6. (r.body # "none") = TRUE
  BY <1>5
<1> QED BY <1>3, <1>4, <1>5, <1>6 DEF NoAnswer

\* The answers the engine, or something in front of it, gives are such.
LEMMA AnswersFit ==
    ASSUME NEW kind \in Kinds, NEW call, NEW offset, NEW a \in AnswersTo(kind, call, offset)
    PROVE  AnswerFits(kind, call, a)
<1>1. CASE a = NoAnswer
  BY <1>1 DEF NoAnswer, AnswerFits
<1>2. CASE a \in ForeignAnswers
  <2>1. /\ a.by = "foreign" /\ a.status \in {200, 204, 404, 502}
        /\ a.json = TRUE \/ a.json = FALSE
        /\ a.status = 204 => a.json = FALSE
        /\ a.body # "data"
    BY <1>2, ForeignAnswered
  <2> QED BY <2>1 DEF AnswerFits
<1>3. CASE a \in RefusingAnswers(kind, call)
  <2>1. PICK r \in RefusalsOf(kind, call) :
            a = [NoAnswer EXCEPT !.by = "engine", !.status = r.status, !.json = kind # "probe",
                                 !.code = r.code]
    BY <1>3 DEF RefusingAnswers
  <2>2. a.by = "engine" /\ a.status = r.status
    BY <2>1 DEF NoAnswer
  <2>3. \A s \in Serves(call) : Refuses(s.refusals)
    BY RoutesRefuse DEF Serves
  <2>4. CASE r \in ErrorJson
    BY <2>2, <2>4, ControllersRefuse DEF Refuses, AnswerFits
  <2>5. CASE kind = "call" /\ r \notin ErrorJson
    <3>1. \/ r \in UNION {s.refusals : s \in Serves(call)}
          \/ r \in AuthRefusals \/ r \in LimitRefusals
      BY <2>5 DEF RefusalsOf
    <3> QED BY <2>2, <2>3, <3>1, ControllersRefuse DEF Refuses, AnswerFits
  <2>6. CASE kind \in Graphql /\ r \notin ErrorJson
    <3>1. r \in AuthRefusals \/ r \in LimitRefusals
      BY <2>6 DEF RefusalsOf, Graphql
    <3> QED BY <2>2, <3>1, ControllersRefuse DEF Refuses, AnswerFits
  <2>7. CASE kind \in {"text", "probe"} /\ r \notin ErrorJson
    <3>1. r \in {}
      BY <2>7 DEF RefusalsOf, Graphql
    <3> QED BY <3>1
  <2> QED BY <2>4, <2>5, <2>6, <2>7 DEF Kinds
<1>4. CASE kind \in Graphql /\ a \in GraphqlAnswers(kind, offset)
  <2>1. CASE a \in GraphqlErrors
    <3>1. a.by = "graphql" /\ a.status = 200 /\ a.json = TRUE
      BY <2>1 DEF GraphqlErrors, NoAnswer
    <3> QED BY <1>4, <3>1 DEF AnswerFits
  <2>2. CASE a \notin GraphqlErrors
    <3>1. \E page : a = Found(page)
      BY <1>4, <2>2 DEF GraphqlAnswers, Graphql
    <3>2. a.by = "success"
      BY <3>1 DEF Found, Success, NoAnswer
    <3> QED BY <3>2 DEF AnswerFits
  <2> QED BY <2>1, <2>2
<1>5. CASE kind \in {"probe", "text"} /\ a \in {Success(204, NoPage), Success(200, NoPage)}
  <2>1. a.by = "success"
    BY <1>5 DEF Success, NoAnswer
  <2> QED BY <2>1 DEF AnswerFits
<1>6. CASE kind = "call" /\ a \in Carried(call)
  <2>1. CASE a.by = "success"
    BY <2>1 DEF AnswerFits
  <2>2. CASE a.by # "success"
    <3>1. a.by = "failedRead" /\ HidesFailedReads(call) /\ a.status = 200 /\ a.json = TRUE
      BY <1>6, <2>2, FailedReadAnswered
    <3> QED BY <1>6, <3>1 DEF AnswerFits
  <2> QED BY <2>1, <2>2
<1> QED BY <1>1, <1>2, <1>3, <1>4, <1>5, <1>6 DEF AnswersTo, Kinds, Graphql

\* A refusal is one of those listed, and a method that was carried out has the
\* answer of its route.
AnswerGiven(kind, call, a) ==
    /\ a.by = "engine" => a \in RefusingAnswers(kind, call)
    /\ a.by = "success" /\ kind = "call" => a \in Carried(call)

LEMMA AnswersGiven ==
    ASSUME NEW kind \in Kinds, NEW call, NEW offset, NEW a \in AnswersTo(kind, call, offset)
    PROVE  AnswerGiven(kind, call, a)
<1>1. CASE a = NoAnswer \/ a \in ForeignAnswers
  <2>1. CASE a = NoAnswer
    BY <2>1 DEF NoAnswer, AnswerGiven
  <2>2. CASE a \in ForeignAnswers
    BY <2>2, ForeignAnswered DEF AnswerGiven
  <2> QED BY <1>1, <2>1, <2>2
<1>2. CASE a \in RefusingAnswers(kind, call)
  <2>1. a.by = "engine"
    BY <1>2 DEF RefusingAnswers, NoAnswer
  <2> QED BY <1>2, <2>1 DEF AnswerGiven
<1>3. CASE kind \in Graphql /\ a \in GraphqlAnswers(kind, offset)
  <2>1. CASE a \in GraphqlErrors
    <3>1. a.by = "graphql"
      BY <2>1 DEF GraphqlErrors, NoAnswer
    <3> QED BY <3>1 DEF AnswerGiven
  <2>2. CASE a \notin GraphqlErrors
    <3>1. \E page : a = Found(page)
      BY <1>3, <2>2 DEF GraphqlAnswers, Graphql
    <3>2. a.by = "success"
      BY <3>1 DEF Found, Success, NoAnswer
    <3> QED BY <1>3, <3>2 DEF AnswerGiven, Graphql
  <2> QED BY <2>1, <2>2
<1>4. CASE kind \in {"probe", "text"} /\ a \in {Success(204, NoPage), Success(200, NoPage)}
  <2>1. a.by = "success"
    BY <1>4 DEF Success, NoAnswer
  <2> QED BY <1>4, <2>1 DEF AnswerGiven
<1>5. CASE kind = "call" /\ a \in Carried(call)
  <2>1. a.by = "success" \/ a.by = "failedRead"
    BY <1>5 DEF Carried, NoAnswer
  <2> QED BY <1>5, <2>1 DEF AnswerGiven
<1> QED BY <1>1, <1>2, <1>3, <1>4, <1>5 DEF AnswersTo, Kinds, Graphql

-----------------------------------------------------------------------------
(* What the caller is shown of a refusal                                   *)

\* No two classes have the same code.
LEMMA ClassStatusOne ==
    ASSUME NEW x \in ClassStatus, NEW y \in ClassStatus, x.code = y.code
    PROVE  x = y
BY DEF ClassStatus, With, TerminalReasons

\* The class of a code is the one listed with it.
LEMMA ClassFound ==
    ASSUME NEW r \in ClassStatus
    PROVE  Class(r.code) = r
<1> DEFINE c == Class(r.code)
<1>1. c \in ClassStatus /\ c.code = r.code
  BY DEF Class
<1> HIDE DEF c
<1>2. c = r
  BY <1>1, ClassStatusOne
<1> QED BY <1>2 DEF c

\* What the caller is shown of a refusal.
Shown(r) ==
    LET e == MapResponseError(r.status, r.code)
    IN  /\ e.code = r.code \/ r.code \in Renamed
        /\ \/ e.status = r.status
           \/ r.status = 422 /\ r.code = "payload_too_large"
           \/ r.status = 409 /\ r.code \in {"adhoc_already_completing", "adhoc_not_active"}
           \/ r.status = 408 /\ r.code = "internal_error"

\* The refusals whose class has their own code and status.
Plain(r) == r \in ClassStatus /\ r.code \notin Renamed \cup {"unauthorized", "validation_error"}

\* They are shown as they are.
LEMMA PlainShown ==
    ASSUME NEW r, Plain(r)
    PROVE  Shown(r)
<1>1. MapByErrorCode(r.code) = r
  BY ClassFound DEF MapByErrorCode, Plain
<1>2. r.code \in DomainCodes
  BY DEF Plain, DomainCodes
<1>3. MapResponseError(r.status, r.code) = r
  BY <1>1, <1>2 DEF MapResponseError
<1> QED BY <1>3 DEF Shown

\* The code of a class that stands for others, with its status.
LEMMA RenamedClasses ==
    /\ \A c \in AsValidation : Class(ClassCode[c]).status = 422
    /\ \A c \in AsNotFound : Class(ClassCode[c]).status = 404
    /\ \A c \in {"version_disabled", "root_process_instance_not_terminal"} :
          Class(ClassCode[c]).status = 422
    /\ Class(ClassCode["decision_not_found"]).status = 404
    /\ Class(ClassCode["batch_conflict"]).status = 409
<1> DEFINE row(s, c) == [status |-> s, code |-> c]
<1>1. /\ row(422, "validation_error") \in ClassStatus /\ row(422, "process_disabled") \in ClassStatus
      /\ row(422, "process_instance_not_terminal") \in ClassStatus
      /\ row(404, "not_found") \in ClassStatus /\ row(404, "decision_definition_not_found") \in ClassStatus
      /\ row(409, "version_exists") \in ClassStatus
  BY DEF ClassStatus, With, TerminalReasons
<1>2. ASSUME NEW s, NEW c, row(s, c) \in ClassStatus
      PROVE  Class(c).status = s
  <2>1. PICK r \in ClassStatus : r = row(s, c)
    BY <1>2
  <2>2. r.code = c /\ r.status = s
    BY <2>1
  <2>3. Class(r.code) = r
    BY ClassFound
  <2> QED BY <2>2, <2>3
<1> HIDE DEF row
<1>3. /\ Class("validation_error").status = 422 /\ Class("not_found").status = 404
      /\ Class("process_disabled").status = 422 /\ Class("process_instance_not_terminal").status = 422
      /\ Class("decision_definition_not_found").status = 404 /\ Class("version_exists").status = 409
  BY <1>1, <1>2
<1>4. /\ \A c \in AsValidation : ClassCode[c] = "validation_error"
      /\ \A c \in AsNotFound : ClassCode[c] = "not_found"
      /\ ClassCode["version_disabled"] = "process_disabled"
      /\ ClassCode["root_process_instance_not_terminal"] = "process_instance_not_terminal"
      /\ ClassCode["decision_not_found"] = "decision_definition_not_found"
      /\ ClassCode["batch_conflict"] = "version_exists"
  BY DEF ClassCode, Renamed, AsValidation, AsNotFound
<1> QED BY <1>3, <1>4

\* The refusals whose code the caller does not read.
Hidden ==
    With(422, {"target_version_not_cached", "not_applicable", "enable_failed", "disable_failed",
               "not_adhoc_subprocess", "adhoc_sequential_busy", "version_disabled",
               "root_process_instance_not_terminal"})
    \cup With(404, {"version_not_found", "flow_node_instance_not_found", "adhoc_activity_not_found",
                    "decision_not_found"})
    \cup With(409, {"adhoc_already_completing", "adhoc_not_active", "batch_conflict"})

\* They are shown with the code of their class, and its status is the answer's.
LEMMA HiddenShown == \A r \in Hidden : Shown(r)
<1> SUFFICES ASSUME NEW r \in Hidden PROVE Shown(r)
  OBVIOUS
<1>1. r.code \in Renamed
  BY DEF Hidden, With, Renamed, AsValidation, AsNotFound
<1>2. MapResponseError(r.status, r.code) = Class(ClassCode[r.code])
  BY <1>1 DEF MapResponseError, MapByErrorCode, DomainCodes
<1>3. \/ /\ r.status = 422
         /\ r.code \in AsValidation \cup {"version_disabled", "root_process_instance_not_terminal"}
      \/ r.status = 404 /\ r.code \in AsNotFound \cup {"decision_not_found"}
      \/ r.status = 409 /\ r.code \in {"adhoc_already_completing", "adhoc_not_active", "batch_conflict"}
  BY DEF Hidden, With, AsValidation, AsNotFound
<1> QED BY <1>1, <1>2, <1>3, RenamedClasses DEF Shown

\* The refusals whose class is chosen by the status, or that have none.
ByStatus ==
    With(401, {"unauthorized"}) \cup With(406, {"not_acceptable"})
    \cup With(415, {"unsupported_media_type"})
    \cup With(422, {"escalation_code_blank", "escalation_code_too_long", "abort_reason"})

\* They are shown as they are, by the class of the status or by none.
LEMMA ByStatusShown == \A r \in ByStatus : Shown(r)
<1> SUFFICES ASSUME NEW r \in ByStatus PROVE Shown(r)
  OBVIOUS
<1>1. r.code \notin DomainCodes
  BY DEF ByStatus, With, DomainCodes, Renamed, AsValidation, AsNotFound, ClassStatus, TerminalReasons
<1>2. MapResponseError(r.status, r.code) = MapByStatusCode(r.status, r.code)
  BY <1>1 DEF MapResponseError
<1>3. CASE r.status = 401
  <2>1. r.code = "unauthorized" /\ r = [status |-> 401, code |-> "unauthorized"]
    BY <1>3 DEF ByStatus, With
  <2>2. r \in ClassStatus
    BY <2>1 DEF ClassStatus, With
  <2>3. MapByStatusCode(r.status, r.code) = Class("unauthorized")
    BY <1>3 DEF MapByStatusCode, StatusClass
  <2>4. Class("unauthorized") = r
    BY <2>1, <2>2, ClassFound
  <2> QED BY <1>2, <2>3, <2>4 DEF Shown
<1>4. CASE r.status \in {406, 415, 422}
  <2>1. MapByStatusCode(r.status, r.code) = [status |-> r.status, code |-> r.code]
    BY <1>4 DEF MapByStatusCode, StatusClass
  <2> QED BY <1>2, <2>1 DEF Shown
<1> QED BY <1>3, <1>4 DEF ByStatus, With

\* A start whose payload is too large.
LEMMA TooLargeShown == \A r \in With(422, {"payload_too_large"}) : Shown(r)
<1> DEFINE c == [status |-> 413, code |-> "payload_too_large"]
<1>1. c \in ClassStatus /\ c.code = "payload_too_large"
  BY DEF ClassStatus, With
<1>2. Class("payload_too_large") = c
  BY <1>1, ClassFound
<1>3. "payload_too_large" \in DomainCodes /\ "payload_too_large" \notin Renamed
  BY <1>1 DEF DomainCodes, Renamed, AsValidation, AsNotFound
<1>4. MapResponseError(422, "payload_too_large") = c
  BY <1>2, <1>3 DEF MapResponseError, MapByErrorCode
<1> QED BY <1>4 DEF Shown, With

\* What the renderer has no code of its own for.
LEMMA CatchAllShown == \A r \in With(408, {"internal_error"}) : Shown(r)
<1> DEFINE c == [status |-> 500, code |-> "internal_error"]
<1>1. c \in ClassStatus /\ c.code = "internal_error"
  BY DEF ClassStatus, With
<1>2. Class("internal_error") = c
  BY <1>1, ClassFound
<1>3. "internal_error" \in DomainCodes /\ "internal_error" \notin Renamed
  BY <1>1 DEF DomainCodes, Renamed, AsValidation, AsNotFound
<1>4. MapResponseError(408, "internal_error") = c
  BY <1>2, <1>3 DEF MapResponseError, MapByErrorCode
<1> QED BY <1>4 DEF Shown, With

\* Every refusal is one of these.
Listed(refusals) ==
    \A r \in refusals : \/ Plain(r)
                        \/ r \in Hidden \cup ByStatus
                        \/ r \in With(422, {"payload_too_large"}) \cup With(408, {"internal_error"})

LEMMA RefusalsListed ==
    /\ \A refusals \in ControllerRefusals : Listed(refusals)
    /\ Listed(AuthRefusals) /\ Listed(LimitRefusals) /\ Listed(ErrorJson)
<1>1. Listed(ProcessRefusals)
  BY DEF Listed, ProcessRefusals, With, Plain, Hidden, ByStatus, ClassStatus, TerminalReasons,
         Renamed, AsValidation, AsNotFound
<1>2. Listed(DecisionRefusals)
  BY DEF Listed, DecisionRefusals, With, Plain, Hidden, ByStatus, ClassStatus, TerminalReasons,
         Renamed, AsValidation, AsNotFound
<1>3. Listed(UserTaskRefusals)
  BY DEF Listed, UserTaskRefusals, With, Plain, Hidden, ByStatus, ClassStatus, TerminalReasons,
         Renamed, AsValidation, AsNotFound
<1>4. Listed(ManualTaskRefusals)
  BY DEF Listed, ManualTaskRefusals, With, Plain, Hidden, ByStatus, ClassStatus, TerminalReasons,
         Renamed, AsValidation, AsNotFound
<1>5. Listed(ProcessInstanceRefusals)
  BY DEF Listed, ProcessInstanceRefusals, With, Plain, Hidden, ByStatus, ClassStatus, TerminalReasons,
         Renamed, AsValidation, AsNotFound
<1>6. Listed(PublishRefusals)
  BY DEF Listed, PublishRefusals, With, Plain, Hidden, ByStatus, ClassStatus, TerminalReasons,
         Renamed, AsValidation, AsNotFound
<1>7. Listed(AdHocRefusals)
  BY DEF Listed, AdHocRefusals, With, Plain, Hidden, ByStatus, ClassStatus, TerminalReasons,
         Renamed, AsValidation, AsNotFound
<1>8. Listed(TimerRefusals)
  BY DEF Listed, TimerRefusals, With, Plain, Hidden, ByStatus, ClassStatus, TerminalReasons,
         Renamed, AsValidation, AsNotFound
<1>9. Listed(ScheduleRefusals)
  BY DEF Listed, ScheduleRefusals, With, Plain, Hidden, ByStatus, ClassStatus, TerminalReasons,
         Renamed, AsValidation, AsNotFound
<1>10. Listed(EscalationRefusals)
  BY DEF Listed, EscalationRefusals, With, Plain, Hidden, ByStatus, ClassStatus, TerminalReasons,
         Renamed, AsValidation, AsNotFound
<1>11. Listed(With(503, {"service_unavailable"})) /\ Listed({})
  <2>1. Listed(With(503, {"service_unavailable"}))
    BY DEF Listed, With, Plain, ClassStatus, Renamed, AsValidation, AsNotFound
  <2>2. Listed({})
    BY DEF Listed
  <2> QED BY <2>1, <2>2
<1>12. Listed(AuthRefusals) /\ Listed(LimitRefusals) /\ Listed(ErrorJson)
  BY DEF Listed, AuthRefusals, LimitRefusals, ErrorJson, With, Plain, Hidden, ByStatus,
         ClassStatus, TerminalReasons, Renamed, AsValidation, AsNotFound
<1> QED
  BY <1>1, <1>2, <1>3, <1>4, <1>5, <1>6, <1>7, <1>8, <1>9, <1>10, <1>11, <1>12 DEF ControllerRefusals

\* So the caller is shown every refusal there is.
LEMMA RefusalsShown ==
    ASSUME NEW kind \in Kinds, NEW call, NEW r \in RefusalsOf(kind, call)
    PROVE  Shown(r)
<1>1. \A refusals : Listed(refusals) => \A x \in refusals : Shown(x)
  BY PlainShown, HiddenShown, ByStatusShown, TooLargeShown, CatchAllShown DEF Listed
<1>2. \A s \in Serves(call) : s.refusals \in ControllerRefusals
  BY RefusalsOfRoutes DEF Serves
<1>3. \A s \in Serves(call) : \A x \in s.refusals : Shown(x)
  BY <1>1, <1>2, RefusalsListed
<1>4. \A x \in AuthRefusals \cup LimitRefusals \cup ErrorJson : Shown(x)
  BY <1>1, RefusalsListed
<1>5. CASE kind = "call"
  <2>1. \/ r \in UNION {s.refusals : s \in Serves(call)}
        \/ r \in AuthRefusals \cup LimitRefusals \cup ErrorJson
    BY <1>5 DEF RefusalsOf
  <2> QED BY <1>3, <1>4, <2>1
<1>6. CASE kind \in Graphql
  <2>1. r \in AuthRefusals \cup LimitRefusals \cup ErrorJson
    BY <1>6 DEF RefusalsOf, Graphql
  <2> QED BY <1>4, <2>1
<1>7. CASE kind \in {"text", "probe"}
  <2>1. r \in ErrorJson
    BY <1>7 DEF RefusalsOf, Graphql
  <2> QED BY <1>4, <2>1
<1> QED BY <1>5, <1>6, <1>7 DEF Kinds

-----------------------------------------------------------------------------
(* The methods of the sub-clients and the routes that serve them           *)

\* The paths whose answers have their body in an envelope.
Enveloped ==
    {<<"timer-schedules">>, <<"timer-schedules", "id">>, <<"adhoc-subprocesses", "id", "activities">>}

\* What is read is in the envelope at these paths, and bare elsewhere.
Reads(verb, path, body) ==
    verb \in {"get", "post"} => body = IF verb = "get" /\ path \in Enveloped THEN "data" ELSE "bare"

\* The catalogues and the status of an ad-hoc subprocess are read elsewhere.
LEMMA NotEnveloped ==
    /\ \A name \in {"processes", "decisions"} :
          {<<name>>, <<name, "id">>, <<name, "id", "versions">>} \cap Enveloped = {}
    /\ <<"adhoc-subprocesses", "id", "status">> \notin Enveloped
BY DEF Enveloped

\* There is a route for a verb and a path.
Routed(verb, path) == \E r \in Routes : r.verb = verb /\ r.path = path

\* A route of the router is one.
LEMMA RouteRoutes ==
    ASSUME NEW verb, NEW path, NEW body, NEW refusals, Route(verb, path, body, refusals) \in Routes
    PROVE  Routed(verb, path)
<1>1. PICK r \in Routes : r = Route(verb, path, body, refusals)
  OBVIOUS
<1>2. r.verb = verb /\ r.path = path
  BY <1>1 DEF Route
<1> QED BY <1>2 DEF Routed

\* The catalogues of processes and of decisions have the same routes.
LEMMA CatalogueRouted ==
    ASSUME NEW name, NEW refusals, CatalogueRoutes(name, refusals) \subseteq Routes
    PROVE  \A c \in CatalogueCalls(name) : Routed(c.verb, c.path)
<1>1. /\ Routed("get", <<name>>) /\ Routed("get", <<name, "id">>)
      /\ Routed("get", <<name, "id", "versions">>) /\ Routed("post", <<name>>)
      /\ Routed("put", <<name, "id", "enable">>) /\ Routed("put", <<name, "id", "disable">>)
      /\ Routed("delete", <<name, "id">>) /\ Routed("delete", <<name, "id", "versions", "id">>)
  BY RouteRoutes DEF CatalogueRoutes
<1> QED BY <1>1 DEF CatalogueCalls, Asks

\* There is one for every method of every sub-client.
LEMMA ProcessCallsRouted == \A c \in ProcessClient : Routed(c.verb, c.path)
<1>1. CatalogueRoutes("processes", ProcessRefusals) \subseteq Routes
  BY DEF Routes, DefinitionRoutes
<1>2. Routed("post", <<"processes", "id", "start">>)
  BY RouteRoutes DEF Routes, DefinitionRoutes
<1> QED BY <1>1, <1>2, CatalogueRouted DEF ProcessClient, Asks

LEMMA DecisionCallsRouted == \A c \in DecisionClient : Routed(c.verb, c.path)
<1>1. CatalogueRoutes("decisions", DecisionRefusals) \subseteq Routes
  BY DEF Routes, DefinitionRoutes
<1>2. /\ Routed("post", <<"decisions", "id", "evaluate">>)
      /\ Routed("post", <<"decisions", "id", "versions", "id", "evaluate">>)
      /\ Routed("post", <<"decisions", "id", "services", "id", "evaluate">>)
  BY RouteRoutes DEF Routes, DefinitionRoutes
<1> QED BY <1>1, <1>2, CatalogueRouted DEF DecisionClient, Asks

LEMMA InstanceCallsRouted ==
    \A c \in UserTaskClient \cup ManualTaskClient \cup ProcessInstanceClient : Routed(c.verb, c.path)
<1>1. \A s \in {"finish", "cancel"} : Routed("put", <<"user-tasks", "id", s>>)
  <2> TAKE s \in {"finish", "cancel"}
  <2>1. Route("put", <<"user-tasks", "id", s>>, "none", UserTaskRefusals) \in InstanceRoutes
    BY DEF InstanceRoutes
  <2> QED BY <2>1, RouteRoutes DEF Routes
<1>2. \A s \in {"confirm", "cancel"} : Routed("put", <<"manual-tasks", "id", s>>)
  <2> TAKE s \in {"confirm", "cancel"}
  <2>1. Route("put", <<"manual-tasks", "id", s>>, "none", ManualTaskRefusals) \in InstanceRoutes
    BY DEF InstanceRoutes
  <2> QED BY <2>1, RouteRoutes DEF Routes
<1>3. \A s \in {"abort", "retry"} : Routed("put", <<"process-instances", "id", s>>)
  <2> TAKE s \in {"abort", "retry"}
  <2>1. Route("put", <<"process-instances", "id", s>>, "none", ProcessInstanceRefusals) \in InstanceRoutes
    BY DEF InstanceRoutes
  <2> QED BY <2>1, RouteRoutes DEF Routes
<1>4. Routed("delete", <<"process-instances", "id">>)
  BY RouteRoutes DEF Routes, InstanceRoutes
<1> QED BY <1>1, <1>2, <1>3, <1>4 DEF UserTaskClient, ManualTaskClient, ProcessInstanceClient, Asks

LEMMA EventCallsRouted ==
    \A c \in EventClient \cup TimerScheduleClient \cup AdHocSubprocessClient \cup EngineClient :
        Routed(c.verb, c.path)
<1>1. /\ Routed("get", <<"timer-schedules">>) /\ Routed("get", <<"timer-schedules", "id">>)
      /\ Routed("put", <<"timer-schedules", "id", "enable">>)
      /\ Routed("put", <<"timer-schedules", "id", "disable">>)
      /\ \A event \in {"messages", "signals", "timer-events", "escalations"} :
            Routed("post", <<event, "id", "trigger">>)
  BY RouteRoutes DEF Routes, EventRoutes
<1>2. /\ Routed("get", <<"adhoc-subprocesses", "id", "activities">>)
      /\ Routed("post", <<"adhoc-subprocesses", "id", "activities", "id", "activate">>)
      /\ Routed("post", <<"adhoc-subprocesses", "id", "complete">>)
      /\ Routed("get", <<"adhoc-subprocesses", "id", "status">>)
  BY RouteRoutes DEF Routes, AdHocRoutes
<1>3. Routed("get", <<"info">>) /\ Routed("get", <<"stats">>)
  BY RouteRoutes DEF Routes
<1> QED
  BY <1>1, <1>2, <1>3
  DEF EventClient, TimerScheduleClient, AdHocSubprocessClient, EngineClient, Asks

\* What each route answers, by where it is.
LEMMA RoutesRead ==
    \A r \in Routes : Reads(r.verb, r.path, r.body) /\ r.body \in {"none", "bare", "data"}
<1>1. \A r \in DefinitionRoutes : Reads(r.verb, r.path, r.body)
  BY NotEnveloped DEF DefinitionRoutes, CatalogueRoutes, Route, Reads
<1>2. \A r \in InstanceRoutes \cup EventRoutes : Reads(r.verb, r.path, r.body)
  BY DEF InstanceRoutes, EventRoutes, Route, Reads, Enveloped
<1>3. \A r \in AdHocRoutes : Reads(r.verb, r.path, r.body)
  BY NotEnveloped DEF AdHocRoutes, Route, Reads, Enveloped
<1>4. \A r \in {Route("get", <<"info">>, "bare", {}),
                Route("get", <<"stats">>, "bare", With(503, {"service_unavailable"}))} :
         Reads(r.verb, r.path, r.body)
  BY DEF Route, Reads, Enveloped
<1>5. \A r \in Routes : r.body \in {"none", "bare", "data"}
  BY DEF Routes, DefinitionRoutes, CatalogueRoutes, InstanceRoutes, EventRoutes, AdHocRoutes, Route
<1> QED BY <1>1, <1>2, <1>3, <1>4, <1>5 DEF Routes

\* A method that promises something reads it, and takes it out of an envelope
\* exactly where there is one.
ReadsWhatItPromises(c) ==
    /\ c.promise \in {"nothing", "body", "data"}
    /\ c.promise # "nothing" =>
          /\ c.verb \in {"get", "post"}
          /\ c.promise = "data" <=> c.verb = "get" /\ c.path \in Enveloped

LEMMA CallsRead == \A c \in EveryCall : ReadsWhatItPromises(c)
<1>1. \A c \in ProcessClient \cup DecisionClient : ReadsWhatItPromises(c)
  BY NotEnveloped DEF ProcessClient, DecisionClient, CatalogueCalls, Asks, ReadsWhatItPromises
<1>2. \A c \in ProcessInstanceClient \cup UserTaskClient \cup ManualTaskClient :
         ReadsWhatItPromises(c)
  BY DEF ProcessInstanceClient, UserTaskClient, ManualTaskClient, Asks, ReadsWhatItPromises
<1>3. \A c \in EventClient \cup TimerScheduleClient \cup EngineClient : ReadsWhatItPromises(c)
  BY DEF EventClient, TimerScheduleClient, EngineClient, Asks, ReadsWhatItPromises, Enveloped
<1>4. \A c \in AdHocSubprocessClient : ReadsWhatItPromises(c)
  BY NotEnveloped DEF AdHocSubprocessClient, Asks, ReadsWhatItPromises, Enveloped
<1> QED BY <1>1, <1>2, <1>3, <1>4 DEF EveryCall

\* So every method is served, and by routes that answer what it promises.
LEMMA CallServed ==
    ASSUME NEW call \in EveryCall
    PROVE  /\ Serves(call) # {}
           /\ call.promise \in {"nothing", "body", "data"}
           /\ \A r \in Serves(call) :
                /\ r.body \in {"none", "bare", "data"}
                /\ call.promise = "body" => r.body = "bare"
                /\ call.promise = "data" => r.body = "data"
<1>1. Routed(call.verb, call.path)
  BY ProcessCallsRouted, DecisionCallsRouted, InstanceCallsRouted, EventCallsRouted DEF EveryCall
<1>2. Serves(call) # {}
  BY <1>1 DEF Routed, Serves
<1>3. \A r \in Serves(call) : /\ Reads(call.verb, call.path, r.body)
                              /\ r.body \in {"none", "bare", "data"}
  BY RoutesRead DEF Serves
<1>4. ReadsWhatItPromises(call)
  BY CallsRead
<1> QED BY <1>2, <1>3, <1>4 DEF Reads, ReadsWhatItPromises

-----------------------------------------------------------------------------
(* What the client makes of an answer                                      *)

Outcomes == {"none", "value", "nothing", "null", "page", "error", "fault"}

\* An error stays one whatever its status and its code.
LEMMA ErrorIs == \A e : Error(e).is = "error"
BY DEF Error, NoOutcome

LEMMA ValueIs == \A page : Value(page).is = "value" /\ Value(page).page = page
BY DEF Value, NoOutcome

LEMMA FaultIs == Fault.is = "fault"
BY DEF Fault, NoOutcome

\* What the transport makes of an answer.
LEMMA Handled ==
    ASSUME NEW a
    PROVE  /\ HandleResponse(a).is \in {"error", "nothing", "value", "fault"}
           /\ a.status \notin 200..299 => HandleResponse(a).is = "error"
           /\ a.status = 204 => HandleResponse(a).is = "nothing"
           /\ a.status = 200 /\ a.json = FALSE => HandleResponse(a).is = "fault"
           /\ a.status = 200 /\ a.json = TRUE => HandleResponse(a).is = "value"
<1>1. BodyError(a).is = "error"
  BY ErrorIs DEF BodyError
<1>2. [Value(a.page) EXCEPT !.body = a.body].is = "value"
  BY DEF Value, NoOutcome
<1>3. [NoOutcome EXCEPT !.is = "nothing"].is = "nothing"
  BY DEF NoOutcome
<1>4. CASE ~ Ok(a)
  BY <1>1, <1>4 DEF HandleResponse, Ok
<1>5. CASE Ok(a) /\ a.status = 204
  <2>1. HandleResponse(a) = [NoOutcome EXCEPT !.is = "nothing"]
    BY <1>5 DEF HandleResponse
  <2> QED BY <1>3, <1>5, <2>1 DEF Ok
<1>6. CASE Ok(a) /\ a.status # 204
  <2>1. HandleResponse(a) = IF a.json THEN [Value(a.page) EXCEPT !.body = a.body] ELSE Fault
    BY <1>6 DEF HandleResponse
  <2>2. CASE a.json = TRUE
    BY <1>2, <1>6, <2>1, <2>2 DEF Ok
  <2>3. CASE a.json # TRUE
    <3>1. a.json = FALSE => HandleResponse(a) = Fault
      BY <2>1
    <3>2. HandleResponse(a).is \in {"value", "fault"}
      BY <1>2, <2>1, FaultIs
    <3> QED BY <1>6, <2>3, <3>1, <3>2, FaultIs DEF Ok
  <2> QED BY <2>2, <2>3
<1> QED BY <1>4, <1>5, <1>6

\* What is read of an answer to a query without errors is no error.
LEMMA QueryRead ==
    ASSUME NEW kind \in Graphql, NEW a
    PROVE  QueryResult(kind, a).is \in {"page", "null", "value", "nothing"}
<1>1. /\ [NoOutcome EXCEPT !.is = "null"].is = "null" /\ Nothing.is = "nothing"
      /\ \A page : [Value(page) EXCEPT !.is = "page"].is = "page"
  BY DEF NoOutcome, Nothing, Value
<1> QED BY <1>1, ValueIs DEF QueryResult, ExecuteListQuery, ExecuteGetQuery, FirstOfList, Graphql

\* A method of a sub-client passes on what was thrown, takes no content for a
\* TypeError where it wants the data, and has no error otherwise.
LEMMA PromisedRead ==
    ASSUME NEW call \in CallsOf("call") \cup {NoCall}, NEW a
    PROVE  LET o == HandleResponse(a)
           IN  /\ o.is \in {"error", "fault"} => Promised(call, o) = o
               /\ o.is = "nothing" => Promised(call, o) = IF call.promise = "data" THEN Fault ELSE o
               /\ o.is = "value" => Promised(call, o).is \in {"value", "nothing"}
<1> DEFINE o == HandleResponse(a)
<1>1. call.promise \in {"nothing", "body", "data"}
  BY CallServed DEF CallsOf, NoCall, Asks
<1>2. o.is = "value" => o = [Value(a.page) EXCEPT !.body = a.body]
  BY ErrorIs, FaultIs DEF HandleResponse, BodyError, NoOutcome, Ok
<1>3. o.is = "value" => [o EXCEPT !.body = "bare"].is = "value"
  BY <1>2 DEF Value, NoOutcome
<1>4. Nothing.is = "nothing"
  BY DEF Nothing, NoOutcome
<1> HIDE DEF o
<1>5. /\ o.is \in {"error", "fault"} => Promised(call, o) = o
      /\ o.is = "nothing" => Promised(call, o) = IF call.promise = "data" THEN Fault ELSE o
  BY DEF Promised
<1>6. o.is = "value" => Promised(call, o).is \in {"value", "nothing"}
  BY <1>1, <1>3, <1>4 DEF Promised
<1> QED BY <1>5, <1>6 DEF o

\* Every answer comes to one of the outcomes.
LEMMA OutcomeTyped ==
    ASSUME NEW kind \in Kinds, NEW call \in CallsOf(kind) \cup {NoCall}, NEW a
    PROVE  OutcomeOf(kind, call, a).is \in Outcomes
<1>1. CASE a.by = "nobody"
  BY <1>1, FaultIs DEF OutcomeOf, Outcomes
<1>2. CASE a.by # "nobody" /\ kind \in Graphql
  <2>1. ThrowOnGraphqlErrors(a).is \in Outcomes
    BY ErrorIs, FaultIs DEF ThrowOnGraphqlErrors, Outcomes
  <2>2. QueryResult(kind, a).is \in Outcomes
    BY <1>2, QueryRead DEF Outcomes
  <2>3. GraphqlOutcome(kind, a).is \in Outcomes
    BY <2>1, <2>2, Handled, FaultIs DEF GraphqlOutcome, Outcomes
  <2> QED BY <1>2, <2>3 DEF OutcomeOf, Graphql
<1>3. CASE a.by # "nobody" /\ kind = "call"
  <2> DEFINE o == HandleResponse(a)
  <2>1. o.is \in {"error", "nothing", "value", "fault"}
    BY Handled
  <2>2. Promised(call, o).is \in Outcomes
    BY <1>3, <2>1, PromisedRead, FaultIs DEF Outcomes
  <2>3. OutcomeOf(kind, call, a) = Promised(call, o)
    BY <1>3 DEF OutcomeOf, Graphql
  <2> QED BY <2>2, <2>3
<1>4. CASE a.by # "nobody" /\ kind = "text"
  <2>1. GetText(a).is \in Outcomes
    BY ErrorIs, ValueIs DEF GetText, BodyError, NoOutcome, Outcomes
  <2> QED BY <1>4, <2>1 DEF OutcomeOf, Graphql
<1>5. CASE a.by # "nobody" /\ kind = "probe"
  <2>1. HeadProbe(a).is \in Outcomes
    BY ErrorIs DEF HeadProbe, NoOutcome, Outcomes
  <2> QED BY <1>5, <2>1 DEF OutcomeOf, Graphql
<1> QED BY <1>1, <1>2, <1>3, <1>4, <1>5 DEF Kinds

\* A refusal is thrown unless it looks like an answer to what was carried out.
LEMMA RefusalIsThrown ==
    ASSUME NEW kind \in Kinds, NEW call \in CallsOf(kind) \cup {NoCall}, NEW a,
           AnswerFits(kind, call, a), Refused(a)
    PROVE  OutcomeOf(kind, call, a).is \in {"error", "fault"} <=> ~ LooksCarriedOut(kind, call, a)
<1> DEFINE Thrown(o) == o.is \in {"error", "fault"}
           o == HandleResponse(a)
<1>1. CASE a.by = "nobody"
  <2>1. Thrown(OutcomeOf(kind, call, a))
    BY <1>1, FaultIs DEF OutcomeOf
  <2>2. ~ LooksCarriedOut(kind, call, a)
    BY <1>1 DEF LooksCarriedOut, AnswerFits
  <2> QED BY <2>1, <2>2
<1>2. CASE a.by # "nobody" /\ kind \in Graphql
  <2>1. OutcomeOf(kind, call, a) = GraphqlOutcome(kind, a)
    BY <1>2 DEF OutcomeOf, Graphql
  <2>2. LooksCarriedOut(kind, call, a) <=> a.by = "foreign" /\ Ok(a) /\ a.json
    BY <1>2 DEF LooksCarriedOut, AnswerFits, Graphql
  <2>3. CASE a.by = "graphql"
    <3>1. o.is = "value"
      BY <2>3, Handled DEF AnswerFits
    <3>2. GraphqlOutcome(kind, a) = ThrowOnGraphqlErrors(a)
      BY <2>3, <3>1 DEF GraphqlOutcome
    <3>3. Thrown(ThrowOnGraphqlErrors(a))
      BY ErrorIs, FaultIs DEF ThrowOnGraphqlErrors
    <3> QED BY <2>1, <2>2, <2>3, <3>2, <3>3
  <2>4. CASE a.by = "foreign" /\ a.status = 200 /\ a.json = TRUE
    <3>1. o.is = "value"
      BY <2>4, Handled
    <3>2. GraphqlOutcome(kind, a) = QueryResult(kind, a)
      BY <2>4, <3>1 DEF GraphqlOutcome
    <3>3. ~ Thrown(QueryResult(kind, a))
      BY <1>2, QueryRead
    <3> QED BY <2>1, <2>2, <2>4, <3>2, <3>3 DEF Ok
  <2>5. CASE a.by # "graphql" /\ ~ (a.by = "foreign" /\ a.status = 200 /\ a.json = TRUE)
    <3>1. /\ a.status \notin 200..299 \/ a.status = 204 \/ (a.status = 200 /\ a.json = FALSE)
          /\ ~ (a.by = "foreign" /\ Ok(a) /\ a.json)
      BY <1>2, <2>5 DEF AnswerFits, Refused, Graphql, Ok
    <3>2. o.is \in {"error", "fault", "nothing"}
      <4>1. CASE a.status \notin 200..299
        BY <4>1, Handled
      <4>2. CASE a.status = 204
        BY <4>2, Handled
      <4>3. CASE a.status = 200 /\ a.json = FALSE
        <5>1. o.is = "fault"
          BY <4>3, Handled
        <5> QED BY <5>1
      <4> QED BY <3>1, <4>1, <4>2, <4>3
    <3>3. Thrown(GraphqlOutcome(kind, a))
      BY <3>2, FaultIs DEF GraphqlOutcome
    <3> QED BY <2>1, <2>2, <3>1, <3>3
  <2> QED BY <2>3, <2>4, <2>5
<1>3. CASE a.by # "nobody" /\ kind = "call"
  <2>1. OutcomeOf(kind, call, a) = Promised(call, o)
    BY <1>3 DEF OutcomeOf, Graphql
  <2>2. LooksCarriedOut(kind, call, a) <=>
            \/ a.by = "failedRead" \/ (a.by = "foreign" /\ Ok(a) /\ a.json)
            \/ a.by = "foreign" /\ a.status = 204 /\ call.promise # "data"
    BY <1>3 DEF LooksCarriedOut
  <2>3. CASE a.status \notin 200..299
    <3>1. o.is = "error"
      BY <2>3, Handled
    <3>2. Thrown(Promised(call, o))
      BY <1>3, <3>1, PromisedRead
    <3> QED BY <2>1, <2>2, <2>3, <3>2 DEF AnswerFits, Ok
  <2>4. CASE a.status = 204
    <3>1. o.is = "nothing" /\ a.by = "foreign" /\ a.json = FALSE
      <4>1. a.by = "foreign"
        BY <1>3, <2>4 DEF AnswerFits, Refused, Graphql
      <4>2. a.json = FALSE
        BY <2>4, <4>1 DEF AnswerFits
      <4>3. o.is = "nothing"
        BY <2>4, Handled
      <4> QED BY <4>1, <4>2, <4>3
    <3>2. Thrown(Promised(call, o)) <=> call.promise = "data"
      BY <1>3, <3>1, PromisedRead, FaultIs
    <3> QED BY <2>1, <2>2, <2>4, <3>1, <3>2
  <2>5. CASE a.status = 200 /\ a.json = TRUE
    <3>1. o.is = "value" /\ a.by \in {"foreign", "failedRead"}
      BY <1>3, <2>5, Handled DEF AnswerFits, Refused, Graphql
    <3>2. ~ Thrown(Promised(call, o))
      BY <1>3, <3>1, PromisedRead
    <3> QED BY <2>1, <2>2, <2>5, <3>1, <3>2 DEF Ok
  <2>6. CASE a.status = 200 /\ a.json # TRUE
    <3>1. a.by = "foreign" /\ a.json = FALSE
      <4>1. a.by # "failedRead"
        BY <2>6 DEF AnswerFits
      <4>2. a.by = "foreign"
        BY <1>3, <2>6, <4>1 DEF AnswerFits, Refused, Graphql
      <4>3. a.json = FALSE
        BY <2>6, <4>2 DEF AnswerFits
      <4> QED BY <4>2, <4>3
    <3>2. o.is = "fault"
      BY <2>6, <3>1, Handled
    <3>3. Thrown(Promised(call, o))
      BY <1>3, <3>2, PromisedRead
    <3> QED BY <2>1, <2>2, <2>6, <3>1, <3>3
  <2>7. a.status \notin 200..299 \/ a.status = 200 \/ a.status = 204
    BY <1>3 DEF AnswerFits, Refused, Graphql
  <2> QED BY <2>3, <2>4, <2>5, <2>6, <2>7
<1>4. CASE a.by # "nobody" /\ kind = "text"
  <2>1. OutcomeOf(kind, call, a) = GetText(a)
    BY <1>4 DEF OutcomeOf, Graphql
  <2>2. LooksCarriedOut(kind, call, a) <=> a.status \in {200, 204, 404}
    BY <1>4 DEF LooksCarriedOut, AnswerFits, Graphql
  <2>3. a.status \in {200, 204, 404} \/ ~ Ok(a)
    BY <1>4 DEF AnswerFits, Refused, Ok, Graphql
  <2>4. a.status # 404 /\ ~ Ok(a) => Thrown(GetText(a))
    BY ErrorIs DEF GetText, BodyError
  <2>5. a.status \in {200, 204, 404} => ~ Thrown(GetText(a))
    BY ValueIs DEF GetText, Ok, NoOutcome
  <2>6. a.status \in {200, 204} => Ok(a)
    BY DEF Ok
  <2> QED BY <2>1, <2>2, <2>3, <2>4, <2>5, <2>6
<1>5. CASE a.by # "nobody" /\ kind = "probe"
  <2>1. OutcomeOf(kind, call, a) = HeadProbe(a)
    BY <1>5 DEF OutcomeOf, Graphql
  <2>2. LooksCarriedOut(kind, call, a) <=> a.status = 204
    BY <1>5 DEF LooksCarriedOut, AnswerFits, Graphql
  <2>3. Thrown(HeadProbe(a)) <=> a.status # 204
    BY ErrorIs DEF HeadProbe, NoOutcome
  <2> QED BY <2>1, <2>2, <2>3
<1> QED BY <1>1, <1>2, <1>3, <1>4, <1>5 DEF Kinds

\* An error that answers a refusal of the engine is what the caller is shown.
LEMMA RefusalOutcome ==
    ASSUME NEW kind \in Kinds, NEW call, NEW a \in RefusingAnswers(kind, call),
           AnswerFits(kind, call, a), a.by = "engine", kind # "probe",
           OutcomeOf(kind, call, a).is = "error"
    PROVE  /\ OutcomeOf(kind, call, a) = Error(MapResponseError(a.status, a.code))
           /\ Shown([status |-> a.status, code |-> a.code])
<1>1. PICK r \in RefusalsOf(kind, call) :
          a = [NoAnswer EXCEPT !.by = "engine", !.status = r.status, !.json = kind # "probe",
                               !.code = r.code]
  BY DEF RefusingAnswers
<1>2. a.status = r.status /\ a.code = r.code /\ a.json = TRUE
  BY <1>1 DEF NoAnswer
<1>3. Shown(r)
  BY RefusalsShown
<1>4. Shown([status |-> a.status, code |-> a.code])
  BY <1>2, <1>3 DEF Shown
<1>5. ~ Ok(a)
  BY DEF AnswerFits, Ok
<1>6. BodyError(a) = Error(MapResponseError(a.status, a.code))
  BY <1>2 DEF BodyError
<1>7. HandleResponse(a) = BodyError(a) /\ HandleResponse(a).is = "error"
  BY <1>5, ErrorIs DEF HandleResponse, BodyError
<1>8. CASE kind \in Graphql
  <2>1. GraphqlOutcome(kind, a) = HandleResponse(a)
    BY <1>7 DEF GraphqlOutcome
  <2> QED BY <1>4, <1>6, <1>7, <1>8, <2>1 DEF OutcomeOf, Graphql
<1>9. CASE kind = "call"
  <2>1. Promised(call, HandleResponse(a)) = HandleResponse(a)
    BY <1>7 DEF Promised
  <2> QED BY <1>4, <1>6, <1>7, <1>9, <2>1 DEF OutcomeOf, Graphql
<1>10. CASE kind = "text"
  <2>1. OutcomeOf(kind, call, a) = GetText(a)
    BY <1>10 DEF OutcomeOf, Graphql
  <2>2. a.status = 404 => GetText(a).is = "null"
    BY DEF GetText, NoOutcome
  <2>3. a.status # 404 => GetText(a) = BodyError(a)
    BY <1>5 DEF GetText
  <2> QED BY <1>4, <1>6, <2>1, <2>2, <2>3
<1> QED BY <1>8, <1>9, <1>10 DEF Kinds

\* A method that was carried out gives what it promises.
LEMMA CarriedOutcome ==
    ASSUME NEW call \in EveryCall, NEW a \in Carried(call), a.by = "success"
    PROVE  IF call.promise = "nothing" THEN OutcomeOf("call", call, a).is = "nothing"
           ELSE OutcomeOf("call", call, a).is = "value" /\ OutcomeOf("call", call, a).body = "bare"
<1> DEFINE o == HandleResponse(a)
<1>1. PICK r \in Serves(call) :
          a.json = (r.body # "none") /\ a.body = r.body
          /\ a.status = IF r.body = "none" THEN 204 ELSE 200
  BY DEF Carried, NoAnswer
<1>2. /\ r.body \in {"none", "bare", "data"} /\ call.promise \in {"nothing", "body", "data"}
      /\ call.promise = "body" => r.body = "bare"
      /\ call.promise = "data" => r.body = "data"
  BY CallServed
<1>3. OutcomeOf("call", call, a) = Promised(call, o)
  BY DEF OutcomeOf, Graphql
<1>4. [NoOutcome EXCEPT !.is = "nothing"].is = "nothing"
  BY DEF NoOutcome
<1>5. CASE r.body = "none"
  <2>1. a.status = 204 /\ Ok(a)
    BY <1>1, <1>5 DEF Ok
  <2>2. o.is = "nothing"
    BY <1>4, <2>1 DEF HandleResponse
  <2>3. call.promise = "nothing"
    BY <1>2, <1>5
  <2>4. Promised(call, o) = o
    BY <2>2, <2>3 DEF Promised
  <2> HIDE DEF o
  <2> QED BY <1>3, <2>2, <2>3, <2>4
<1>6. CASE r.body # "none"
  <2>1. a.status = 200 /\ Ok(a) /\ a.json = TRUE
    <3>1. (r.body # "none") = TRUE
      BY <1>6
    <3>2. a.json = TRUE
      BY <1>1, <3>1
    <3> QED BY <1>1, <1>6, <3>2 DEF Ok
  <2>2. o = [Value(a.page) EXCEPT !.body = a.body]
    BY <2>1 DEF HandleResponse
  <2>3. o.is = "value" /\ o.body = r.body /\ [o EXCEPT !.body = "bare"].is = "value"
        /\ [o EXCEPT !.body = "bare"].body = "bare"
    BY <1>1, <2>2 DEF Value, NoOutcome
  <2> HIDE DEF o
  <2>4. CASE call.promise = "nothing"
    BY <1>3, <1>4, <2>3, <2>4 DEF Promised, Nothing
  <2>5. CASE call.promise = "body"
    BY <1>2, <1>3, <2>3, <2>5 DEF Promised
  <2>6. CASE call.promise = "data"
    <3>1. Promised(call, o) = [o EXCEPT !.body = "bare"]
      BY <1>2, <2>3, <2>6 DEF Promised
    <3> QED BY <1>3, <2>3, <2>6, <3>1
  <2> QED BY <1>2, <2>4, <2>5, <2>6
<1> QED BY <1>5, <1>6

\* A page that the engine serves is read as one, and nothing else is but the
\* JSON of something else: an empty page, after which there is none.
LEMMA PageOutcome ==
    ASSUME NEW a, AnswerFits("page", NoCall, a),
           a.by = "success" => a.status = 200 /\ a.json = TRUE /\ a.body = "data"
    PROVE  /\ a.by = "success" => /\ OutcomeOf("page", NoCall, a).is = "page"
                                  /\ OutcomeOf("page", NoCall, a).page = a.page
           /\ a.by # "success" /\ OutcomeOf("page", NoCall, a).is = "page" =>
                 a.by = "foreign" /\ OutcomeOf("page", NoCall, a).page = NoPage
<1>2. /\ a.body = "data" => QueryResult("page", a) = [Value(a.page) EXCEPT !.is = "page"]
      /\ a.body # "data" => QueryResult("page", a) = [Value(NoPage) EXCEPT !.is = "page"]
  BY DEF QueryResult, ExecuteListQuery, BuildPageInfo
<1>3. a.by # "nobody" => OutcomeOf("page", NoCall, a) = GraphqlOutcome("page", a)
  BY DEF OutcomeOf, Graphql
<1>4. CASE a.by = "success"
  <2>1. HandleResponse(a).is = "value"
    BY <1>4, Handled
  <2>2. GraphqlOutcome("page", a) = QueryResult("page", a)
    BY <1>4, <2>1 DEF GraphqlOutcome
  <2>3. QueryResult("page", a) = [Value(a.page) EXCEPT !.is = "page"]
    BY <1>2, <1>4
  <2>4. OutcomeOf("page", NoCall, a) = [Value(a.page) EXCEPT !.is = "page"]
    BY <1>3, <1>4, <2>2, <2>3
  <2>5. OutcomeOf("page", NoCall, a).is = "page" /\ OutcomeOf("page", NoCall, a).page = a.page
    <3>1. /\ [Value(a.page) EXCEPT !.is = "page"].is = "page"
          /\ [Value(a.page) EXCEPT !.is = "page"].page = a.page
      BY DEF Value, NoOutcome
    <3> QED BY <2>4, <3>1
  <2> QED BY <1>4, <2>5
<1>5. CASE a.by # "success" /\ OutcomeOf("page", NoCall, a).is = "page"
  <2>1. "page" \in Kinds /\ "page" \in Graphql /\ Refused(a)
    BY <1>5 DEF Kinds, Graphql, Refused
  <2>2. LooksCarriedOut("page", NoCall, a)
    BY <1>5, <2>1, RefusalIsThrown
  <2>3. a.by = "foreign" /\ Ok(a) /\ a.json
    BY <2>2 DEF LooksCarriedOut, AnswerFits
  <2>4. a.status = 200 /\ a.json = TRUE /\ a.body # "data"
    BY <2>3 DEF AnswerFits, Ok
  <2>5. HandleResponse(a).is = "value"
    BY <2>4, Handled
  <2>6. GraphqlOutcome("page", a) = QueryResult("page", a)
    BY <2>3, <2>5 DEF GraphqlOutcome
  <2>7. OutcomeOf("page", NoCall, a) = [Value(NoPage) EXCEPT !.is = "page"]
    BY <1>2, <1>3, <2>3, <2>4, <2>6
  <2>8. OutcomeOf("page", NoCall, a).page = NoPage
    <3>1. [Value(NoPage) EXCEPT !.is = "page"].page = NoPage
      BY DEF Value, NoOutcome
    <3> QED BY <2>7, <3>1
  <2> QED BY <1>5, <2>3, <2>8
<1> QED BY <1>4, <1>5

-----------------------------------------------------------------------------
(* One request                                                             *)

\* What is known of the request under way and of the last outcome.
RequestKnown ==
    /\ request = [kind |-> request.kind, call |-> request.call, phase |-> request.phase,
                  answer |-> request.answer]
    /\ request.kind \in Kinds /\ request.call \in CallsOf(request.kind) \cup {NoCall}
    /\ request.phase \in {"idle", "token", "sent", "answered"}
    /\ AnswerFits(request.kind, request.call, request.answer)
    /\ AnswerGiven(request.kind, request.call, request.answer)
    /\ request.phase # "idle" => outcome = NoOutcome
    /\ outcome # NoOutcome => outcome = OutcomeOf(request.kind, request.call, request.answer)

\* A request that begins has no answer.
LEMMA IdleKnown ==
    /\ Idle.kind = "call" /\ Idle.call = NoCall /\ Idle.phase = "idle" /\ Idle.answer = NoAnswer
    /\ Idle = [kind |-> Idle.kind, call |-> Idle.call, phase |-> Idle.phase, answer |-> Idle.answer]
    /\ \A kind, call : AnswerFits(kind, call, NoAnswer) /\ AnswerGiven(kind, call, NoAnswer)
BY DEF Idle, NoAnswer, AnswerFits, AnswerGiven

LEMMA KnownInit == RequestInit => RequestKnown
BY IdleKnown DEF RequestInit, RequestKnown, Kinds

\* Every step of a request keeps it.
LEMMA KnownStep ==
    ASSUME RequestKnown, RequestNext
    PROVE  RequestKnown'
<1>1. ASSUME NEW kind \in Kinds, NEW call \in CallsOf(kind) \cup {NoCall}, Ask(kind, call)
      PROVE  RequestKnown'
  <2>1. request' = [Idle EXCEPT !.kind = kind, !.call = call, !.phase = "token"] /\ outcome' = NoOutcome
    BY <1>1 DEF Ask
  <2>2. /\ request'.kind = kind /\ request'.call = call /\ request'.phase = "token"
        /\ request'.answer = NoAnswer
        /\ request' = [kind |-> kind, call |-> call, phase |-> "token", answer |-> NoAnswer]
    BY <2>1 DEF Idle
  <2>3. AnswerFits(kind, call, NoAnswer) /\ AnswerGiven(kind, call, NoAnswer)
    BY IdleKnown
  <2> QED BY <2>1, <2>2, <2>3 DEF RequestKnown
<1>2. CASE AskForPage \/ \E kind \in Kinds : AskOnce(kind)
  BY <1>1, <1>2 DEF AskForPage, AskOnce, Kinds, Graphql
<1>3. CASE TokenFails
  <2>1. request' = Idle /\ outcome' = Fault
    BY <1>3 DEF TokenFails
  <2>2. OutcomeOf("call", NoCall, NoAnswer) = Fault
    BY DEF OutcomeOf, NoAnswer
  <2> QED BY <2>1, <2>2, IdleKnown DEF RequestKnown, Kinds
<1>4. CASE Send
  <2>1. /\ request'.kind = request.kind /\ request'.call = request.call
        /\ request'.answer = request.answer /\ request'.phase = "sent"
        /\ request' = [kind |-> request.kind, call |-> request.call, phase |-> "sent",
                       answer |-> request.answer]
    BY <1>4 DEF Send, RequestKnown
  <2> QED BY <1>4, <2>1 DEF Send, RequestKnown
<1>5. CASE Answer
  <2>1. PICK a \in AnswersTo(request.kind, request.call, OffsetArgument(walk.offset)) :
            request' = [request EXCEPT !.phase = "answered", !.answer = a]
    BY <1>5 DEF Answer
  <2>2. /\ request'.kind = request.kind /\ request'.call = request.call
        /\ request'.answer = a /\ request'.phase = "answered"
        /\ request' = [kind |-> request.kind, call |-> request.call, phase |-> "answered",
                       answer |-> a]
    BY <2>1 DEF RequestKnown
  <2>3. AnswerFits(request.kind, request.call, a) /\ AnswerGiven(request.kind, request.call, a)
    <3>1. PICK kind, call, offset : kind = request.kind /\ call = request.call
                                    /\ offset = OffsetArgument(walk.offset)
      OBVIOUS
    <3>2. AnswerFits(kind, call, a) /\ AnswerGiven(kind, call, a)
      BY <3>1, AnswersFit, AnswersGiven DEF RequestKnown
    <3> QED BY <3>1, <3>2
  <2>4. request.phase = "sent" /\ outcome' = outcome
    BY <1>5 DEF Answer
  <2> QED BY <2>2, <2>3, <2>4 DEF RequestKnown
<1>6. CASE Receive
  <2>1. /\ request'.kind = request.kind /\ request'.call = request.call
        /\ request'.answer = request.answer /\ request'.phase = "idle"
        /\ request' = [kind |-> request.kind, call |-> request.call, phase |-> "idle",
                       answer |-> request.answer]
    BY <1>6 DEF Receive, RequestKnown
  <2>2. outcome' = OutcomeOf(request.kind, request.call, request.answer)
    BY <1>6 DEF Receive
  <2> QED BY <2>1, <2>2 DEF RequestKnown
<1>7. CASE \/ \E i \in 1..(Len(rows) + 1) : InsertRow(i)
           \/ \E i \in DOMAIN rows : RemoveRow(i)
  BY <1>7 DEF InsertRow, RemoveRow, RequestKnown
<1> QED BY <1>2, <1>3, <1>4, <1>5, <1>6, <1>7 DEF RequestNext

\* So it is always known.
LEMMA RequestAlwaysKnown == Spec => []RequestKnown
<1>1. Init => RequestKnown
  BY KnownInit DEF Init
<1>2. RequestKnown /\ [Next]_vars => RequestKnown'
  <2> SUFFICES ASSUME RequestKnown, [Next]_vars PROVE RequestKnown'
    OBVIOUS
  <2>1. CASE RequestNext
    BY <2>1, KnownStep
  <2>2. CASE UNCHANGED requestVars
    BY <2>2 DEF requestVars, RequestKnown
  <2> QED BY <2>1, <2>2 DEF Next, vars
<1> QED BY <1>1, <1>2, PTL DEF Spec

\* Nothing that went wrong looks like a result but what the client cannot tell
\* from one, and that does.
THEOREM FailuresShow == Spec => []NoFailureLooksLikeAResult
<1>1. RequestKnown => NoFailureLooksLikeAResult
  <2> SUFFICES ASSUME RequestKnown, outcome # NoOutcome, Refused(request.answer)
               PROVE  outcome.is \in {"error", "fault"} <=>
                          ~ LooksCarriedOut(request.kind, request.call, request.answer)
    BY DEF NoFailureLooksLikeAResult, Received
  <2>1. PICK kind, call, a : kind = request.kind /\ call = request.call /\ a = request.answer
    OBVIOUS
  <2>2. /\ kind \in Kinds /\ call \in CallsOf(kind) \cup {NoCall}
        /\ AnswerFits(kind, call, a) /\ Refused(a) /\ outcome = OutcomeOf(kind, call, a)
    BY <2>1 DEF RequestKnown
  <2>3. OutcomeOf(kind, call, a).is \in {"error", "fault"} <=> ~ LooksCarriedOut(kind, call, a)
    BY <2>2, RefusalIsThrown
  <2> QED BY <2>1, <2>2, <2>3
<1> QED BY <1>1, RequestAlwaysKnown, PTL

\* mapResponseError shows the caller the status and the code of whatever the
\* controllers, the plugs and the renderer of the engine refuse with, but for
\* the codes hidden by a class and the four refusals shown with its status.
THEOREM RefusalsAreShown == Spec => []ErrorsAreTheAnswers
<1>1. RequestKnown => ErrorsAreTheAnswers
  <2> SUFFICES ASSUME RequestKnown, outcome.is = "error", request.answer.by = "engine",
                      request.kind # "probe"
               PROVE  ErrorsAreTheAnswers
    BY DEF ErrorsAreTheAnswers
  <2>1. PICK kind, call, a : kind = request.kind /\ call = request.call /\ a = request.answer
    OBVIOUS
  <2>2. outcome # NoOutcome
    BY DEF NoOutcome
  <2>3. /\ kind \in Kinds /\ AnswerFits(kind, call, a) /\ AnswerGiven(kind, call, a)
        /\ outcome = OutcomeOf(kind, call, a)
    BY <2>1, <2>2 DEF RequestKnown
  <2>4. /\ a \in RefusingAnswers(kind, call) /\ a.by = "engine" /\ kind # "probe"
        /\ OutcomeOf(kind, call, a).is = "error"
    BY <2>1, <2>3 DEF AnswerGiven
  <2>5. /\ outcome = Error(MapResponseError(a.status, a.code))
        /\ Shown([status |-> a.status, code |-> a.code])
    BY <2>3, <2>4, RefusalOutcome
  <2>6. /\ outcome.status = MapResponseError(a.status, a.code).status
        /\ outcome.code = MapResponseError(a.status, a.code).code
    BY <2>5 DEF Error, NoOutcome
  <2> QED BY <2>1, <2>5, <2>6 DEF ErrorsAreTheAnswers, Shown
<1> QED BY <1>1, RequestAlwaysKnown, PTL

\* Every method of every sub-client has a route of the router, and when the
\* controller carried it out the caller is given what the method's type says.
THEOREM MethodsAreServed == Spec => []CallsGiveWhatTheyPromise
<1>1. RequestKnown => CallsGiveWhatTheyPromise
  <2> SUFFICES ASSUME RequestKnown, request.kind = "call", request.call # NoCall
               PROVE  CallsGiveWhatTheyPromise
    BY DEF CallsGiveWhatTheyPromise
  <2>1. PICK call, a : call = request.call /\ a = request.answer
    OBVIOUS
  <2>2. /\ call \in EveryCall /\ AnswerGiven("call", call, a)
        /\ outcome # NoOutcome => outcome = OutcomeOf("call", call, a)
    BY <2>1 DEF RequestKnown, CallsOf
  <2>3. Serves(call) # {}
    BY <2>2, CallServed
  <2>4. outcome # NoOutcome /\ a.by = "success" =>
            IF call.promise = "nothing" THEN outcome.is = "nothing"
            ELSE outcome.is = "value" /\ outcome.body = "bare"
    BY <2>2, CarriedOutcome DEF AnswerGiven
  <2> QED BY <2>1, <2>3, <2>4 DEF CallsGiveWhatTheyPromise, Received
<1> QED BY <1>1, RequestAlwaysKnown, PTL

-----------------------------------------------------------------------------
(* The list and the pages read of it                                       *)

\* A list with an entry more at a place.
LEMMA WithEntry ==
    ASSUME NEW S, NEW q \in Seq(S), NEW i \in 1..(Len(q) + 1), NEW x \in S
    PROVE  /\ InsertAt(q, i, x) \in Seq(S)
           /\ Len(InsertAt(q, i, x)) = Len(q) + 1
           /\ \A j \in 1..(Len(q) + 1) :
                InsertAt(q, i, x)[j] = IF j < i THEN q[j] ELSE IF j = i THEN x ELSE q[j - 1]
<1> DEFINE before == SubSeq(q, 1, i - 1)
           after == SubSeq(q, i, Len(q))
<1>1. before \in Seq(S) /\ Len(before) = i - 1 /\ \A j \in 1..(i - 1) : before[j] = q[j]
  OBVIOUS
<1>2. /\ after \in Seq(S) /\ Len(after) = Len(q) - i + 1
      /\ \A j \in 1..(Len(q) - i + 1) : after[j] = q[i + j - 1]
  OBVIOUS
<1>3. <<x>> \in Seq(S) /\ Len(<<x>>) = 1 /\ <<x>>[1] = x
  OBVIOUS
<1>4. InsertAt(q, i, x) = before \o <<x>> \o after
  BY DEF InsertAt
<1> HIDE DEF before, after
<1>5. /\ before \o <<x>> \in Seq(S) /\ Len(before \o <<x>>) = i
      /\ \A j \in 1..i : (before \o <<x>>)[j] = IF j < i THEN q[j] ELSE x
  BY <1>1, <1>3
<1>6. /\ before \o <<x>> \o after \in Seq(S) /\ Len(before \o <<x>> \o after) = Len(q) + 1
      /\ \A j \in 1..(Len(q) + 1) :
           (before \o <<x>> \o after)[j] =
              IF j <= i THEN (before \o <<x>>)[j] ELSE after[j - i]
  <2>1. PICK front : front = before \o <<x>>
    OBVIOUS
  <2>2. front \in Seq(S) /\ Len(front) = i
    BY <1>5, <2>1
  <2>4. Len(front) + Len(after) = Len(q) + 1 /\ Len(q) \in Nat
    BY <1>2, <2>2
  <2>3. /\ front \o after \in Seq(S) /\ Len(front \o after) = Len(front) + Len(after)
        /\ \A j \in 1..(Len(front) + Len(after)) :
             (front \o after)[j] = IF j <= Len(front) THEN front[j] ELSE after[j - Len(front)]
    BY <1>2, <2>2, ConcatProperties
  <2> QED BY <2>1, <2>2, <2>3, <2>4
<1>7. \A j \in 1..(Len(q) + 1) : j > i => j - i \in 1..(Len(q) - i + 1) /\ i + (j - i) - 1 = j - 1
  OBVIOUS
<1>8. ASSUME NEW j \in 1..(Len(q) + 1)
      PROVE  InsertAt(q, i, x)[j] = IF j < i THEN q[j] ELSE IF j = i THEN x ELSE q[j - 1]
  <2>1. PICK whole : whole = before \o <<x>> \o after
    OBVIOUS
  <2>2. PICK front : front = before \o <<x>>
    OBVIOUS
  <2>3. whole[j] = IF j <= i THEN front[j] ELSE after[j - i]
    BY <1>6, <2>1, <2>2
  <2>4. j \in Nat /\ i \in Nat /\ Len(q) \in Nat
    OBVIOUS
  <2>5. CASE j <= i
    <3>1. j \in 1..i
      BY <2>4, <2>5
    <3>2. front[j] = IF j < i THEN q[j] ELSE x
      BY <1>5, <2>2, <3>1
    <3>3. j < i \/ (j = i /\ ~ (j < i))
      BY <2>4, <2>5
    <3> QED BY <1>4, <2>1, <2>3, <2>5, <3>2, <3>3
  <2>6. CASE ~ (j <= i)
    <3>1. j > i /\ ~ (j < i) /\ j # i
      BY <2>4, <2>6
    <3>2. j - i \in 1..(Len(q) - i + 1) /\ i + (j - i) - 1 = j - 1
      BY <1>7, <3>1
    <3>3. after[j - i] = q[j - 1]
      BY <1>2, <3>2
    <3> QED BY <1>4, <2>1, <2>3, <2>6, <3>1, <3>3
  <2> QED BY <2>5, <2>6
<1> QED BY <1>4, <1>6, <1>8

\* A list without the entry at a place.
LEMMA WithoutEntry ==
    ASSUME NEW S, NEW q \in Seq(S), NEW i \in 1..Len(q)
    PROVE  /\ RemoveAt(q, i) \in Seq(S)
           /\ Len(RemoveAt(q, i)) = Len(q) - 1
           /\ \A j \in 1..(Len(q) - 1) : RemoveAt(q, i)[j] = IF j < i THEN q[j] ELSE q[j + 1]
<1> DEFINE before == SubSeq(q, 1, i - 1)
           after == SubSeq(q, i + 1, Len(q))
<1>1. before \in Seq(S) /\ Len(before) = i - 1 /\ \A j \in 1..(i - 1) : before[j] = q[j]
  OBVIOUS
<1>2. /\ after \in Seq(S) /\ Len(after) = Len(q) - i
      /\ \A j \in 1..(Len(q) - i) : after[j] = q[i + j]
  OBVIOUS
<1>3. RemoveAt(q, i) = before \o after
  BY DEF RemoveAt
<1> HIDE DEF before, after
<1>4. /\ before \o after \in Seq(S) /\ Len(before \o after) = Len(q) - 1
      /\ \A j \in 1..(Len(q) - 1) :
           (before \o after)[j] = IF j < i THEN before[j] ELSE after[j - i + 1]
  <2>1. /\ before \o after \in Seq(S) /\ Len(before \o after) = Len(before) + Len(after)
        /\ \A j \in 1..(Len(before) + Len(after)) :
             (before \o after)[j] = IF j <= Len(before) THEN before[j] ELSE after[j - Len(before)]
    BY <1>1, <1>2, ConcatProperties
  <2>2. Len(before) + Len(after) = Len(q) - 1 /\ Len(before) = i - 1
    BY <1>1, <1>2
  <2>3. \A j \in 1..(Len(q) - 1) : (j <= i - 1 <=> j < i) /\ j - (i - 1) = j - i + 1
    OBVIOUS
  <2> QED BY <2>1, <2>2, <2>3
<1>5. \A j \in 1..(Len(q) - 1) : j >= i => j - i + 1 \in 1..(Len(q) - i) /\ i + (j - i + 1) = j + 1
  OBVIOUS
<1>6. \A j \in 1..(Len(q) - 1) : j < i => j \in 1..(i - 1)
  OBVIOUS
<1>7. \A j \in 1..(Len(q) - 1) : j >= i => after[j - i + 1] = q[j + 1]
  BY <1>2, <1>5
<1>8. \A j \in 1..(Len(q) - 1) : RemoveAt(q, i)[j] = IF j < i THEN q[j] ELSE q[j + 1]
  BY <1>1, <1>3, <1>4, <1>6, <1>7
<1> QED BY <1>3, <1>4, <1>8

\* The rows are distinct, and are those made and not removed.
ListSound ==
    /\ made \in InitialRows..MaxRows /\ rows \in Seq(1..made)
    /\ \A i, j \in DOMAIN rows : rows[i] = rows[j] => i = j
    /\ Range(rows) = (1..made) \ gone /\ gone \subseteq 1..made

\* A page that was served and not yet taken in.
PageServed ==
    request.kind = "page" /\ request.phase = "answered" /\ request.answer.by = "success"

PageKnown ==
    /\ walk \in [state : {"before", "going", "complete", "stopped", "failed"}, offset : Nat,
                 pages : Nat, seen : Seq(1..made)]
    /\ request.kind = "page" /\ request.phase # "idle" =>
          request.call = NoCall /\ walk.state = "going"
    /\ PageServed => /\ request.answer.status = 200 /\ request.answer.json = TRUE
                     /\ request.answer.body = "data"
                     /\ request.answer.page.rows \in Seq(1..made)
                     /\ request.answer.page.more \in BOOLEAN

\* The rows served so far, also by a page on its way, and the rows ahead: those
\* behind the place where the next page begins.
Served == IF PageServed THEN request.answer.page.rows ELSE <<>>
Read == Range(walk.seen) \cup Range(Served)
Reached == IF PageServed THEN walk.offset + PageLimit ELSE walk.offset
LastServed == walk.state = "complete" \/ (PageServed /\ request.answer.page.more = FALSE)
Ahead == {rows[i] : i \in {j \in DOMAIN rows : ~ LastServed /\ j > Reached}}

\* The rows of the beginning that are there, not read and no longer ahead.
Skipped == ((1..InitialRows) \ gone) \ (Ahead \cup Read)

\* A row is skipped only for one that was removed, and read or to be read again
\* only for one that was inserted.
WalkSound ==
    /\ Cardinality(Skipped) <= Cardinality(gone)
    /\ Len(walk.seen) + Len(Served) + Cardinality(Ahead \cap Read)
          <= Cardinality(Read) + (made - InitialRows)

\* The numbers of the rows are finite sets.
LEMMA RowsFinite ==
    ASSUME ListSound, PageKnown
    PROVE  /\ Read \subseteq 1..made /\ Ahead \subseteq 1..made /\ Skipped \subseteq 1..made
           /\ IsFiniteSet(Read) /\ IsFiniteSet(Ahead) /\ IsFiniteSet(Skipped) /\ IsFiniteSet(gone)
           /\ IsFiniteSet(Ahead \cap Read)
           /\ Len(walk.seen) \in Nat /\ Len(Served) \in Nat /\ InitialRows \in Nat
           /\ Served \in Seq(1..made) /\ Reached \in Nat
<1>1. InitialRows \in Nat /\ made \in Nat /\ PageLimit \in Nat /\ InitialRows <= made
  BY RequestAssumption DEF ListSound
<1>2. walk.seen \in Seq(1..made) /\ Served \in Seq(1..made) /\ walk.offset \in Nat
  <2>1. walk.seen \in Seq(1..made) /\ walk.offset \in Nat
    BY DEF PageKnown
  <2>2. CASE PageServed
    BY <2>1, <2>2 DEF PageKnown, Served
  <2>3. CASE ~ PageServed
    BY <2>1, <2>3 DEF Served
  <2> QED BY <2>1, <2>2, <2>3
<1>3. Reached \in Nat
  BY <1>1, <1>2 DEF Reached
<1>4. Read \subseteq 1..made
  <2>1. \A q \in Seq(1..made) : Range(q) \subseteq 1..made
    BY Entry DEF Range
  <2> QED BY <1>2, <2>1 DEF Read
<1>5. Ahead \subseteq 1..made
  BY DEF Ahead, ListSound
<1>6. Skipped \subseteq 1..made
  BY <1>1 DEF Skipped
<1>7. IsFiniteSet(1..made)
  BY <1>1, FS_Interval
<1>8. \A S \in SUBSET (1..made) : IsFiniteSet(S)
  BY <1>7, FS_Subset
<1> QED BY <1>1, <1>2, <1>3, <1>4, <1>5, <1>6, <1>8 DEF ListSound

\* The walk stays sound when no more is skipped and no more rows come again.
LEMMA WalkKept ==
    ASSUME ListSound, PageKnown, WalkSound, ListSound', PageKnown',
           Read' = Read, made' = made, gone' = gone, Ahead' = Ahead,
           Len(walk'.seen) + Len(Served') = Len(walk.seen) + Len(Served)
    PROVE  WalkSound'
BY DEF WalkSound, Skipped
\* A row that is inserted moves at most one row behind the place where the next
\* page begins.
LEMMA InsertMoves ==
    ASSUME ListSound, PageKnown, NEW i \in 1..(Len(rows) + 1), InsertRow(i)
    PROVE  /\ ListSound' /\ gone' = gone /\ made' = made + 1
           /\ Ahead \subseteq Ahead' /\ \E x : Ahead' \subseteq Ahead \cup {x}
<1>1. /\ made' = made + 1 /\ made < MaxRows /\ gone' = gone /\ rows' = InsertAt(rows, i, made + 1)
      /\ request' = request /\ walk' = walk
  BY DEF InsertRow
<1>2. /\ made \in Nat /\ rows \in Seq(1..made) /\ InitialRows \in Nat /\ MaxRows \in Nat
      /\ InitialRows <= made /\ Len(rows) \in Nat /\ DOMAIN rows = 1..Len(rows)
  BY RequestAssumption DEF ListSound
<1>3. rows \in Seq(1..(made + 1)) /\ made + 1 \in 1..(made + 1)
  <2>1. 1..made \subseteq 1..(made + 1)
    BY <1>2
  <2> QED BY <1>2, <2>1, Wider
<1>4. /\ rows' \in Seq(1..(made + 1)) /\ Len(rows') = Len(rows) + 1
      /\ \A j \in 1..(Len(rows) + 1) :
           rows'[j] = IF j < i THEN rows[j] ELSE IF j = i THEN made + 1 ELSE rows[j - 1]
  <2>1. PICK q, x, S : q = rows /\ x = made + 1 /\ S = 1..(made + 1)
    OBVIOUS
  <2>2. /\ InsertAt(q, i, x) \in Seq(S) /\ Len(InsertAt(q, i, x)) = Len(q) + 1
        /\ \A j \in 1..(Len(q) + 1) :
             InsertAt(q, i, x)[j] = IF j < i THEN q[j] ELSE IF j = i THEN x ELSE q[j - 1]
    <3>1. q \in Seq(S) /\ x \in S /\ i \in 1..(Len(q) + 1)
      BY <1>3, <2>1
    <3> QED BY <3>1, WithEntry
  <2> QED BY <1>1, <2>1, <2>2
<1>5. DOMAIN rows' = 1..(Len(rows) + 1)
  BY <1>4
<1>6. \A j \in DOMAIN rows : rows[j] \in 1..made
  BY <1>2
\* Where a row of the list goes to.
<1>7. \A j \in DOMAIN rows : /\ IF j < i THEN j \in DOMAIN rows' /\ rows'[j] = rows[j]
                                ELSE j + 1 \in DOMAIN rows' /\ rows'[j + 1] = rows[j]
  BY <1>2, <1>4, <1>5
\* Where a row comes from.
<1>8. \A j \in DOMAIN rows' : \/ j = i /\ rows'[j] = made + 1
                              \/ j < i /\ j \in DOMAIN rows /\ rows'[j] = rows[j]
                              \/ j > i /\ j - 1 \in DOMAIN rows /\ rows'[j] = rows[j - 1]
  <2> TAKE j \in DOMAIN rows'
  <2>1. j \in 1..(Len(rows) + 1) /\ i \in 1..(Len(rows) + 1)
    BY <1>5
  <2>2. rows'[j] = IF j < i THEN rows[j] ELSE IF j = i THEN made + 1 ELSE rows[j - 1]
    BY <1>4, <2>1
  <2>3. (j < i => j \in DOMAIN rows) /\ (j > i => j - 1 \in DOMAIN rows)
    BY <1>2, <2>1
  <2>4. j < i \/ j = i \/ (j > i /\ j # i /\ ~ (j < i))
    BY <1>2, <2>1
  <2> QED BY <2>2, <2>3, <2>4
<1>9. \A j, k \in DOMAIN rows' : rows'[j] = rows'[k] => j = k
  <2> SUFFICES ASSUME NEW j \in DOMAIN rows', NEW k \in DOMAIN rows', rows'[j] = rows'[k] PROVE j = k
    OBVIOUS
  <2>1. j \in Nat /\ k \in Nat /\ i \in Nat
    BY <1>2, <1>5
  <2>2. \A a, b \in DOMAIN rows : rows[a] = rows[b] => a = b
    BY DEF ListSound
  <2>3. made + 1 \notin 1..made
    BY <1>2
  <2>4. CASE j = i \/ k = i
    BY <1>6, <1>8, <2>1, <2>3, <2>4
  <2>5. CASE j # i /\ k # i
    <3>1. PICK a \in {j, j - 1} : a \in DOMAIN rows /\ rows'[j] = rows[a] /\ (a = j <=> j < i)
      BY <1>8, <2>1, <2>5
    <3>2. PICK b \in {k, k - 1} : b \in DOMAIN rows /\ rows'[k] = rows[b] /\ (b = k <=> k < i)
      BY <1>8, <2>1, <2>5
    <3>3. a = b
      BY <2>2, <3>1, <3>2
    <3> QED BY <2>1, <2>5, <3>1, <3>2, <3>3
  <2> QED BY <2>4, <2>5
<1>10. Range(rows') = (1..(made + 1)) \ gone
  <2>1. Range(rows') = Range(rows) \cup {made + 1}
    <3>1. ASSUME NEW j \in DOMAIN rows PROVE rows[j] \in Range(rows')
      BY <1>7 DEF Range
    <3>2. made + 1 \in Range(rows')
      <4>1. i \in DOMAIN rows' /\ rows'[i] = made + 1
        BY <1>4, <1>5
      <4> QED BY <4>1 DEF Range
    <3>3. ASSUME NEW j \in DOMAIN rows' PROVE rows'[j] \in Range(rows) \cup {made + 1}
      BY <1>8 DEF Range
    <3> QED BY <3>1, <3>2, <3>3 DEF Range
  <2> QED BY <1>2, <2>1 DEF ListSound
<1>11. ListSound'
  BY <1>1, <1>2, <1>4, <1>9, <1>10 DEF ListSound
<1>12. Reached' = Reached /\ LastServed' = LastServed /\ Reached \in Nat
  BY <1>1, RowsFinite DEF Reached, LastServed, PageServed
<1>13. Ahead \subseteq Ahead'
  <2> SUFFICES ASSUME NEW j \in DOMAIN rows, ~ LastServed, j > Reached PROVE rows[j] \in Ahead'
    BY DEF Ahead
  <2>1. PICK k \in DOMAIN rows' : rows'[k] = rows[j] /\ k >= j
    BY <1>2, <1>7
  <2> QED BY <1>2, <1>5, <1>12, <2>1 DEF Ahead
<1>14. \E x : Ahead' \subseteq Ahead \cup {x}
  <2>1. CASE i > Reached
    <3>1. Ahead' \subseteq Ahead \cup {made + 1}
      <4> SUFFICES ASSUME NEW j \in DOMAIN rows', ~ LastServed', j > Reached'
                   PROVE  rows'[j] \in Ahead \cup {made + 1}
        BY DEF Ahead
      <4>1. ~ LastServed /\ j > Reached /\ j \in Nat /\ i \in Nat
        BY <1>2, <1>5, <1>12
      <4>2. CASE j = i /\ rows'[j] = made + 1
        BY <4>2
      <4>3. CASE j < i /\ j \in DOMAIN rows /\ rows'[j] = rows[j]
        BY <4>1, <4>3 DEF Ahead
      <4>4. CASE j > i /\ j - 1 \in DOMAIN rows /\ rows'[j] = rows[j - 1]
        <5>1. j - 1 > Reached
          BY <1>12, <2>1, <4>1, <4>4
        <5>2. rows[j - 1] \in Ahead
          BY <4>1, <4>4, <5>1 DEF Ahead
        <5> QED BY <4>4, <5>2
      <4> QED BY <1>8, <4>2, <4>3, <4>4
    <3> QED BY <3>1
  \* The row at the end of what was reached is pushed behind it.
  <2>2. CASE i <= Reached
    <3> DEFINE x == rows[Reached]
    <3>1. Ahead' \subseteq Ahead \cup {x}
      <4> SUFFICES ASSUME NEW j \in DOMAIN rows', ~ LastServed', j > Reached'
                   PROVE  rows'[j] \in Ahead \cup {rows[Reached]}
        BY DEF Ahead
      <4>1. j > i /\ j - 1 \in DOMAIN rows /\ rows'[j] = rows[j - 1] /\ j \in Nat
        BY <1>2, <1>5, <1>8, <1>12, <2>2
      <4>2. j - 1 = Reached \/ j - 1 > Reached
        BY <1>12, <4>1
      <4> QED BY <1>12, <4>1, <4>2 DEF Ahead
    <3> HIDE DEF x
    <3> QED BY <3>1
  <2>3. i > Reached \/ i <= Reached
    BY <1>2, <1>12
  <2> QED BY <2>1, <2>2, <2>3
<1> QED BY <1>1, <1>11, <1>13, <1>14

\* A row that is removed moves at most one row in front of it.
LEMMA RemoveMoves ==
    ASSUME ListSound, PageKnown, NEW i \in DOMAIN rows, RemoveRow(i)
    PROVE  /\ ListSound' /\ made' = made /\ rows[i] \notin gone /\ gone' = gone \cup {rows[i]}
           /\ \E x : Ahead \ {x} \subseteq Ahead' /\ Ahead' \subseteq Ahead
<1>1. /\ made' = made /\ gone' = gone \cup {rows[i]} /\ rows' = RemoveAt(rows, i)
      /\ request' = request /\ walk' = walk
  BY DEF RemoveRow
<1>2. /\ made \in Nat /\ rows \in Seq(1..made) /\ Len(rows) \in Nat /\ DOMAIN rows = 1..Len(rows)
      /\ i \in 1..Len(rows)
  BY RequestAssumption DEF ListSound
<1>3. /\ rows' \in Seq(1..made) /\ Len(rows') = Len(rows) - 1
      /\ \A j \in 1..(Len(rows) - 1) : rows'[j] = IF j < i THEN rows[j] ELSE rows[j + 1]
  <2>1. PICK q : q = rows
    OBVIOUS
  <2>2. /\ RemoveAt(q, i) \in Seq(1..made) /\ Len(RemoveAt(q, i)) = Len(q) - 1
        /\ \A j \in 1..(Len(q) - 1) : RemoveAt(q, i)[j] = IF j < i THEN q[j] ELSE q[j + 1]
    BY <1>2, <2>1, WithoutEntry
  <2> QED BY <1>1, <2>1, <2>2
<1>4. DOMAIN rows' = 1..(Len(rows) - 1)
  BY <1>2, <1>3
<1>5. \A j \in DOMAIN rows \ {i} : IF j < i THEN j \in DOMAIN rows' /\ rows'[j] = rows[j]
                                   ELSE j - 1 \in DOMAIN rows' /\ rows'[j - 1] = rows[j]
  <2> TAKE j \in DOMAIN rows \ {i}
  <2>1. j \in 1..Len(rows) /\ j # i
    BY <1>2
  <2>2. CASE j < i
    BY <1>2, <1>3, <1>4, <2>1, <2>2
  <2>3. CASE ~ (j < i)
    <3>1. j - 1 \in 1..(Len(rows) - 1) /\ ~ (j - 1 < i) /\ (j - 1) + 1 = j
      BY <1>2, <2>1, <2>3
    <3>2. rows'[j - 1] = rows[(j - 1) + 1]
      BY <1>3, <3>1
    <3> QED BY <1>4, <2>3, <3>1, <3>2
  <2> QED BY <2>2, <2>3
<1>6. \A j \in DOMAIN rows' : \/ j < i /\ j \in DOMAIN rows /\ rows'[j] = rows[j]
                              \/ j >= i /\ j + 1 \in DOMAIN rows /\ rows'[j] = rows[j + 1]
  <2> TAKE j \in DOMAIN rows'
  <2>1. j \in 1..(Len(rows) - 1) /\ j \in DOMAIN rows /\ j + 1 \in DOMAIN rows
    BY <1>2, <1>4
  <2>2. rows'[j] = IF j < i THEN rows[j] ELSE rows[j + 1]
    BY <1>3, <2>1
  <2>3. j < i \/ (j >= i /\ ~ (j < i))
    BY <1>2, <2>1
  <2> QED BY <2>1, <2>2, <2>3
<1>7. \A j, k \in DOMAIN rows' : rows'[j] = rows'[k] => j = k
  <2> SUFFICES ASSUME NEW j \in DOMAIN rows', NEW k \in DOMAIN rows', rows'[j] = rows'[k] PROVE j = k
    OBVIOUS
  <2>1. j \in Nat /\ k \in Nat /\ i \in Nat
    BY <1>2, <1>4
  <2>2. \A a, b \in DOMAIN rows : rows[a] = rows[b] => a = b
    BY DEF ListSound
  <2>3. PICK a \in {j, j + 1} : a \in DOMAIN rows /\ rows'[j] = rows[a] /\ (a = j <=> j < i)
    BY <1>6, <2>1
  <2>4. PICK b \in {k, k + 1} : b \in DOMAIN rows /\ rows'[k] = rows[b] /\ (b = k <=> k < i)
    BY <1>6, <2>1
  <2>5. a = b
    BY <2>2, <2>3, <2>4
  <2> QED BY <2>1, <2>3, <2>4, <2>5
<1>8. Range(rows') = Range(rows) \ {rows[i]}
  <2>1. ASSUME NEW j \in DOMAIN rows, rows[j] # rows[i] PROVE rows[j] \in Range(rows')
    BY <1>5, <2>1 DEF Range
  <2>2. ASSUME NEW j \in DOMAIN rows' PROVE rows'[j] \in Range(rows) \ {rows[i]}
    <3>1. PICK k \in DOMAIN rows : rows'[j] = rows[k] /\ k # i
      BY <1>2, <1>4, <1>6
    <3> QED BY <3>1 DEF Range, ListSound
  <2> QED BY <2>1, <2>2 DEF Range
<1>9. rows[i] \in (1..made) \ gone
  BY DEF ListSound, Range
<1>10. ListSound'
  <2>1. made \in InitialRows..MaxRows /\ gone' \subseteq 1..made
    BY <1>1, <1>9 DEF ListSound
  <2>2. Range(rows') = (1..made) \ gone'
    BY <1>1, <1>8 DEF ListSound
  <2> QED BY <1>1, <1>3, <1>7, <2>1, <2>2 DEF ListSound
<1>11. Reached' = Reached /\ LastServed' = LastServed /\ Reached \in Nat
  BY <1>1, RowsFinite DEF Reached, LastServed, PageServed
<1>12. Ahead' \subseteq Ahead
  <2> SUFFICES ASSUME NEW j \in DOMAIN rows', ~ LastServed', j > Reached' PROVE rows'[j] \in Ahead
    BY DEF Ahead
  <2>1. PICK k \in DOMAIN rows : rows'[j] = rows[k] /\ k >= j
    BY <1>2, <1>4, <1>6
  <2> QED BY <1>2, <1>4, <1>11, <2>1 DEF Ahead
<1>13. \E x : Ahead \ {x} \subseteq Ahead'
  <2>1. CASE i > Reached
    <3>1. Ahead \ {rows[i]} \subseteq Ahead'
      <4> SUFFICES ASSUME NEW j \in DOMAIN rows, ~ LastServed, j > Reached, rows[j] # rows[i]
                   PROVE  rows[j] \in Ahead'
        BY DEF Ahead
      <4>3. j # i /\ j \in Nat /\ i \in Nat
        BY <1>2
      <4>1. PICK k \in DOMAIN rows' : rows'[k] = rows[j] /\ k >= j - 1 /\ (k = j \/ k >= i)
        BY <1>5, <4>3
      <4>2. k > Reached
        BY <1>2, <1>4, <1>11, <2>1, <4>1
      <4> QED BY <1>11, <4>1, <4>2 DEF Ahead
    <3> QED BY <3>1
  \* The row behind the end of what was reached comes in front of it.
  <2>2. CASE i <= Reached
    <3> DEFINE x == rows[Reached + 1]
    <3>1. Ahead \ {x} \subseteq Ahead'
      <4> SUFFICES ASSUME NEW j \in DOMAIN rows, ~ LastServed, j > Reached, rows[j] # x
                   PROVE  rows[j] \in Ahead'
        BY DEF Ahead
      <4>1. j \in Nat /\ j > Reached + 1 /\ j > i
        BY <1>2, <1>11, <2>2
      <4>2. j \in DOMAIN rows \ {i} /\ ~ (j < i) /\ j - 1 > Reached
        BY <1>2, <1>11, <4>1
      <4>3. j - 1 \in DOMAIN rows' /\ rows'[j - 1] = rows[j]
        BY <1>5, <4>2
      <4> QED BY <1>11, <4>2, <4>3 DEF Ahead
    <3> HIDE DEF x
    <3> QED BY <3>1
  <2>3. i > Reached \/ i <= Reached
    BY <1>2, <1>11
  <2> QED BY <2>1, <2>2, <2>3
<1> QED BY <1>1, <1>9, <1>10, <1>12, <1>13
\* A list of distinct entries is as long as the set of its entries.
LEMMA DistinctLength ==
    ASSUME NEW S, NEW q \in Seq(S), \A i, j \in DOMAIN q : q[i] = q[j] => i = j
    PROVE  IsFiniteSet(Range(q)) /\ Cardinality(Range(q)) = Len(q)
<1>1. Len(q) \in Nat /\ DOMAIN q = 1..Len(q)
  OBVIOUS
<1>2. q \in Bijection(1..Len(q), Range(q))
  <2>1. q \in [1..Len(q) -> Range(q)]
    BY <1>1 DEF Range
  <2>2. \A x \in Range(q) : \E i \in 1..Len(q) : q[i] = x
    BY <1>1 DEF Range
  <2> QED BY <1>1, <2>1, <2>2 DEF Bijection, Injection, Surjection, IsInjective
<1>3. ExistsBijection(1..Len(q), Range(q))
  BY <1>2 DEF ExistsBijection
<1>4. IsFiniteSet(1..Len(q)) /\ Cardinality(1..Len(q)) = Len(q)
  BY <1>1, FS_Interval
<1> QED BY <1>3, <1>4, FS_Bijection

\* The page at an offset: the next rows of the list, and whether some are left.
LEMMA PageRows ==
    ASSUME ListSound, NEW offset \in Nat, NEW p, p = PageOf(offset)
    PROVE  /\ p.rows \in Seq(1..made) /\ p.more \in BOOLEAN
           /\ p.more = TRUE <=> offset + PageLimit < Len(rows)
           /\ Len(p.rows) = Cardinality(Range(p.rows)) /\ IsFiniteSet(Range(p.rows))
           /\ Range(p.rows) = {rows[i] : i \in {j \in DOMAIN rows : j > offset /\ j <= offset + PageLimit}}
<1> DEFINE last == IF offset + PageLimit < Len(rows) THEN offset + PageLimit ELSE Len(rows)
           q == SubSeq(rows, offset + 1, last)
<1>1. /\ rows \in Seq(1..made) /\ Len(rows) \in Nat /\ DOMAIN rows = 1..Len(rows) /\ PageLimit \in Nat
      /\ \A i, j \in DOMAIN rows : rows[i] = rows[j] => i = j
  BY RequestAssumption DEF ListSound
<1>2. last \in Nat /\ last <= Len(rows) /\ last <= offset + PageLimit
  BY <1>1
<1>3. p = [rows |-> q, count |-> Len(rows), more |-> last < Len(rows)]
  BY DEF PageOf
<1>4. last < Len(rows) <=> offset + PageLimit < Len(rows)
  BY <1>1
<1>5. \A j \in DOMAIN rows : j <= last <=> j <= offset + PageLimit
  BY <1>1
<1> HIDE DEF last
<1>6. /\ q \in Seq(1..made)
      /\ Len(q) = IF offset + 1 <= last THEN last - (offset + 1) + 1 ELSE 0
      /\ \A i \in 1..(last - (offset + 1) + 1) : q[i] = rows[(offset + 1) + i - 1]
  <2>1. PICK m, n : m = offset + 1 /\ n = last
    OBVIOUS
  <2>4. m \in Int /\ n \in Int /\ m..n \subseteq DOMAIN rows
    BY <1>1, <1>2, <2>1
  <2>2. m \in Int /\ n \in Int /\ \A i \in m..n : rows[i] \in 1..made
    BY <1>1, <2>4, Entry
  <2>3. /\ SubSeq(rows, m, n) \in Seq(1..made)
        /\ Len(SubSeq(rows, m, n)) = IF m <= n THEN n - m + 1 ELSE 0
        /\ \A i \in 1..(n - m + 1) : SubSeq(rows, m, n)[i] = rows[m + i - 1]
    BY <2>2, SubSeqProperties
  <2> QED BY <2>1, <2>3
<1> HIDE DEF q
<1>7. p.rows = q /\ (p.more = TRUE <=> last < Len(rows)) /\ p.more \in BOOLEAN
  <2> DEFINE more == last < Len(rows)
  <2>1. more \in BOOLEAN /\ (more <=> last < Len(rows))
    OBVIOUS
  <2>2. p = [rows |-> q, count |-> Len(rows), more |-> more]
    BY <1>3
  <2> HIDE DEF more
  <2>3. p.rows = q /\ p.more = more
    BY <2>2
  <2> QED BY <2>1, <2>3
<1>8. DOMAIN q = 1..Len(q)
  BY <1>6
<1>9. \A i \in DOMAIN q : offset + i \in DOMAIN rows /\ offset + i <= last /\ q[i] = rows[offset + i]
                          /\ i \in Nat /\ i > 0
  <2> TAKE i \in DOMAIN q
  <2>1. offset + 1 <= last /\ i \in 1..(last - (offset + 1) + 1)
    BY <1>2, <1>6, <1>8
  <2>2. q[i] = rows[(offset + 1) + i - 1]
    BY <1>6, <2>1
  <2>3. (offset + 1) + i - 1 = offset + i /\ offset + i \in 1..Len(rows) /\ offset + i <= last
    BY <1>1, <1>2, <2>1
  <2> QED BY <1>1, <2>1, <2>2, <2>3
<1>10. \A j \in DOMAIN rows : j > offset /\ j <= last => j - offset \in DOMAIN q /\ q[j - offset] = rows[j]
  <2> SUFFICES ASSUME NEW j \in DOMAIN rows, j > offset, j <= last
               PROVE  j - offset \in DOMAIN q /\ q[j - offset] = rows[j]
    OBVIOUS
  <2>1. j - offset \in 1..Len(q)
    BY <1>1, <1>2, <1>6
  <2>2. offset + (j - offset) = j
    BY <1>1
  <2> QED BY <1>8, <1>9, <2>1, <2>2
<1>11. \A i, j \in DOMAIN q : q[i] = q[j] => i = j
  <2> SUFFICES ASSUME NEW i \in DOMAIN q, NEW j \in DOMAIN q, q[i] = q[j] PROVE i = j
    OBVIOUS
  <2>1. offset + i = offset + j
    BY <1>1, <1>9
  <2> QED BY <1>9, <2>1
<1>12. IsFiniteSet(Range(q)) /\ Cardinality(Range(q)) = Len(q)
  BY <1>6, <1>11, DistinctLength
<1>13. Range(q) = {rows[i] : i \in {j \in DOMAIN rows : j > offset /\ j <= offset + PageLimit}}
  <2>1. ASSUME NEW i \in DOMAIN q
        PROVE  q[i] \in {rows[k] : k \in {j \in DOMAIN rows : j > offset /\ j <= offset + PageLimit}}
    <3>1. offset + i \in DOMAIN rows /\ offset + i > offset /\ offset + i <= offset + PageLimit
      BY <1>5, <1>9
    <3> QED BY <1>9, <3>1
  <2>2. ASSUME NEW j \in DOMAIN rows, j > offset, j <= offset + PageLimit PROVE rows[j] \in Range(q)
    BY <1>5, <1>10, <2>2 DEF Range
  <2> QED BY <2>1, <2>2 DEF Range
<1> QED BY <1>7, <1>4, <1>6, <1>12, <1>13

\* The engine answers a request for a page with the page at its offset, or not
\* with success.
LEMMA PageAnswer ==
    ASSUME NEW kind \in Kinds, NEW call, NEW offset, NEW a \in AnswersTo(kind, call, offset),
           kind = "page", a.by = "success"
    PROVE  a = Found(PageOf(offset))
<1>1. a # NoAnswer /\ a \notin ForeignAnswers /\ a \notin GraphqlErrors
  <2>1. a # NoAnswer
    BY DEF NoAnswer
  <2>2. a \notin ForeignAnswers
    BY ForeignAnswered
  <2>3. ASSUME NEW c, a = [NoAnswer EXCEPT !.by = "graphql", !.status = 200, !.json = TRUE, !.code = c]
        PROVE  FALSE
    BY <2>3 DEF NoAnswer
  <2> QED BY <2>1, <2>2, <2>3 DEF GraphqlErrors
<1>2. a \notin RefusingAnswers(kind, call)
  <2> SUFFICES ASSUME a \in RefusingAnswers(kind, call) PROVE FALSE
    OBVIOUS
  <2>1. PICK r : a = [NoAnswer EXCEPT !.by = "engine", !.status = r.status, !.json = kind # "probe",
                                      !.code = r.code]
    BY DEF RefusingAnswers
  <2> QED BY <2>1 DEF NoAnswer
<1> QED BY <1>1, <1>2 DEF AnswersTo, GraphqlAnswers, Graphql
-----------------------------------------------------------------------------
(* The walk                                                                *)

WalkInv == ListSound /\ PageKnown /\ WalkSound

\* A walk that took JSON of something else for the last page is at its end, and
\* may have skipped any rows.
EndedByAnother ==
    walk.state = "complete" /\ request.phase = "idle" /\ request.answer.by = "foreign"

WalkKnown == ListSound /\ PageKnown /\ (WalkSound \/ EndedByAnother)

\* A step that leaves the list and what was read of it alone.
LEMMA SameView ==
    ASSUME ListSound, WalkSound, UNCHANGED <<rows, made, gone>>,
           walk'.seen = walk.seen, Served' = Served, Reached' = Reached, LastServed' = LastServed
    PROVE  ListSound' /\ WalkSound'
<1>1. ListSound'
  BY DEF ListSound
<1>2. Read' = Read /\ Ahead' = Ahead
  BY DEF Read, Ahead
<1> QED BY <1>1, <1>2 DEF WalkSound, Skipped

\* A request that is made.
LEMMA WalkAsk ==
    ASSUME RequestKnown, WalkInv, AskForPage \/ \E kind \in Kinds : AskOnce(kind)
    PROVE  WalkInv'
<1>1. /\ UNCHANGED <<rows, made, gone>> /\ request.phase = "idle"
      /\ \E kind \in Kinds : \E call \in CallsOf(kind) \cup {NoCall} :
            /\ request' = [Idle EXCEPT !.kind = kind, !.call = call, !.phase = "token"]
            /\ \/ kind = "page" /\ call = NoCall /\ walk.state \in {"before", "going"}
                  /\ walk' = [walk EXCEPT !.state = "going"]
               \/ kind # "page" /\ walk' = walk
  BY DEF AskForPage, AskOnce, Ask, Kinds, Graphql
<1>2. PICK kind \in Kinds : \E call \in CallsOf(kind) \cup {NoCall} :
            /\ request' = [Idle EXCEPT !.kind = kind, !.call = call, !.phase = "token"]
            /\ \/ kind = "page" /\ call = NoCall /\ walk.state \in {"before", "going"}
                  /\ walk' = [walk EXCEPT !.state = "going"]
               \/ kind # "page" /\ walk' = walk
  BY <1>1
<1>8. PICK call \in CallsOf(kind) \cup {NoCall} :
            /\ request' = [Idle EXCEPT !.kind = kind, !.call = call, !.phase = "token"]
            /\ \/ kind = "page" /\ call = NoCall /\ walk.state \in {"before", "going"}
                  /\ walk' = [walk EXCEPT !.state = "going"]
               \/ kind # "page" /\ walk' = walk
  BY <1>2
<1>3. request'.phase = "token" /\ request'.kind = kind /\ request'.call = call
  BY <1>8 DEF Idle
<1>4. ~ PageServed /\ ~ PageServed'
  BY <1>1, <1>3 DEF PageServed
<1>5. /\ walk'.seen = walk.seen /\ walk'.offset = walk.offset /\ walk'.pages = walk.pages
      /\ walk'.state = walk.state \/ (walk'.state = "going" /\ walk.state \in {"before", "going"})
      /\ kind = "page" => call = NoCall /\ walk'.state = "going"
      /\ walk' = [walk EXCEPT !.state = walk'.state]
  BY <1>8 DEF WalkInv, PageKnown
<1>6. PageKnown'
  BY <1>1, <1>3, <1>4, <1>5 DEF WalkInv, PageKnown
<1>7. Served' = Served /\ Reached' = Reached /\ LastServed' = LastServed
  BY <1>4, <1>5 DEF Served, Reached, LastServed
<1> QED BY <1>1, <1>5, <1>6, <1>7, SameView DEF WalkInv

\* A token that is or is not fetched.
LEMMA WalkToken ==
    ASSUME RequestKnown, WalkInv, TokenFails \/ Send
    PROVE  WalkInv'
<1>1. /\ UNCHANGED <<rows, made, gone>> /\ request.phase = "token"
      /\ walk' = walk \/ (request.kind = "page" /\ walk' = [walk EXCEPT !.state = "failed"])
      /\ \/ request' = Idle
         \/ request' = [request EXCEPT !.phase = "sent"] /\ walk' = walk
  BY DEF TokenFails, Send
<1>2. \/ request'.phase = "idle"
      \/ /\ request'.phase = "sent" /\ request'.kind = request.kind /\ request'.call = request.call
         /\ walk' = walk
  BY <1>1, IdleKnown DEF RequestKnown
<1>3. ~ PageServed /\ ~ PageServed'
  BY <1>1, <1>2 DEF PageServed
<1>4. /\ walk'.seen = walk.seen /\ walk'.offset = walk.offset /\ walk'.pages = walk.pages
      /\ walk'.state = walk.state \/ (walk'.state = "failed" /\ walk.state = "going")
      /\ walk' = [walk EXCEPT !.state = walk'.state]
  BY <1>1 DEF WalkInv, PageKnown
<1>5. PageKnown'
  BY <1>1, <1>2, <1>3, <1>4 DEF WalkInv, PageKnown
<1>6. Served' = Served /\ Reached' = Reached /\ LastServed' = LastServed
  BY <1>3, <1>4 DEF Served, Reached, LastServed
<1> QED BY <1>1, <1>4, <1>5, <1>6, SameView DEF WalkInv

\* What a set with one element more holds is at most one more.
LEMMA OneMore ==
    ASSUME NEW S, IsFiniteSet(S), NEW x, NEW T, T \subseteq S \cup {x}
    PROVE  /\ IsFiniteSet(T) /\ Cardinality(T) \in Nat /\ Cardinality(S) \in Nat
           /\ Cardinality(T) <= Cardinality(S) + 1
<1>1. /\ IsFiniteSet(S \cup {x})
      /\ Cardinality(S \cup {x}) = IF x \in S THEN Cardinality(S) ELSE Cardinality(S) + 1
  BY FS_AddElement
<1>2. IsFiniteSet(T) /\ Cardinality(T) <= Cardinality(S \cup {x})
  BY <1>1, FS_Subset
<1>3. Cardinality(T) \in Nat /\ Cardinality(S) \in Nat
  BY <1>2, FS_CardinalityType
<1> QED BY <1>1, <1>2, <1>3

\* A row that comes or goes.
LEMMA WalkRows ==
    ASSUME RequestKnown, WalkInv,
           \/ \E i \in 1..(Len(rows) + 1) : InsertRow(i)
           \/ \E i \in DOMAIN rows : RemoveRow(i)
    PROVE  WalkInv'
<1>1. UNCHANGED <<request, walk>> /\ Served' = Served /\ Read' = Read
  BY DEF InsertRow, RemoveRow, Served, Read, PageServed
<1>2. made \in Nat /\ InitialRows \in Nat
  BY RequestAssumption DEF WalkInv, ListSound
<1>3. ASSUME made' \in {made, made + 1} PROVE PageKnown'
  <2>1. Seq(1..made) \subseteq Seq(1..made')
    <3>1. 1..made \subseteq 1..made'
      BY <1>2, <1>3
    <3> QED BY <3>1, Wider
  <2>2. PageServed' = PageServed
    BY <1>1 DEF PageServed
  <2> QED BY <1>1, <2>1, <2>2 DEF WalkInv, PageKnown
<1>4. /\ IsFiniteSet(Ahead) /\ IsFiniteSet(Read) /\ IsFiniteSet(Skipped) /\ IsFiniteSet(gone)
      /\ IsFiniteSet(Ahead \cap Read) /\ Len(walk.seen) \in Nat /\ Len(Served) \in Nat
  BY RowsFinite DEF WalkInv
<1>5. Cardinality(Read) \in Nat /\ Cardinality(Skipped) \in Nat /\ Cardinality(gone) \in Nat
      /\ Cardinality(Ahead \cap Read) \in Nat
  BY <1>4, FS_CardinalityType
<1>6. ASSUME NEW i \in 1..(Len(rows) + 1), InsertRow(i) PROVE WalkInv'
  <2>1. /\ ListSound' /\ gone' = gone /\ made' = made + 1
        /\ Ahead \subseteq Ahead' /\ \E x : Ahead' \subseteq Ahead \cup {x}
    BY <1>6, InsertMoves DEF WalkInv
  <2>2. PageKnown'
    BY <1>3, <2>1
  <2>3. PICK x : Ahead' \subseteq Ahead \cup {x}
    BY <2>1
  <2>4. Cardinality(Skipped') <= Cardinality(gone')
    <3>1. Skipped' \in SUBSET Skipped
      BY <1>1, <2>1 DEF Skipped
    <3>2. Cardinality(Skipped') <= Cardinality(Skipped) /\ Cardinality(Skipped') \in Nat
      BY <1>4, <3>1, FS_Subset, FS_CardinalityType
    <3> QED BY <1>5, <2>1, <3>2 DEF WalkInv, WalkSound
  <2>5. Cardinality(Ahead' \cap Read) <= Cardinality(Ahead \cap Read) + 1
        /\ Cardinality(Ahead' \cap Read) \in Nat
    <3>1. PICK S, T : S = Ahead \cap Read /\ T = Ahead' \cap Read
      OBVIOUS
    <3>2. IsFiniteSet(S) /\ T \subseteq S \cup {x}
      BY <1>4, <2>3, <3>1
    <3>3. Cardinality(T) <= Cardinality(S) + 1 /\ Cardinality(T) \in Nat
      BY <3>2, OneMore
    <3> QED BY <3>1, <3>3
  <2>6. Len(walk.seen) + Len(Served) + Cardinality(Ahead' \cap Read)
            <= Cardinality(Read) + ((made + 1) - InitialRows)
    <3>1. Len(walk.seen) + Len(Served) + Cardinality(Ahead \cap Read)
             <= Cardinality(Read) + (made - InitialRows)
      BY DEF WalkInv, WalkSound
    <3>2. PICK l, k, c, d, r : /\ l = Len(walk.seen) /\ k = Len(Served) /\ r = Cardinality(Read)
                               /\ c = Cardinality(Ahead \cap Read) /\ d = Cardinality(Ahead' \cap Read)
      OBVIOUS
    <3>3. {l, k, c, d, r} \subseteq Nat /\ d <= c + 1 /\ l + k + c <= r + (made - InitialRows)
      BY <1>4, <1>5, <2>5, <3>1, <3>2
    <3>4. l + k + d <= r + ((made + 1) - InitialRows)
      BY <1>2, <3>3
    <3> QED BY <3>2, <3>4
  <2>7. WalkSound'
    <3>1. Len(walk'.seen) + Len(Served') + Cardinality(Ahead' \cap Read')
             <= Cardinality(Read') + (made' - InitialRows)
      BY <1>1, <2>1, <2>6
    <3> QED BY <2>4, <3>1 DEF WalkSound
  <2> QED BY <2>1, <2>2, <2>7 DEF WalkInv
<1>7. ASSUME NEW i \in DOMAIN rows, RemoveRow(i) PROVE WalkInv'
  <2>1. /\ ListSound' /\ made' = made /\ rows[i] \notin gone /\ gone' = gone \cup {rows[i]}
        /\ \E x : Ahead \ {x} \subseteq Ahead' /\ Ahead' \subseteq Ahead
    BY <1>7, RemoveMoves DEF WalkInv
  <2>2. PageKnown'
    BY <1>3, <2>1
  <2>3. PICK x : Ahead \ {x} \subseteq Ahead' /\ Ahead' \subseteq Ahead
    BY <2>1
  <2>4. Cardinality(gone') = Cardinality(gone) + 1
    <3>1. PICK y : y = rows[i]
      OBVIOUS
    <3>2. Cardinality(gone \cup {y}) = Cardinality(gone) + 1
      BY <1>4, <2>1, <3>1, FS_AddElement
    <3> QED BY <2>1, <3>1, <3>2
  <2>5. Cardinality(Skipped') <= Cardinality(Skipped) + 1 /\ Cardinality(Skipped') \in Nat
    <3>1. PICK S, T : S = Skipped /\ T = Skipped'
      OBVIOUS
    <3>2. IsFiniteSet(S) /\ T \subseteq S \cup {x}
      BY <1>1, <1>4, <2>1, <2>3, <3>1 DEF Skipped
    <3>3. Cardinality(T) <= Cardinality(S) + 1 /\ Cardinality(T) \in Nat
      BY <3>2, OneMore
    <3> QED BY <3>1, <3>3
  <2>6. Cardinality(Ahead' \cap Read) <= Cardinality(Ahead \cap Read)
        /\ Cardinality(Ahead' \cap Read) \in Nat
    <3>1. (Ahead' \cap Read) \in SUBSET (Ahead \cap Read)
      BY <2>3
    <3> QED BY <1>4, <3>1, FS_Subset, FS_CardinalityType
  <2>7. Cardinality(Skipped') <= Cardinality(gone')
    BY <1>5, <2>4, <2>5 DEF WalkInv, WalkSound
  <2>8. Len(walk.seen) + Len(Served) + Cardinality(Ahead' \cap Read)
            <= Cardinality(Read) + (made' - InitialRows)
    BY <1>2, <1>4, <1>5, <2>1, <2>6 DEF WalkInv, WalkSound
  <2>9. WalkSound'
    BY <1>1, <2>7, <2>8 DEF WalkSound
  <2> QED BY <2>1, <2>2, <2>9 DEF WalkInv
<1> QED BY <1>6, <1>7
\* An answer of the engine, or of something in front of it.
LEMMA WalkAnswer ==
    ASSUME RequestKnown, WalkInv, Answer
    PROVE  WalkInv'
<1>1. UNCHANGED <<rows, made, gone, walk>> /\ request.phase = "sent" /\ ~ PageServed
  BY DEF Answer, PageServed
<1>2. PICK a \in AnswersTo(request.kind, request.call, OffsetArgument(walk.offset)) :
          request' = [request EXCEPT !.phase = "answered", !.answer = a]
  BY DEF Answer
<1>3. /\ request'.phase = "answered" /\ request'.answer = a /\ request'.kind = request.kind
      /\ request'.call = request.call
  BY <1>2 DEF RequestKnown
<1>4. /\ walk.offset \in Nat /\ PageLimit \in Nat /\ OffsetArgument(walk.offset) = walk.offset
      /\ made \in Nat /\ InitialRows \in Nat
  BY RequestAssumption DEF WalkInv, PageKnown, ListSound, OffsetArgument
<1>5. ListSound'
  BY <1>1 DEF WalkInv, ListSound
<1>6. CASE ~ (request.kind = "page" /\ a.by = "success")
  <2>1. ~ PageServed'
    BY <1>3, <1>6 DEF PageServed
  <2>2. PageKnown'
    BY <1>1, <1>3, <2>1 DEF WalkInv, PageKnown
  <2>3. Served' = Served /\ Reached' = Reached /\ LastServed' = LastServed
    BY <1>1, <2>1 DEF Served, Reached, LastServed
  <2> QED BY <1>1, <2>2, <2>3, SameView DEF WalkInv
<1>7. CASE request.kind = "page" /\ a.by = "success"
  <2>1. PICK p : p = PageOf(walk.offset)
    OBVIOUS
  <2>2. a.status = 200 /\ a.json = TRUE /\ a.body = "data" /\ a.page = p
    <3>1. PICK kind, call, offset : /\ kind = request.kind /\ call = request.call
                                    /\ offset = OffsetArgument(walk.offset)
      OBVIOUS
    <3>2. a \in AnswersTo(kind, call, offset) /\ kind \in Kinds /\ kind = "page" /\ a.by = "success"
      BY <1>7, <3>1 DEF RequestKnown
    <3>3. p = PageOf(offset)
      BY <1>4, <2>1, <3>1
    <3>4. a = Found(PageOf(offset))
      BY <3>2, PageAnswer
    <3> QED BY <3>3, <3>4 DEF Found, Success, NoAnswer
  <2>3. /\ p.rows \in Seq(1..made) /\ p.more \in BOOLEAN
        /\ p.more = TRUE <=> walk.offset + PageLimit < Len(rows)
        /\ Len(p.rows) = Cardinality(Range(p.rows)) /\ IsFiniteSet(Range(p.rows))
        /\ Range(p.rows) =
             {rows[i] : i \in {j \in DOMAIN rows : j > walk.offset /\ j <= walk.offset + PageLimit}}
    <3>1. PICK offset \in Nat : offset = walk.offset
      BY <1>4
    <3>2. /\ p.rows \in Seq(1..made) /\ p.more \in BOOLEAN
          /\ p.more = TRUE <=> offset + PageLimit < Len(rows)
          /\ Len(p.rows) = Cardinality(Range(p.rows)) /\ IsFiniteSet(Range(p.rows))
          /\ Range(p.rows) =
               {rows[i] : i \in {j \in DOMAIN rows : j > offset /\ j <= offset + PageLimit}}
      BY <2>1, <3>1, PageRows DEF WalkInv
    <3> QED BY <3>1, <3>2
  <2>4. PageServed' /\ walk.state = "going" /\ request.call = NoCall
    BY <1>1, <1>3, <1>7 DEF WalkInv, PageKnown, PageServed
  <2>5. PageKnown'
    BY <1>1, <1>3, <2>2, <2>3, <2>4 DEF WalkInv, PageKnown
  <2> DEFINE P == Range(p.rows)
  <2>6. /\ Served = <<>> /\ Served' = p.rows /\ Reached = walk.offset
        /\ Reached' = walk.offset + PageLimit /\ ~ LastServed /\ (LastServed' <=> p.more = FALSE)
    BY <1>1, <1>3, <2>2, <2>4 DEF Served, Reached, LastServed
  <2>7. Read' = Read \cup P
    <3>1. Range(<<>>) = {}
      BY DEF Range
    <3> QED BY <1>1, <2>6, <3>1 DEF Read
  <2>8. rows \in Seq(1..made) /\ Len(rows) \in Nat /\ DOMAIN rows = 1..Len(rows)
        /\ \A i, j \in DOMAIN rows : rows[i] = rows[j] => i = j
    BY DEF WalkInv, ListSound
  <2>9. Ahead = {rows[i] : i \in {j \in DOMAIN rows : j > walk.offset}}
    BY <2>6 DEF Ahead
  <2>10. Ahead' = {rows[i] : i \in {j \in DOMAIN rows : p.more = TRUE /\ j > walk.offset + PageLimit}}
    BY <1>1, <2>3, <2>6 DEF Ahead
  <2>11. Ahead = Ahead' \cup P
    <3>1. ASSUME NEW j \in DOMAIN rows, j > walk.offset PROVE rows[j] \in Ahead' \cup P
      <4>1. j <= walk.offset + PageLimit \/ (p.more = TRUE /\ j > walk.offset + PageLimit)
        BY <1>4, <2>3, <2>8
      <4> QED BY <2>3, <2>10, <3>1, <4>1
    <3>2. Ahead' \cup P \subseteq Ahead
      <4>1. \A j \in DOMAIN rows : j > walk.offset + PageLimit => j > walk.offset
        BY <1>4, <2>8
      <4> QED BY <2>3, <2>9, <2>10, <4>1
    <3> QED BY <2>9, <3>1, <3>2
  <2>12. Ahead' \cap P = {}
    <3> SUFFICES ASSUME NEW i \in DOMAIN rows, NEW j \in DOMAIN rows, rows[i] = rows[j],
                        i > walk.offset + PageLimit, j <= walk.offset + PageLimit
                 PROVE  FALSE
      BY <2>3, <2>10
    <3>1. i = j
      BY <2>8
    <3> QED BY <1>4, <2>8, <3>1
  <2> HIDE DEF P
  <2>13. Skipped' = Skipped /\ gone' = gone
    BY <1>1, <2>7, <2>11 DEF Skipped
  <2>14. IsFiniteSet(P) /\ Cardinality(P) = Len(p.rows)
    BY <2>3 DEF P
  <2>15. IsFiniteSet(Read) /\ IsFiniteSet(Ahead \cap Read) /\ Len(walk.seen) \in Nat
    BY RowsFinite DEF WalkInv
  <2>16. /\ Cardinality(Read \cup P) = Cardinality(Read) + Cardinality(P) - Cardinality(Read \cap P)
         /\ Cardinality(Read) \in Nat /\ Cardinality(P) \in Nat /\ IsFiniteSet(Read \cap P)
         /\ Cardinality(Read \cap P) \in Nat
    BY <2>14, <2>15, FS_Union, FS_Intersection, FS_CardinalityType
  \* The rows ahead that were read before are those of the page and the others.
  <2>17. Cardinality(Ahead \cap Read) = Cardinality(Ahead' \cap Read') + Cardinality(Read \cap P)
         /\ Cardinality(Ahead' \cap Read') \in Nat
    <3>1. PICK A, B : A = Ahead' \cap Read' /\ B = Read \cap P
      OBVIOUS
    <3>2. Ahead \cap Read = A \cup B /\ A \cap B = {} /\ A \subseteq Ahead \cap Read
      BY <2>7, <2>11, <2>12, <3>1
    <3>3. IsFiniteSet(A) /\ IsFiniteSet(B)
      BY <2>15, <2>16, <3>1, <3>2, FS_Subset
    <3>4. Cardinality(A \cup B) = Cardinality(A) + Cardinality(B) - Cardinality(A \cap B)
      BY <3>3, FS_Union
    <3>5. Cardinality(A \cap B) = 0 /\ Cardinality(A) \in Nat /\ Cardinality(B) \in Nat
      BY <3>2, <3>3, FS_EmptySet, FS_CardinalityType
    <3>6. Cardinality(A) + Cardinality(B) - 0 = Cardinality(A) + Cardinality(B)
      BY <3>5
    <3>7. Cardinality(A \cup B) = Cardinality(A) + Cardinality(B)
      BY <3>4, <3>5, <3>6
    <3>8. Cardinality(Ahead \cap Read) = Cardinality(A) + Cardinality(B)
      BY <3>2, <3>7
    <3> QED BY <3>1, <3>5, <3>8
  <2>18. Len(walk.seen) + Cardinality(Ahead \cap Read) <= Cardinality(Read) + (made - InitialRows)
    <3>1. Len(<<>>) = 0
      OBVIOUS
    <3>2. Len(walk.seen) + Len(Served) + Cardinality(Ahead \cap Read)
             <= Cardinality(Read) + (made - InitialRows)
      BY DEF WalkInv, WalkSound
    <3>3. Len(Served) = 0
      BY <2>6, <3>1
    <3> QED BY <2>15, <3>2, <3>3
  <2>19. Len(walk.seen) + Len(p.rows) + Cardinality(Ahead' \cap Read')
            <= Cardinality(Read') + (made - InitialRows)
    <3>1. PICK l, n, c, d, r, e : /\ l = Len(walk.seen) /\ n = Len(p.rows) /\ r = Cardinality(Read)
                                  /\ c = Cardinality(Ahead \cap Read) /\ e = Cardinality(Read \cap P)
                                  /\ d = Cardinality(Ahead' \cap Read')
      OBVIOUS
    <3>2. {l, n, d, r, e} \subseteq Nat /\ c = d + e /\ l + c <= r + (made - InitialRows)
      BY <2>14, <2>15, <2>16, <2>17, <2>18, <3>1
    <3>3. Cardinality(Read') = r + n - e
      BY <2>7, <2>14, <2>16, <3>1
    <3>4. l + n + d <= (r + n - e) + (made - InitialRows)
      BY <1>4, <3>2
    <3> QED BY <3>1, <3>3, <3>4
  <2>20. WalkSound'
    <3>1. Cardinality(Skipped') <= Cardinality(gone')
      BY <2>13 DEF WalkInv, WalkSound
    <3>2. /\ walk'.seen = walk.seen /\ made' = made
          /\ Len(walk'.seen) + Len(Served') + Cardinality(Ahead' \cap Read')
                <= Cardinality(Read') + (made' - InitialRows)
      BY <1>1, <2>6, <2>19
    <3> QED BY <3>1, <3>2 DEF WalkSound
  <2> QED BY <1>5, <2>5, <2>20 DEF WalkInv
<1> QED BY <1>6, <1>7

\* An answer that is taken in.
LEMMA WalkReceive ==
    ASSUME RequestKnown, WalkInv, Receive
    PROVE  WalkKnown'
<1>1. PICK o : /\ o = OutcomeOf(request.kind, request.call, request.answer)
               /\ walk' = IF request.kind = "page" THEN NextStep(o) ELSE walk
  BY DEF Receive
<1>2. /\ request.phase = "answered" /\ UNCHANGED <<rows, made, gone>>
      /\ request' = [request EXCEPT !.phase = "idle"]
  BY DEF Receive
<1>3. request'.phase = "idle" /\ ~ PageServed'
  BY <1>2 DEF RequestKnown, PageServed
<1>4. CASE request.kind # "page"
  <2>1. ~ PageServed /\ walk' = walk
    BY <1>1, <1>4 DEF PageServed
  <2>2. PageKnown'
    BY <1>2, <1>3, <2>1 DEF WalkInv, PageKnown
  <2>3. Served' = Served /\ Reached' = Reached /\ LastServed' = LastServed
    BY <1>3, <2>1 DEF Served, Reached, LastServed
  <2> QED BY <1>2, <2>1, <2>2, <2>3, SameView DEF WalkInv, WalkKnown
<1>5. CASE request.kind = "page"
  <2>1. PICK a : a = request.answer
    OBVIOUS
  <2>2. /\ AnswerFits("page", NoCall, a) /\ walk.state = "going" /\ walk' = NextStep(o)
        /\ o = OutcomeOf("page", NoCall, a) /\ (PageServed <=> a.by = "success")
        /\ a.by = "success" => a.status = 200 /\ a.json = TRUE /\ a.body = "data"
    BY <1>1, <1>2, <1>5, <2>1 DEF RequestKnown, WalkInv, PageKnown, PageServed
  <2>3. /\ a.by = "success" => o.is = "page" /\ o.page = a.page
        /\ a.by # "success" /\ o.is = "page" => a.by = "foreign" /\ o.page = NoPage
    BY <2>2, PageOutcome
  <2>6. CASE ~ PageServed /\ o.is = "page"
    <3>1. a.by = "foreign" /\ o.page.rows = <<>> /\ o.page.more = FALSE
      BY <2>2, <2>3, <2>6 DEF NoPage
    <3>2. walk' = [state |-> "complete", offset |-> walk.offset, pages |-> walk.pages + 1,
                   seen |-> walk.seen \o <<>>]
      BY <2>2, <2>6, <3>1 DEF NextStep
    <3>3. walk.seen \o <<>> \in Seq(1..made) /\ walk.pages + 1 \in Nat
      BY DEF WalkInv, PageKnown
    <3>4. PageKnown'
      BY <1>2, <1>3, <3>2, <3>3 DEF WalkInv, PageKnown
    <3>5. ListSound'
      BY <1>2 DEF WalkInv, ListSound
    <3>6. EndedByAnother'
      BY <1>2, <1>3, <2>1, <3>1, <3>2 DEF EndedByAnother, RequestKnown
    <3> QED BY <3>4, <3>5, <3>6 DEF WalkKnown
  <2>4. CASE ~ PageServed /\ o.is # "page"
    <3>1. walk' = [walk EXCEPT !.state = "failed"]
      BY <2>2, <2>4 DEF NextStep
    <3>2. /\ walk'.seen = walk.seen /\ walk'.offset = walk.offset /\ walk'.pages = walk.pages
          /\ walk'.state = "failed"
      BY <3>1 DEF WalkInv, PageKnown
    <3>3. PageKnown'
      BY <1>2, <1>3, <3>1 DEF WalkInv, PageKnown
    <3>4. Served' = Served /\ Reached' = Reached /\ LastServed' = LastServed
      BY <1>3, <2>2, <2>4, <3>2 DEF Served, Reached, LastServed
    <3> QED BY <1>2, <3>2, <3>3, <3>4, SameView DEF WalkInv, WalkKnown
  <2>5. CASE PageServed
    <3>1. PICK p : p = a.page
      OBVIOUS
    <3>2. /\ o.is = "page" /\ o.page = p /\ Served = p.rows /\ p.rows \in Seq(1..made)
          /\ Reached = walk.offset + PageLimit /\ (LastServed <=> p.more = FALSE)
      BY <2>1, <2>2, <2>3, <2>5, <3>1 DEF WalkInv, PageKnown, Served, Reached, LastServed
    <3>3. /\ walk.seen \in Seq(1..made) /\ walk.offset \in Nat /\ walk.pages \in Nat
          /\ PageLimit \in Nat /\ p.more \in BOOLEAN
      BY RequestAssumption, <2>1, <2>5, <3>1 DEF WalkInv, PageKnown
    <3>4. /\ walk'.seen = walk.seen \o p.rows /\ walk'.pages = walk.pages + 1
          /\ walk'.state \in {"complete", "going", "stopped"}
          /\ walk'.state = "complete" <=> p.more = FALSE
          /\ walk'.offset = IF p.more THEN walk.offset + PageLimit ELSE walk.offset
          /\ walk' = [state |-> walk'.state, offset |-> walk'.offset, pages |-> walk'.pages,
                      seen |-> walk'.seen]
      BY <2>2, <3>2, <3>3 DEF NextStep
    <3>5. walk.seen \o p.rows \in Seq(1..made)
          /\ Len(walk.seen \o p.rows) = Len(walk.seen) + Len(p.rows)
      BY <3>2, <3>3
    <3>6. PageKnown'
      <4>1. walk'.seen \in Seq(1..made') /\ walk'.pages \in Nat /\ walk'.offset \in Nat
        BY <1>2, <3>3, <3>4, <3>5
      <4>2. walk'.state \in {"before", "going", "complete", "stopped", "failed"}
        BY <3>4
      <4>3. request'.phase = "idle" /\ ~ PageServed'
        BY <1>3
      <4> QED BY <3>4, <4>1, <4>2, <4>3 DEF PageKnown
    <3>7. Range(walk.seen \o p.rows) = Range(walk.seen) \cup Range(p.rows)
      <4>1. PICK q, t : q = walk.seen /\ t = p.rows
        OBVIOUS
      <4>2. Range(q \o t) = Range(q) \cup Range(t)
        <5>1. q \in Seq(1..made) /\ t \in Seq(1..made)
          BY <3>2, <3>3, <4>1
        <5>2. /\ Len(q \o t) = Len(q) + Len(t) /\ q \o t \in Seq(1..made)
              /\ \A i \in 1..(Len(q) + Len(t)) :
                   (q \o t)[i] = IF i <= Len(q) THEN q[i] ELSE t[i - Len(q)]
          BY <5>1, ConcatProperties
        <5>3. /\ DOMAIN q = 1..Len(q) /\ DOMAIN t = 1..Len(t) /\ Len(q) \in Nat /\ Len(t) \in Nat
              /\ DOMAIN (q \o t) = 1..(Len(q) + Len(t))
          BY <5>1, <5>2
        <5> DEFINE u == q \o t
        <5> HIDE DEF u
        <5>4. \A i \in DOMAIN u : u[i] \in Range(q) \cup Range(t)
          <6> SUFFICES ASSUME NEW i \in 1..(Len(q) + Len(t)) PROVE u[i] \in Range(q) \cup Range(t)
            BY <5>3 DEF u
          <6>1. CASE i <= Len(q)
            BY <5>2, <5>3, <6>1 DEF Range, u
          <6>2. CASE ~ (i <= Len(q))
            <7>1. i - Len(q) \in DOMAIN t
              BY <5>3, <6>2
            <7> QED BY <5>2, <6>2, <7>1 DEF Range, u
          <6> QED BY <6>1, <6>2
        <5>5. \A i \in DOMAIN q : i \in DOMAIN u /\ u[i] = q[i]
          BY <5>2, <5>3 DEF u
        <5>6. \A i \in DOMAIN t : Len(q) + i \in DOMAIN u /\ u[Len(q) + i] = t[i]
          <6> TAKE i \in DOMAIN t
          <6>1. Len(q) + i \in 1..(Len(q) + Len(t)) /\ ~ (Len(q) + i <= Len(q)) /\ (Len(q) + i) - Len(q) = i
            BY <5>3
          <6> QED BY <5>2, <5>3, <6>1 DEF u
        <5>7. Range(u) = Range(q) \cup Range(t)
          BY <5>4, <5>5, <5>6 DEF Range
        <5> QED BY <5>7 DEF u
      <4> QED BY <4>1, <4>2
    <3>8. Served' = <<>> /\ Read' = Read
      <4>1. Served' = <<>>
        BY <1>3 DEF Served
      <4>2. Range(<<>>) = {}
        BY DEF Range
      <4>3. Read' = Range(walk.seen \o p.rows) \cup Range(<<>>)
        BY <3>4, <4>1 DEF Read
      <4>4. Read = Range(walk.seen) \cup Range(p.rows)
        BY <3>2 DEF Read
      <4> QED BY <3>7, <4>1, <4>2, <4>3, <4>4
    <3>9. Ahead' = Ahead
      <4>1. LastServed' <=> p.more = FALSE
        BY <1>3, <3>4 DEF LastServed
      <4>2. p.more = TRUE => Reached' = Reached
        BY <1>3, <3>2, <3>4 DEF Reached
      <4>3. rows' = rows
        BY <1>2
      <4> QED BY <3>2, <3>3, <4>1, <4>2, <4>3 DEF Ahead
    <3>10. Len(walk'.seen) + Len(Served') = Len(walk.seen) + Len(Served)
      <4>1. Len(<<>>) = 0 /\ Len(walk.seen) \in Nat /\ Len(p.rows) \in Nat
        BY <3>2, <3>3
      <4>2. Len(walk'.seen) + Len(Served') = (Len(walk.seen) + Len(p.rows)) + 0
        BY <3>4, <3>5, <3>8, <4>1
      <4>3. (Len(walk.seen) + Len(p.rows)) + 0 = Len(walk.seen) + Len(p.rows)
        BY <4>1
      <4> QED BY <3>2, <4>2, <4>3
    <3>11. ListSound'
      BY <1>2 DEF WalkInv, ListSound
    <3>12. WalkSound'
      BY <1>2, <3>6, <3>8, <3>9, <3>10, <3>11, WalkKept DEF WalkInv
    <3> QED BY <3>6, <3>11, <3>12 DEF WalkKnown
  <2> QED BY <2>4, <2>5, <2>6
<1> QED BY <1>4, <1>5

\* Before the first page all rows are ahead.
LEMMA WalkInit == RequestInit => WalkInv
<1> SUFFICES ASSUME RequestInit PROVE WalkInv
  OBVIOUS
<1>1. /\ rows = [i \in 1..InitialRows |-> i] /\ made = InitialRows /\ gone = {} /\ request = Idle
      /\ walk = [state |-> "before", offset |-> 0, pages |-> 0, seen |-> <<>>]
      /\ InitialRows \in Nat /\ MaxRows \in Nat /\ InitialRows <= MaxRows
  BY RequestAssumption DEF RequestInit
<1>2. /\ walk.state = "before" /\ walk.offset = 0 /\ walk.pages = 0 /\ walk.seen = <<>>
      /\ request.kind = "call" /\ request.phase = "idle" /\ ~ PageServed
  BY <1>1, IdleKnown DEF PageServed
<1>3. DOMAIN rows = 1..InitialRows /\ \A i \in DOMAIN rows : rows[i] = i
  BY <1>1
<1>4. Range(rows) = 1..InitialRows
  BY <1>3 DEF Range
<1>5. ListSound
  <2>1. rows \in Seq(1..made)
    BY <1>1
  <2> QED BY <1>1, <1>3, <1>4, <2>1 DEF ListSound
<1>6. PageKnown
  BY <1>1, <1>2 DEF PageKnown
<1>7. Served = <<>> /\ Reached = 0 /\ ~ LastServed /\ Range(<<>>) = {}
  BY <1>2 DEF Served, Reached, LastServed, Range
<1>8. Read = {} /\ Ahead = 1..InitialRows
  <2>1. Read = {}
    BY <1>2, <1>7 DEF Read
  <2>2. \A j \in DOMAIN rows : j > 0
    BY <1>1, <1>3
  <2> QED BY <1>3, <1>7, <2>1, <2>2 DEF Ahead
<1>9. Skipped = {} /\ Ahead \cap Read = {} /\ Cardinality({}) = 0
  BY <1>8, FS_EmptySet DEF Skipped
<1>10. WalkSound
  <2>1. Len(<<>>) = 0
    OBVIOUS
  <2>2. made - InitialRows = 0
    BY <1>1
  <2>3. Len(walk.seen) = 0 /\ Len(Served) = 0 /\ Cardinality(Ahead \cap Read) = 0
        /\ Cardinality(Read) = 0
    BY <1>2, <1>7, <1>8, <1>9, <2>1
  <2>4. Cardinality(Skipped) = 0 /\ Cardinality(gone) = 0
    BY <1>1, <1>9
  <2> QED BY <2>2, <2>3, <2>4 DEF WalkSound
<1> QED BY <1>5, <1>6, <1>10 DEF WalkInv

\* Every step keeps the walk sound, until something else ends it; then the
\* application asks for nothing more.
LEMMA WalkStep ==
    ASSUME RequestKnown, WalkKnown, RequestNext
    PROVE  WalkKnown'
<1>1. CASE WalkInv
  <2>1. WalkInv' => WalkKnown'
    BY DEF WalkInv, WalkKnown
  <2> QED BY <1>1, <2>1, WalkAsk, WalkToken, WalkRows, WalkAnswer, WalkReceive DEF RequestNext
<1>2. CASE EndedByAnother
  <2>1. /\ ~ AskForPage /\ ~ (\E kind \in Kinds : AskOnce(kind))
        /\ ~ (\E i : InsertRow(i)) /\ ~ (\E i : RemoveRow(i))
    BY <1>2 DEF EndedByAnother, AskForPage, AskOnce, InsertRow, RemoveRow
  <2>2. ~ TokenFails /\ ~ Send /\ ~ Answer /\ ~ Receive
    BY <1>2 DEF EndedByAnother, TokenFails, Send, Answer, Receive
  <2> QED BY <2>1, <2>2 DEF RequestNext
<1> QED BY <1>1, <1>2 DEF WalkKnown, WalkInv

\* A walk that came to the engine's last page has nothing ahead and nothing on its way:
\* what it missed was skipped, and what it read again came again.
LEMMA WalkTold ==
    ASSUME WalkInv, walk.state = "complete"
    PROVE  WalkSeesTheList
<1>1. ~ PageServed /\ walk.seen \in Seq(1..made)
  BY DEF WalkInv, PageKnown, PageServed
<1>2. Served = <<>> /\ Range(<<>>) = {} /\ LastServed
  BY <1>1 DEF Served, LastServed, Range
<1>3. Read = Range(walk.seen) /\ Ahead = {}
  BY <1>2 DEF Read, Ahead
<1>4. DOMAIN walk.seen = 1..Len(walk.seen) /\ Len(walk.seen) \in Nat
  BY <1>1
<1>5. ASSUME NEW r PROVE /\ Times(r) \in Nat
                         /\ Times(r) = 0 <=> r \notin Range(walk.seen)
  <2> DEFINE at == {i \in DOMAIN walk.seen : walk.seen[i] = r}
  <2>1. IsFiniteSet(at)
    <3>1. IsFiniteSet(1..Len(walk.seen))
      <4>1. PICK n \in Nat : n = Len(walk.seen)
        BY <1>4
      <4> QED BY <4>1, FS_Interval
    <3>2. at \subseteq 1..Len(walk.seen)
      BY <1>4
    <3> QED BY <3>1, <3>2, FS_Subset
  <2>2. at = {} <=> r \notin Range(walk.seen)
    BY DEF Range
  <2>3. Times(r) = Cardinality(at)
    BY DEF Times
  <2> HIDE DEF at
  <2>4. Cardinality(at) \in Nat /\ (Cardinality(at) = 0 <=> at = {})
    BY <2>1, FS_CardinalityType, FS_EmptySet
  <2> QED BY <2>2, <2>3, <2>4
<1>6. {r \in (1..InitialRows) \ gone : Times(r) = 0} = Skipped
  BY <1>3, <1>5 DEF Skipped
<1>7. {r \in 1..made : Times(r) > 0} = Read
  <2>1. Range(walk.seen) \subseteq 1..made
    BY <1>1, Entry DEF Range
  <2>2. \A r : Times(r) > 0 <=> Times(r) # 0
    <3> TAKE r
    <3>1. PICK n \in Nat : n = Times(r)
      BY <1>5
    <3> QED BY <3>1
  <2> QED BY <1>3, <1>5, <2>1, <2>2
<1>8. Cardinality(Skipped) <= Cardinality(gone)
  BY DEF WalkInv, WalkSound
<1>9. Len(walk.seen) - Cardinality(Read) <= Inserted
  <2>1. Len(walk.seen) + 0 + 0 <= Cardinality(Read) + (made - InitialRows)
    <3>1. Len(Served) = 0
      BY <1>2
    <3>2. Cardinality(Ahead \cap Read) = 0
      BY <1>3, FS_EmptySet
    <3> QED BY <3>1, <3>2 DEF WalkInv, WalkSound
  <2>2. Cardinality(Read) \in Nat
    BY RowsFinite, FS_CardinalityType DEF WalkInv
  <2>3. made \in Nat /\ InitialRows \in Nat
    BY RequestAssumption DEF WalkInv, ListSound
  <2> QED BY <1>4, <2>1, <2>2, <2>3 DEF Inserted
<1> QED BY <1>6, <1>7, <1>8, <1>9 DEF WalkSeesTheList

RequestsSound == RequestKnown /\ WalkKnown

LEMMA RequestsInit == Init => RequestsSound
BY KnownInit, WalkInit DEF Init, RequestsSound, WalkInv, WalkKnown

LEMMA RequestsStep ==
    ASSUME RequestsSound, [Next]_vars
    PROVE  RequestsSound'
<1>1. CASE RequestNext
  BY <1>1, KnownStep, WalkStep DEF RequestsSound
<1>2. CASE UNCHANGED requestVars
  <2>1. UNCHANGED <<rows, made, gone, request, walk, outcome>>
    BY <1>2 DEF requestVars
  <2>2. RequestKnown'
    BY <2>1 DEF RequestsSound, RequestKnown
  <2>3. PageServed' = PageServed
    BY <2>1 DEF PageServed
  <2>4. PageKnown'
    BY <2>1, <2>3 DEF RequestsSound, WalkKnown, PageKnown
  <2>5. Served' = Served /\ Reached' = Reached /\ LastServed' = LastServed
    BY <2>1, <2>3 DEF Served, Reached, LastServed
  <2>6. ListSound' /\ (EndedByAnother => EndedByAnother')
    BY <2>1 DEF RequestsSound, WalkKnown, ListSound, EndedByAnother
  <2> QED BY <2>1, <2>2, <2>4, <2>5, <2>6, SameView DEF RequestsSound, WalkKnown
<1> QED BY <1>1, <1>2 DEF Next, vars

\* A walk that came to the engine's last page missed no more of the rows there
\* all the time than were removed, and read no more again than were inserted.
THEOREM WalkMissesOnlyForRemoved == Spec => []WalkSeesTheList
<1>1. RequestsSound => WalkSeesTheList
  <2>1. CASE walk.state = "complete" /\ request.answer.by = "success"
    BY <2>1, WalkTold DEF RequestsSound, WalkKnown, WalkInv, EndedByAnother
  <2>2. CASE ~ (walk.state = "complete" /\ request.answer.by = "success")
    BY <2>2 DEF WalkSeesTheList
  <2> QED BY <2>1, <2>2
<1>2. RequestsSound /\ [Next]_vars => RequestsSound'
  BY RequestsStep
<1> QED BY <1>1, <1>2, RequestsInit, PTL DEF Spec

\* The whole client has the shape its modules give it.
THEOREM TypeCorrect == Spec => []TypeOK
<1> DEFINE Uses == use \in {"notifications", "requests"}
<1>1. Init => Uses
  BY DEF Init
<1>2. Uses /\ [Next]_vars => Uses'
  BY DEF Next, vars
<1>3. RequestsSound /\ [Next]_vars => RequestsSound'
  BY RequestsStep
<1>4. RequestsSound => RequestTypeOK
  <2> SUFFICES ASSUME RequestsSound PROVE RequestTypeOK
    OBVIOUS
  <2>1. outcome.is \in Outcomes
    <3>1. CASE outcome = NoOutcome
      BY <3>1 DEF NoOutcome, Outcomes
    <3>2. CASE outcome # NoOutcome
      <4>1. PICK kind, call, a : kind = request.kind /\ call = request.call /\ a = request.answer
        OBVIOUS
      <4>2. /\ kind \in Kinds /\ call \in CallsOf(kind) \cup {NoCall}
            /\ outcome = OutcomeOf(kind, call, a)
        BY <3>2, <4>1 DEF RequestsSound, RequestKnown
      <4>3. OutcomeOf(kind, call, a).is \in Outcomes
        BY <4>2, OutcomeTyped
      <4> QED BY <4>2, <4>3
    <3> QED BY <3>1, <3>2
  <2>2. /\ rows \in Seq(1..made) /\ made \in InitialRows..MaxRows /\ gone \subseteq 1..made
        /\ walk.offset \in Nat /\ walk.seen \in Seq(1..made)
        /\ walk.state \in {"before", "going", "complete", "stopped", "failed"}
    BY DEF RequestsSound, WalkKnown, ListSound, PageKnown
  <2>3. /\ request.kind \in Kinds /\ request.call \in CallsOf(request.kind) \cup {NoCall}
        /\ request.phase \in {"idle", "token", "sent", "answered"}
    BY DEF RequestsSound, RequestKnown
  <2> QED BY <2>1, <2>2, <2>3 DEF RequestTypeOK, Outcomes
<1>5. Uses /\ ClientTypeOK /\ RequestTypeOK => TypeOK
  BY DEF TypeOK
<1> QED BY <1>1, <1>2, <1>3, <1>4, <1>5, RequestsInit, ClientTypeCorrect, PTL DEF Spec
=============================================================================
