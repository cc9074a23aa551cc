------------------------------- MODULE RestCalls --------------------------------
(***************************************************************************)
(* The REST sub-clients against the routes of the engine.  A method of a     *)
(* sub-client asks by a verb and a path and promises its caller nothing, the *)
(* body of the answer, or the `data' of the body.  The router has an action  *)
(* of a controller for a verb and a path, which answers with no content, a   *)
(* bare body, or a body that holds `data'.  "id" stands for an encoded        *)
(* argument of the path; query strings and request bodies are left out.      *)
(***************************************************************************)
EXTENDS ErrorMapper

Asks(verb, path, promise) == [verb |-> verb, path |-> path, promise |-> promise]

\* Mutant: the `data' of the envelope is not taken out.
TimerScheduleEnvelopes ==
    {Asks("get", <<"timer-schedules">>, "body"), Asks("get", <<"timer-schedules", "id">>, "body"),
     Asks("put", <<"timer-schedules", "id", "enable">>, "nothing"),
     Asks("put", <<"timer-schedules", "id", "disable">>, "nothing")}

-----------------------------------------------------------------------------
(* The sub-clients                                                         *)

\* getAll, get, getVersions, deploy, enable, disable, undeploy, deleteVersion.
CatalogueCalls(name) ==
    {Asks("get", <<name>>, "body"), Asks("get", <<name, "id">>, "body"),
     Asks("get", <<name, "id", "versions">>, "body"), Asks("post", <<name>>, "body"),
     Asks("put", <<name, "id", "enable">>, "nothing"),
     Asks("put", <<name, "id", "disable">>, "nothing"),
     Asks("delete", <<name, "id">>, "nothing"),
     Asks("delete", <<name, "id", "versions", "id">>, "nothing")}

ProcessClient ==
    CatalogueCalls("processes") \cup {Asks("post", <<"processes", "id", "start">>, "body")}

\* evaluate, evaluateByVersion, evaluateService.
DecisionClient ==
    CatalogueCalls("decisions") \cup
    {Asks("post", <<"decisions", "id", "evaluate">>, "body"),
     Asks("post", <<"decisions", "id", "versions", "id", "evaluate">>, "body"),
     Asks("post", <<"decisions", "id", "services", "id", "evaluate">>, "body")}

ProcessInstanceClient ==
    {Asks("put", <<"process-instances", "id", "abort">>, "nothing"),
     Asks("delete", <<"process-instances", "id">>, "nothing"),
     Asks("put", <<"process-instances", "id", "retry">>, "nothing")}

UserTaskClient ==
    {Asks("put", <<"user-tasks", "id", step>>, "nothing") : step \in {"finish", "cancel"}}

ManualTaskClient ==
    {Asks("put", <<"manual-tasks", "id", step>>, "nothing") : step \in {"confirm", "cancel"}}

EventClient ==
    {Asks("post", <<event, "id", "trigger">>, "body") :
        event \in {"messages", "signals", "timer-events", "escalations"}}

AdHocSubprocessClient ==
    {Asks("get", <<"adhoc-subprocesses", "id", "activities">>, "data"),
     Asks("post", <<"adhoc-subprocesses", "id", "activities", "id", "activate">>, "body"),
     Asks("post", <<"adhoc-subprocesses", "id", "complete">>, "body"),
     Asks("get", <<"adhoc-subprocesses", "id", "status">>, "body")}

TimerScheduleClient ==
    {Asks("get", <<"timer-schedules">>, "data"), Asks("get", <<"timer-schedules", "id">>, "data"),
     Asks("put", <<"timer-schedules", "id", "enable">>, "nothing"),
     Asks("put", <<"timer-schedules", "id", "disable">>, "nothing")}

\* info() and stats(); health() and metrics() go by methods of their own.
EngineClient == {Asks("get", <<"info">>, "body"), Asks("get", <<"stats">>, "body")}

EveryCall == ProcessClient \cup DecisionClient \cup ProcessInstanceClient \cup UserTaskClient
             \cup ManualTaskClient \cup EventClient \cup AdHocSubprocessClient
             \cup TimerScheduleClient \cup EngineClient

\* The one call that carries no token.
SkipsAuth(call) == call.path = <<"info">>

-----------------------------------------------------------------------------
(* The router and the controllers' successful answers                      *)

Route(verb, path, body, refusals) ==
    [verb |-> verb, path |-> path, body |-> body, refusals |-> refusals]

CatalogueRoutes(name, refusals) ==
    {Route("get", <<name>>, "bare", refusals), Route("get", <<name, "id">>, "bare", refusals),
     Route("get", <<name, "id", "versions">>, "bare", refusals),
     Route("post", <<name>>, "bare", refusals),
     Route("put", <<name, "id", "enable">>, "none", refusals),
     Route("put", <<name, "id", "disable">>, "none", refusals),
     Route("delete", <<name, "id">>, "none", refusals),
     Route("delete", <<name, "id", "versions", "id">>, "none", refusals)}

DefinitionRoutes ==
    CatalogueRoutes("processes", ProcessRefusals)
    \cup {Route("post", <<"processes", "id", "start">>, "bare", ProcessRefusals)}
    \cup CatalogueRoutes("decisions", DecisionRefusals)
    \cup {Route("post", <<"decisions", "id", "evaluate">>, "bare", DecisionRefusals),
          Route("post", <<"decisions", "id", "versions", "id", "evaluate">>, "bare",
                DecisionRefusals),
          Route("post", <<"decisions", "id", "services", "id", "evaluate">>, "bare",
                DecisionRefusals)}

InstanceRoutes ==
    {Route("put", <<"user-tasks", "id", s>>, "none", UserTaskRefusals) : s \in {"finish", "cancel"}}
    \cup {Route("put", <<"manual-tasks", "id", s>>, "none", ManualTaskRefusals) :
             s \in {"confirm", "cancel"}}
    \cup {Route("put", <<"process-instances", "id", s>>, "none", ProcessInstanceRefusals) :
             s \in {"abort", "retry"}}
    \cup {Route("delete", <<"process-instances", "id">>, "none", ProcessInstanceRefusals)}

EventRoutes ==
    {Route("get", <<"timer-schedules">>, "data", ScheduleRefusals),
     Route("get", <<"timer-schedules", "id">>, "data", ScheduleRefusals),
     Route("put", <<"timer-schedules", "id", "enable">>, "data", ScheduleRefusals),
     Route("put", <<"timer-schedules", "id", "disable">>, "data", ScheduleRefusals),
     Route("post", <<"timer-events", "id", "trigger">>, "bare", TimerRefusals),
     Route("post", <<"messages", "id", "trigger">>, "bare", PublishRefusals),
     Route("post", <<"signals", "id", "trigger">>, "bare", PublishRefusals),
     Route("post", <<"escalations", "id", "trigger">>, "bare", EscalationRefusals)}

AdHocRoutes ==
    {Route("get", <<"adhoc-subprocesses", "id", "activities">>, "data", AdHocRefusals),
     Route("post", <<"adhoc-subprocesses", "id", "activities", "id", "activate">>, "bare",
           AdHocRefusals),
     Route("post", <<"adhoc-subprocesses", "id", "complete">>, "bare", AdHocRefusals),
     Route("get", <<"adhoc-subprocesses", "id", "status">>, "bare", AdHocRefusals)}

Routes == DefinitionRoutes \cup InstanceRoutes \cup EventRoutes \cup AdHocRoutes
          \cup {Route("get", <<"info">>, "bare", {}), Route("get", <<"stats">>, "bare",
                With(503, {"service_unavailable"}))}

Serves(call) == {r \in Routes : r.verb = call.verb /\ r.path = call.path}

\* A read of the database that fails is answered with an empty list.
HidesFailedReads(call) == call.verb = "get" /\ call.path \in {<<"processes">>, <<"decisions">>}
=============================================================================
