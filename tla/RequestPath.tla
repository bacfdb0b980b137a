----------------------------- MODULE RequestPath -----------------------------
(***************************************************************************)
(* The way of a page's request to the backend: utils/api.js turns the      *)
(* method and path a page asks for into a named operation, and the main    *)
(* process, which trusts no path of the page, turns the operation back     *)
(* into a method and a path from a table of its own.                       *)
(*                                                                         *)
(* A request is [method, path, query, body]; query is <<>> or a pair of    *)
(* name and value, body is "none" or "config".                              *)
(***************************************************************************)
EXTENDS Integers, Sequences

Get(path) == [method |-> "GET", path |-> path, query |-> <<>>, body |-> "none"]
Post(path) == [Get(path) EXCEPT !.method = "POST"]
Put(path) == [Get(path) EXCEPT !.method = "PUT", !.body = "config"]
With(request, name, value) == [request EXCEPT !.query = <<name, value>>]

Refused == [op |-> "refused"]

-----------------------------------------------------------------------------
(* The page *)

Route(method, path, param, op) == [method |-> method, path |-> path, param |-> param, op |-> op]

Routes ==
  { Route("GET", "/api/status", "none", "status.get"),
    Route("GET", "/api/config/defaults", "none", "config.defaults.get"),
    Route("GET", "/api/config", "none", "config.get"),
    Route("PUT", "/api/config", "none", "config.update"),
    Route("GET", "/api/topology", "refresh", "topology.get"),
    Route("GET", "/api/analysis", "none", "analysis.get"),
    Route("GET", "/api/readiness", "refresh", "readiness.get"),
    Route("GET", "/api/msi", "refresh", "msi.get"),
    Route("GET", "/api/logs", "limit", "logs.get"),
    Route("POST", "/api/start", "none", "lifecycle.start"),
    Route("POST", "/api/stop", "none", "lifecycle.stop"),
    Route("POST", "/api/recover", "none", "lifecycle.recover") }

\* booleanParam, integerParam: what becomes of the query; no parameters, or the one the route has.
\* A missing refresh is FALSE, a missing limit is left out.
Params(param, query) ==
  CASE param = "refresh" -> <<"refresh", query = <<"refresh", 1>> >>
    [] param = "limit" -> query
    [] OTHER -> <<>>

\* operationForRequest; refused: an unknown route, a parameter the route does not have, a refresh
\* that is not 0 or 1
OperationFor(request) ==
  LET fits(r) ==
        /\ r.method = request.method /\ r.path = request.path
        /\ request.query # <<>> =>
             /\ request.query[1] = r.param
             /\ r.param = "refresh" => request.query[2] \in {0, 1}
  IN IF \E r \in Routes : fits(r)
       THEN LET r == CHOOSE r \in Routes : fits(r) IN
            [op |-> r.op, params |-> Params(r.param, request.query), body |-> request.body]
       ELSE Refused

-----------------------------------------------------------------------------
(* The main process *)

Operation(op, method, path, param, body) ==
  [op |-> op, method |-> method, path |-> path, param |-> param, body |-> body]

(* Mutant: the table allows fewer lines than the page asks for. *)
LimitMaxSmaller == 200

\* The limit of the log lines: integerParam with min and max.
LimitMax == 500

\* BACKEND_OPERATION_ALLOWLIST
Allowlist ==
  { Operation("status.get", "GET", "/api/status", "none", "none"),
    Operation("config.defaults.get", "GET", "/api/config/defaults", "none", "none"),
    Operation("config.get", "GET", "/api/config", "none", "none"),
    Operation("config.update", "PUT", "/api/config", "none", "config"),
    Operation("topology.get", "GET", "/api/topology", "refresh", "none"),
    Operation("analysis.get", "GET", "/api/analysis", "none", "none"),
    Operation("readiness.get", "GET", "/api/readiness", "refresh", "none"),
    Operation("msi.get", "GET", "/api/msi", "refresh", "none"),
    Operation("logs.get", "GET", "/api/logs", "limit", "none"),
    Operation("lifecycle.start", "POST", "/api/start", "none", "none"),
    Operation("lifecycle.stop", "POST", "/api/stop", "none", "none"),
    Operation("lifecycle.recover", "POST", "/api/recover", "none", "none") }

\* validateOperationParams, and the type and range checks of the two appends
ParamsAllowed(operation, params) ==
  params = <<>> \/ /\ params[1] = operation.param
                   /\ operation.param = "refresh" => params[2] \in BOOLEAN
                   /\ operation.param = "limit" => params[2] \in 1 .. LimitMax

\* appendBooleanParam, appendIntegerParam
AppendParams(params) ==
  IF params # <<>> /\ params[1] = "refresh"
    THEN IF params[2] THEN <<"refresh", 1>> ELSE <<>>
    ELSE params

\* resolveBackendOperation
ResolveBackendOperation(request) ==
  IF \E o \in Allowlist : o.op = request.op
    THEN LET o == CHOOSE o \in Allowlist : o.op = request.op IN
         IF ParamsAllowed(o, request.params) /\ o.body = request.body
           THEN [method |-> o.method, path |-> o.path, query |-> AppendParams(request.params),
                 body |-> request.body]
           ELSE Refused
    ELSE Refused

\* requestJson, then proxyBackendRequest: what reaches the backend
Arriving(request) ==
  LET operation == OperationFor(request) IN
  IF operation = Refused THEN Refused ELSE ResolveBackendOperation(operation)
=============================================================================
