--------------------------- MODULE Dashboard_proofs ---------------------------
(***************************************************************************)
(* Proofs about the dashboard: the window (Renderer), for any sets of      *)
(* request slots, presets and threads of the store, and its live snapshots *)
(* (LiveStream), for any number of requests, of changes of visibility, of  *)
(* crashes and of events under way.                                        *)
(*                                                                         *)
(* Window.  That requests arrive is a fact about two tables: each of the   *)
(* requests a part sends fits one route and one operation, and its         *)
(* parameter survives both conversions.  The flag busy needs only that it  *)
(* is set together with a request.  The store has no lock; the argument    *)
(* that it needs none goes over both editors: page and wizard wait for one *)
(* update each (Awaited), the wizard is open exactly while the update is   *)
(* its own (OwnStore), so that two updates never meet (OneAtATime) as long *)
(* as none has been given up.                                              *)
(*                                                                         *)
(* Live snapshots.  FollowsThePage speaks of an empty channel only, so it  *)
(* is not inductive: what is under way must be known as well.  LastSays:   *)
(* the last message on its way asks for what the page wants now.           *)
(* NeverStranded stands on the type invariant alone: each step that clears *)
(* liveStreamRequest either stops the stream or asks for a timer.          *)
(***************************************************************************)
EXTENDS Renderer, LiveStream, TLAPS

-----------------------------------------------------------------------------
(* The way of a request *)

(* A route is given by its method and path, and a named operation is one line of main's table. *)
LEMMA OneRoute ==
  ASSUME NEW r1 \in Routes, NEW r2 \in Routes, r1.method = r2.method, r1.path = r2.path
  PROVE  r1 = r2
BY DEF Routes, Route

(* What the page's table makes of a request that fits a route. *)
LEMMA RouteFound ==
  ASSUME NEW request, NEW r \in Routes, r.method = request.method, r.path = request.path,
         request.query # <<>> =>
           request.query[1] = r.param /\ (r.param = "refresh" => request.query[2] \in {0, 1})
  PROVE  OperationFor(request) =
           [op |-> r.op, params |-> Params(r.param, request.query), body |-> request.body]
<1> DEFINE fits(x) ==
             /\ x.method = request.method /\ x.path = request.path
             /\ request.query # <<>> =>
                  /\ request.query[1] = x.param
                  /\ x.param = "refresh" => request.query[2] \in {0, 1}
           found == CHOOSE x \in Routes : fits(x)
<1>1. fits(r)  OBVIOUS
<1>2. \A x \in Routes : fits(x) => x = r
  BY OneRoute
<1>3. OperationFor(request) =
        IF \E x \in Routes : fits(x)
          THEN [op |-> found.op, params |-> Params(found.param, request.query),
                body |-> request.body]
          ELSE Refused
  BY Zenon DEF OperationFor
<1> HIDE DEF fits
<1>4. found = r  BY <1>1, <1>2
<1> HIDE DEF found
<1> QED  BY <1>1, <1>3, <1>4

LEMMA OneOperation ==
  ASSUME NEW o1 \in Allowlist, NEW o2 \in Allowlist, o1.op = o2.op
  PROVE  o1 = o2
BY DEF Allowlist, Operation

(* What main makes of an operation of its table with parameters it allows. *)
LEMMA Resolved ==
  ASSUME NEW request, NEW o \in Allowlist, o.op = request.op, o.body = request.body,
         ParamsAllowed(o, request.params)
  PROVE  ResolveBackendOperation(request) =
           [method |-> o.method, path |-> o.path, query |-> AppendParams(request.params),
            body |-> request.body]
<1> DEFINE found == CHOOSE x \in Allowlist : x.op = request.op
<1>1. \A x \in Allowlist : x.op = request.op => x = o
  BY OneOperation
<1>2. ResolveBackendOperation(request) =
        IF \E x \in Allowlist : x.op = request.op
          THEN IF ParamsAllowed(found, request.params) /\ found.body = request.body
                 THEN [method |-> found.method, path |-> found.path,
                       query |-> AppendParams(request.params), body |-> request.body]
                 ELSE Refused
          ELSE Refused
  BY Zenon DEF ResolveBackendOperation
<1>3. found = o  BY <1>1
<1> HIDE DEF found
<1> QED  BY <1>2, <1>3

Plain(method, path) == [method |-> method, path |-> path, query |-> <<>>, body |-> "none"]

(* A request that fits a line of both tables, and whose parameter survives, arrives as sent. *)
LEMMA ArrivingComposed ==
  ASSUME NEW request, NEW r \in Routes, NEW o \in Allowlist,
         r.method = request.method, r.path = request.path,
         request.query # <<>> =>
           request.query[1] = r.param /\ (r.param = "refresh" => request.query[2] \in {0, 1}),
         o.op = r.op, o.body = request.body, o.method = r.method, o.path = r.path,
         ParamsAllowed(o, Params(r.param, request.query)),
         AppendParams(Params(r.param, request.query)) = request.query
  PROVE  Arriving(request) =
           [method |-> request.method, path |-> request.path, query |-> request.query,
            body |-> request.body]
<1> DEFINE op == [op |-> r.op, params |-> Params(r.param, request.query), body |-> request.body]
<1>1. OperationFor(request) = op  BY RouteFound
<1>2. op # Refused  BY DEF Refused, Routes, Route
<1>3. ResolveBackendOperation(op) =
        [method |-> o.method, path |-> o.path, query |-> AppendParams(op.params),
         body |-> op.body]
  <2>1. o.op = op.op /\ o.body = op.body /\ ParamsAllowed(o, op.params)  OBVIOUS
  <2> HIDE DEF op
  <2> QED  BY <2>1, Resolved
<1>4. op.params = Params(r.param, request.query) /\ op.body = request.body  OBVIOUS
<1> HIDE DEF op
<1> QED  BY <1>1, <1>2, <1>3, <1>4 DEF Arriving

(* Requests without a query. *)
LEMMA PlainArrives ==
  ASSUME NEW method, NEW path, NEW op, NEW param, Route(method, path, param, op) \in Routes,
         Operation(op, method, path, param, "none") \in Allowlist, param \in {"none", "limit"}
  PROVE  Arriving(Plain(method, path)) = Plain(method, path)
<1> DEFINE q == Plain(method, path)
           r == Route(method, path, param, op)
           o == Operation(op, method, path, param, "none")
<1>1. /\ r.method = q.method /\ r.path = q.path /\ r.op = o.op /\ r.param = param /\ q.query = <<>>
      /\ o.op = r.op /\ o.body = q.body /\ o.method = r.method /\ o.path = r.path
  BY DEF Plain, Route, Operation
<1>2. q = [method |-> q.method, path |-> q.path, query |-> q.query, body |-> q.body]
  BY DEF Plain
<1>3. Params(r.param, q.query) = <<>>  BY <1>1 DEF Params
<1>4. ParamsAllowed(o, <<>>) /\ AppendParams(<<>>) = <<>>
  BY DEF ParamsAllowed, AppendParams
<1>5. r \in Routes /\ o \in Allowlist  OBVIOUS
<1> HIDE DEF q, r, o
<1>6. Arriving(q) = q  BY <1>1, <1>2, <1>3, <1>4, <1>5, ArrivingComposed
<1> QED  BY <1>6 DEF q

(* A parameter that is 0 or 1 on the page's side and a truth value between page and main. *)
LEMMA FlagPasses ==
  ASSUME NEW query \in {<<>>, <<"refresh", 1>>}, NEW o \in Allowlist, o.param = "refresh"
  PROVE  /\ ParamsAllowed(o, Params("refresh", query))
         /\ AppendParams(Params("refresh", query)) = query
<1> DEFINE yes == query = <<"refresh", 1>>
           p == <<"refresh", yes>>
<1>1. Params("refresh", query) = p
  BY Zenon DEF Params
<1>2. p[1] = "refresh" /\ p[2] \in BOOLEAN /\ p # <<>>  OBVIOUS
<1>3. CASE query = <<"refresh", 1>>
  <2>1. yes = TRUE  BY <1>3
  <2>2. p = <<"refresh", TRUE>>  BY <2>1
  <2>3. AppendParams(<<"refresh", TRUE>>) = <<"refresh", 1>>
    BY DEF AppendParams
  <2> HIDE DEF p, yes
  <2>4. ParamsAllowed(o, p)  BY <1>2 DEF ParamsAllowed
  <2> QED  BY <1>1, <1>3, <2>2, <2>3, <2>4
<1>4. CASE query = <<>>
  <2>1. yes = FALSE  BY <1>4
  <2>2. p = <<"refresh", FALSE>>  BY <2>1
  <2>3. AppendParams(<<"refresh", FALSE>>) = <<>>
    BY DEF AppendParams
  <2> HIDE DEF p, yes
  <2>4. ParamsAllowed(o, p)  BY <1>2 DEF ParamsAllowed
  <2> QED  BY <1>1, <1>4, <2>2, <2>3, <2>4
<1> QED  BY <1>3, <1>4

LEMMA FlaggedArrives ==
  ASSUME NEW path \in {"/api/topology", "/api/readiness", "/api/msi"},
         NEW query \in {<<>>, <<"refresh", 1>>}
  PROVE  LET q == [method |-> "GET", path |-> path, query |-> query, body |-> "none"]
         IN Arriving(q) = q
<1> DEFINE q == [method |-> "GET", path |-> path, query |-> query, body |-> "none"]
<1>1. PICK r \in Routes : r.method = "GET" /\ r.path = path /\ r.param = "refresh"
  BY DEF Routes, Route
<1>2. PICK o \in Allowlist : /\ o.op = r.op /\ o.method = "GET" /\ o.path = path
                           /\ o.param = "refresh" /\ o.body = "none"
  BY <1>1 DEF Routes, Route, Allowlist, Operation
<1>3. /\ ParamsAllowed(o, Params(r.param, query))
      /\ AppendParams(Params(r.param, query)) = query
  BY <1>1, <1>2, FlagPasses
<1>4. query # <<>> => query[1] = "refresh" /\ query[2] \in {0, 1}  OBVIOUS
<1>5. q.method = "GET" /\ q.path = path /\ q.body = "none" /\ q.query = query
  OBVIOUS
<1> HIDE DEF q
<1>6. Arriving(q) = [method |-> q.method, path |-> q.path, query |-> q.query, body |-> q.body]
  BY <1>1, <1>2, <1>3, <1>4, <1>5, ArrivingComposed
<1> QED  BY <1>5, <1>6 DEF q

(* The number of log lines is within main's limit. *)
LEMMA LimitArrives == Arriving(FirstRequest("logs")) = FirstRequest("logs")
<1> DEFINE q == FirstRequest("logs")
           r == Route("GET", "/api/logs", "limit", "logs.get")
           o == Operation("logs.get", "GET", "/api/logs", "limit", "none")
           p == <<"limit", 500>>
<1>1. q = [method |-> "GET", path |-> "/api/logs", query |-> p, body |-> "none"]
  BY DEF With, Get, FirstRequest
<1>2. /\ r \in Routes /\ o \in Allowlist
      /\ r.method = "GET" /\ r.path = "/api/logs" /\ r.param = "limit"
      /\ o.op = r.op /\ o.method = "GET" /\ o.path = "/api/logs" /\ o.param = "limit"
      /\ o.body = "none"
  BY DEF Routes, Route, Allowlist, Operation
<1>3. p # <<>> /\ p[1] = "limit" /\ p[2] \in 1 .. LimitMax  BY DEF LimitMax
<1>4. /\ q.method = "GET" /\ q.path = "/api/logs" /\ q.body = "none" /\ q.query = p
      /\ q = [method |-> q.method, path |-> q.path, query |-> q.query, body |-> q.body]
  BY <1>1
<1> HIDE DEF q, r, o, p
<1>5. Params(r.param, q.query) = p  BY <1>2, <1>4 DEF Params
<1>6. ParamsAllowed(o, p)  BY <1>2, <1>3 DEF ParamsAllowed
<1>7. AppendParams(p) = p  BY <1>3 DEF AppendParams
<1>8. Arriving(q) = q
  BY <1>2, <1>3, <1>4, <1>5, <1>6, <1>7, ArrivingComposed
<1> QED  BY <1>8 DEF q

(* The analysis and the three orders. *)
LEMMA PlainOnesArrive ==
  \A q \in {Get("/api/analysis")} \cup Orders : Arriving(q) = q
<1>1. Arriving(Get("/api/analysis")) = Get("/api/analysis")
  <2>1. /\ Route("GET", "/api/analysis", "none", "analysis.get") \in Routes
        /\ Operation("analysis.get", "GET", "/api/analysis", "none", "none") \in Allowlist
    BY DEF Routes, Allowlist
  <2> QED  BY <2>1, PlainArrives DEF Plain, Get
<1>2. \A path : Post(path) = Plain("POST", path)
  BY DEF Post, Get, Plain
<1>3. /\ Route("POST", "/api/start", "none", "lifecycle.start") \in Routes
      /\ Route("POST", "/api/stop", "none", "lifecycle.stop") \in Routes
      /\ Route("POST", "/api/recover", "none", "lifecycle.recover") \in Routes
  BY DEF Routes
<1>4. /\ Operation("lifecycle.start", "POST", "/api/start", "none", "none") \in Allowlist
      /\ Operation("lifecycle.stop", "POST", "/api/stop", "none", "none") \in Allowlist
      /\ Operation("lifecycle.recover", "POST", "/api/recover", "none", "none") \in Allowlist
  BY DEF Allowlist
<1> QED  BY <1>1, <1>2, <1>3, <1>4, PlainArrives DEF Orders

(* The three reports that can be refreshed. *)
LEMMA ReportsArrive ==
  ASSUME NEW path \in {"/api/topology", "/api/readiness", "/api/msi"}
  PROVE  /\ Arriving(Get(path)) = Get(path)
         /\ Arriving(With(Get(path), "refresh", 1)) = With(Get(path), "refresh", 1)
<1>1. Get(path) = [method |-> "GET", path |-> path, query |-> <<>>, body |-> "none"]
  BY DEF Get
<1>2. With(Get(path), "refresh", 1)
        = [method |-> "GET", path |-> path, query |-> <<"refresh", 1>>, body |-> "none"]
  BY DEF Get, With
<1> QED  BY <1>1, <1>2, FlaggedArrives

(* Every request a part sends by itself, and every one a button sends. *)
LEMMA FirstArrives ==
  ASSUME NEW p \in Panels \ {"overview"}
  PROVE  Arriving(FirstRequest(p)) = FirstRequest(p)
<1>1. CASE p = "logs"  BY <1>1, LimitArrives
<1>2. CASE p = "analysis"
  BY <1>2, PlainOnesArrive DEF FirstRequest
<1>3. CASE p \in {"readiness", "msi", "topology"}
  <2>1. PICK path \in {"/api/topology", "/api/readiness", "/api/msi"} :
          FirstRequest(p) \in {Get(path), With(Get(path), "refresh", 1)}
    BY <1>3 DEF FirstRequest
  <2> QED  BY <2>1, ReportsArrive
<1> QED  BY <1>1, <1>2, <1>3 DEF Panels

(* Every request a button sends. *)
LEMMA ButtonsArrive ==
  ASSUME NEW p \in Panels, NEW request \in ButtonRequests(p)
  PROVE  Arriving(request) = request
<1>1. CASE p \in {"readiness", "msi"}
  <2>1. PICK path \in {"/api/topology", "/api/readiness", "/api/msi"} :
          FirstRequest(p) = Get(path)
    BY <1>1 DEF FirstRequest
  <2>2. request = With(Get(path), "refresh", 1)
    BY <1>1, <2>1 DEF ButtonRequests
  <2> QED  BY <2>2, ReportsArrive
<1>2. CASE p = "overview"
  BY <1>2, PlainOnesArrive DEF ButtonRequests
<1>3. CASE p \notin {"readiness", "msi", "overview"}
  <2>1. request = FirstRequest(p)  BY <1>3 DEF ButtonRequests
  <2> QED  BY <1>3, <2>1, FirstArrives
<1> QED  BY <1>1, <1>2, <1>3

-----------------------------------------------------------------------------
(* The parts that load reports *)

Asked == [at : {"sent", "answered"}, arrives : BOOLEAN, version : Nat]

Slotted(slots, version) ==
  /\ slots \in [Slots -> {Free} \cup Asked]
  /\ \A s \in Slots : slots[s] # Free => slots[s].arrives
  /\ \A s \in Slots : slots[s].at = "answered" => slots[s].version \in 1 .. version

Shown ==
  /\ panel \in Panels \cup {"settings"} /\ liveVisible \in BOOLEAN /\ game \in BOOLEAN
  /\ truth \in 1 .. MaxTruth /\ data \in {NoData, PausedData} \cup 1 .. truth
  /\ busy \in BOOLEAN

PagesInv == Shown /\ Slotted(sent, truth) /\ BusyHasRequest

(* A slot in use is not free. *)
LEMMA FreeOrAsked == \A r \in Asked : r # Free
BY DEF Asked, Free

(* Facts about the slots: one is taken, one is freed, all are free. *)
LEMMA StoreKeeps ==
  ASSUME NEW slots, NEW version \in Nat, Slotted(slots, version), NEW s \in Slots,
         NEW r \in Asked, r.arrives, r.at = "answered" => r.version \in 1 .. version,
         NEW result, result = [slots EXCEPT ![s] = r]
  PROVE  Slotted(result, version) /\ result[s] # Free
<1>1. result \in [Slots -> {Free} \cup Asked]
  BY DEF Slotted
<1>2. \A q \in Slots : result[q] = IF q = s THEN r ELSE slots[q]
  BY DEF Slotted
<1> QED  BY <1>1, <1>2, FreeOrAsked DEF Slotted

LEMMA FreeKeeps ==
  ASSUME NEW slots, NEW version \in Nat, Slotted(slots, version), NEW s \in Slots,
         NEW result, result = [slots EXCEPT ![s] = Free]
  PROVE  Slotted(result, version)
<1>1. result \in [Slots -> {Free} \cup Asked]
  BY DEF Slotted
<1>2. \A q \in Slots : result[q] = IF q = s THEN Free ELSE slots[q]
  BY DEF Slotted
<1>3. Free.at # "answered"  BY DEF Free
<1> QED  BY <1>1, <1>2, <1>3 DEF Slotted

(* A request that goes out. *)
LEMMA NewRequest ==
  ASSUME NEW request, Arriving(request) = request
  PROVE  LET r == [at |-> "sent", arrives |-> Arriving(request) = request, version |-> NoData]
         IN r \in Asked /\ r.arrives /\ r.at # "answered"
BY DEF Asked, NoData

LEMMA NoneKept ==
  ASSUME NEW version
  PROVE  Slotted([s \in Slots |-> Free], version)
BY DEF Slotted, Free

LEMMA SendKeeps ==
  ASSUME PagesInv, NEW request, Arriving(request) = request, SendRequest(sent, request)
  PROVE  Slotted(sent', truth) /\ Outstanding' # {}
<1> DEFINE r == [at |-> "sent", arrives |-> Arriving(request) = request, version |-> NoData]
<1>1. r \in Asked /\ r.arrives /\ r.at # "answered"  BY NewRequest
<1>2. PICK s \in Slots : sent' = [sent EXCEPT ![s] = r]
  BY DEF SendRequest
<1>3. truth \in Nat  BY PagesAssumption DEF PagesInv, Shown
<1> HIDE DEF r
<1>4. Slotted(sent', truth) /\ sent'[s] # Free
  BY <1>1, <1>2, <1>3, StoreKeeps DEF PagesInv
<1> QED  BY <1>4 DEF Outstanding

(* A load of the mounted part: a request goes out and the flag is set, or neither. *)
LEMMA LoadKeeps ==
  ASSUME PagesInv, NEW p, NEW request, Arriving(request) = request,
         NEW paused, NEW seen, Load(p, request, sent, paused, seen)
  PROVE  Slotted(sent', truth) /\ busy' \in BOOLEAN /\ BusyHasRequest'
<1>1. CASE Pauses(p) /\ paused
  BY <1>1 DEF Load, PagesInv, BusyHasRequest
<1>2. CASE ~(Pauses(p) /\ paused)
  <2>1. busy' = ~Unmarked(p, request, seen) /\ SendRequest(sent, request)
    BY <1>2 DEF Load
  <2>2. busy' \in BOOLEAN  BY <2>1
  <2> QED  BY <2>1, <2>2, SendKeeps DEF BusyHasRequest
<1> QED  BY <1>1, <1>2

LEMMA PausingType ==
  ASSUME NEW p, NEW t \in Nat, NEW seen \in {NoData, PausedData} \cup 1 .. t
  PROVE  Pausing(p, seen) \in {NoData, PausedData} \cup 1 .. t
BY DEF Pausing

LEMMA FirstVersion == 1 \in 1 .. MaxTruth
BY PagesAssumption

(* The dashboard opens on the overview. *)
LEMMA ReportsInitInv == ReportsInit => PagesInv
<1> SUFFICES ASSUME ReportsInit PROVE PagesInv  OBVIOUS
<1> DEFINE none == [s \in Slots |-> Free]
<1>1. Slotted(none, truth) /\ sent = none  BY NoneKept DEF ReportsInit
<1> HIDE DEF none
<1>2. Slotted(sent, truth)  BY <1>1
<1>3. Shown  BY FirstVersion DEF ReportsInit, Shown, Panels
<1>4. BusyHasRequest  BY DEF ReportsInit, BusyHasRequest
<1> QED  BY <1>2, <1>3, <1>4 DEF PagesInv

(* One lemma per step of a part. *)
LEMMA LiveChangesKeeps == PagesInv /\ LiveChanges => PagesInv'
<1> SUFFICES ASSUME PagesInv, LiveChanges PROVE PagesInv'  OBVIOUS
<1>1. PICK v \in BOOLEAN, g \in BOOLEAN :
        /\ liveVisible' = v /\ game' = g
        /\ data' = IF g \/ ~v THEN Pausing(panel, data) ELSE data
        /\ Load(panel, FirstRequest(panel), sent, g \/ ~v, data)
  BY DEF LiveChanges
<1>2. panel \in Panels \ {"overview"} /\ panel' = panel /\ truth' = truth
  BY DEF LiveChanges, Pauses, Panels
<1>3. Slotted(sent', truth) /\ busy' \in BOOLEAN /\ BusyHasRequest'
  BY <1>1, <1>2, FirstArrives, LoadKeeps
<1>4. data' \in {NoData, PausedData} \cup 1 .. truth
  BY <1>1, PausingType, PagesAssumption DEF PagesInv, Shown
<1> QED  BY <1>1, <1>2, <1>3, <1>4 DEF PagesInv, Shown

LEMMA StatusChangesKeeps == PagesInv /\ StatusChanges => PagesInv'
<1> SUFFICES ASSUME PagesInv, StatusChanges PROVE PagesInv'  OBVIOUS
<1>1. panel \in Panels \ {"overview"}  BY DEF StatusChanges, Panels
<1>2. Slotted(sent', truth) /\ busy' \in BOOLEAN /\ BusyHasRequest'
  BY <1>1, FirstArrives, LoadKeeps DEF StatusChanges
<1> QED  BY <1>2 DEF PagesInv, Shown, StatusChanges

LEMMA ClickedKeeps == PagesInv /\ Clicked => PagesInv'
<1> SUFFICES ASSUME PagesInv, Clicked PROVE PagesInv'  OBVIOUS
<1>1. panel \in Panels  BY DEF Clicked, PagesInv, Shown
<1>2. PICK request \in ButtonRequests(panel) : Load(panel, request, sent, FALSE, data)
  BY DEF Clicked
<1>3. Slotted(sent', truth) /\ busy' \in BOOLEAN /\ BusyHasRequest'
  BY <1>1, <1>2, ButtonsArrive, LoadKeeps
<1> QED  BY <1>3 DEF PagesInv, Shown, Clicked

LEMMA TickKeeps == PagesInv /\ Tick => PagesInv'
<1> SUFFICES ASSUME PagesInv, Tick PROVE PagesInv'  OBVIOUS
<1>1. panel \in Panels \ {"overview"}  BY DEF Tick, Panels
<1>2. Slotted(sent', truth) /\ busy' \in BOOLEAN /\ BusyHasRequest'
  BY <1>1, FirstArrives, LoadKeeps DEF Tick
<1> QED  BY <1>2 DEF PagesInv, Shown, Tick

LEMMA HandledKeeps ==
  ASSUME PagesInv, NEW s \in Slots, Handled(s)
  PROVE  PagesInv'
<1> DEFINE r == [sent[s] EXCEPT !.at = "answered", !.version = truth]
<1>1. sent[s] \in Asked  BY DEF PagesInv, Slotted, Handled, Free
<1>2. truth \in Nat /\ truth \in 1 .. truth
  BY PagesAssumption DEF PagesInv, Shown
<1>3. r \in Asked /\ r.arrives /\ r.version = truth
  BY <1>1, <1>2 DEF Asked, Handled
<1>4. sent' = [sent EXCEPT ![s] = r]  BY DEF Handled
<1> HIDE DEF r
<1>5. Slotted(sent', truth) /\ sent'[s] # Free
  BY <1>2, <1>3, <1>4, StoreKeeps DEF PagesInv
<1> QED  BY <1>5 DEF PagesInv, Shown, Handled, BusyHasRequest, Outstanding

LEMMA EndsKeeps ==
  ASSUME PagesInv, NEW s \in Slots, Taken(s) \/ Fails(s)
  PROVE  PagesInv'
<1>1. Slotted(sent', truth)
  BY FreeKeeps, PagesAssumption DEF PagesInv, Shown, Taken, Fails
<1>2. data' \in {NoData, PausedData} \cup 1 .. truth
  BY DEF PagesInv, Shown, Slotted, Taken, Fails
<1> QED  BY <1>1, <1>2 DEF PagesInv, Shown, Taken, Fails, BusyHasRequest

LEMMA TruthChangesKeeps == PagesInv /\ TruthChanges => PagesInv'
BY PagesAssumption
   DEF PagesInv, Shown, Slotted, TruthChanges, BusyHasRequest, Outstanding

(* A part is left, and another is mounted. *)
LEMMA LeaveKeeps == PagesInv /\ Leave => PagesInv'
<1> SUFFICES ASSUME PagesInv, Leave PROVE PagesInv'  OBVIOUS
<1> DEFINE none == [s \in Slots |-> Free]
<1>1. Slotted(none, truth') /\ sent' = none  BY NoneKept DEF Leave
<1> HIDE DEF none
<1>2. Slotted(sent', truth')  BY <1>1
<1>3. Shown'  BY FirstVersion DEF Leave, Shown
<1>4. BusyHasRequest'  BY DEF Leave, BusyHasRequest
<1> QED  BY <1>2, <1>3, <1>4 DEF PagesInv

LEMMA MountKeeps ==
  ASSUME PagesInv, NEW p \in Panels, Mount(p)
  PROVE  PagesInv'
<1> DEFINE none == [s \in Slots |-> Free]
<1>1. truth' = 1 /\ panel' = p /\ liveVisible' \in BOOLEAN /\ game' \in BOOLEAN
  BY DEF Mount
<1>2. data' \in {NoData, PausedData} \cup 1 .. truth'
  BY <1>1 DEF Mount, Pausing
<1>3. CASE busy' = FALSE /\ sent' = none
  <2>1. Slotted(none, truth')  BY NoneKept
  <2> HIDE DEF none
  <2>2. Slotted(sent', truth')  BY <1>3, <2>1
  <2>3. Shown'  BY <1>1, <1>2, <1>3, FirstVersion DEF Shown
  <2>4. BusyHasRequest'  BY <1>3 DEF BusyHasRequest
  <2> QED  BY <2>2, <2>3, <2>4 DEF PagesInv
<1>4. CASE p # "overview" /\ busy' = TRUE /\ SendRequest(none, FirstRequest(p))
  <2> DEFINE q == FirstRequest(p)
             r == [at |-> "sent", arrives |-> Arriving(q) = q, version |-> NoData]
  <2>1. r \in Asked /\ r.arrives /\ r.at # "answered"
    BY <1>4, FirstArrives, NewRequest
  <2>2. PICK s \in Slots : sent' = [none EXCEPT ![s] = r]
    BY <1>4 DEF SendRequest
  <2> HIDE DEF r
  <2>3. Slotted(none, 1)  BY NoneKept
  <2> HIDE DEF none
  <2>4. Slotted(sent', 1) /\ sent'[s] # Free
    BY <2>1, <2>2, <2>3, StoreKeeps
  <2> QED
    BY <1>1, <1>2, <1>4, <2>4, PagesAssumption
       DEF PagesInv, Shown, BusyHasRequest, Outstanding
<1> QED
  <2>1. ~Unmarked(p, FirstRequest(p), NoData)  BY DEF Unmarked
  <2> QED  BY <1>3, <1>4, <2>1 DEF Mount, Load

-----------------------------------------------------------------------------
(* The editors of the configuration *)

Askers == {"page", "wizard"}

Updating ==
  [pc : {"idle", "sent", "opened", "written", "saved", "refused"}, new : Configs \cup {NoConfig},
   for : Askers \cup {"nobody"}, from : Askers \cup {"nobody"}]

Editing ==
  [pc : {"off", "loading", "ready", "saving"}, draft : Configs \cup {NoConfig, Invalid}]

Guiding ==
  [open : BOOLEAN, step : 1 .. 3, preset : Presets, review : Configs \cup {NoConfig},
   applied : BOOLEAN, busy : {"no", "review", "apply", "complete", "skip"}]

Stored ==
  /\ file \in Configs \cup {Torn} /\ tmp \in Configs \cup {NoConfig, Empty, Torn}
  /\ update \in [Updates -> Updating]
  /\ \A u \in Updates : update[u].pc # "idle" => update[u].new \in Configs
  /\ tmp = Empty => \E u \in Updates : At(u, "opened")
  /\ abandoned \in 0 .. MaxAbandoned

Edited == editor \in Editing

Guided ==
  /\ wizard \in Guiding
  /\ wizard.step = 3 => wizard.review \in Configs
  /\ wizard.busy \in {"review", "apply"} => ~wizard.applied

SaveKinds == {"completed", "reset", "other"}

(* The wizard waits for the save that completes it, and for one of them at most. *)
Opening ==
  /\ saves \in Seq(SaveKinds) /\ kept \in BOOLEAN /\ undone \in BOOLEAN
  /\ \A i \in 1 .. Len(saves) : saves[i] = "completed" => wizard.busy \in {"complete", "skip"}
  /\ \A i, j \in 1 .. Len(saves) : saves[i] = "completed" /\ saves[j] = "completed" => i = j

(* The two sides wait for one update each at most, and one that nobody waits for may be around. *)
Awaited ==
  /\ \A u \in Updates : update[u].for # "nobody" => update[u].pc # "idle"
  /\ \A u, v \in Updates : update[u].for = update[v].for /\ update[u].for # "nobody" => u = v
  /\ editor.pc = "saving" <=> \E u \in Updates : update[u].for = "page"
  /\ wizard.busy = "apply" <=> \E u \in Updates : update[u].for = "wizard"

(* As long as nothing has been given up, and no failed save has moved the wizard: whoever waits *)
(* has the store for itself.                                                                    *)
OwnStore(u) ==
  update[u].pc # "idle" =>
    /\ update[u].for # "nobody" /\ update[u].from = update[u].for
    /\ wizard.open <=> update[u].for = "wizard"
    /\ update[u].for = "wizard" => wizard.step = 3 /\ update[u].new = wizard.review
    /\ At(u, "opened") => tmp = Empty
    /\ At(u, "written") => tmp = update[u].new
    /\ At(u, "saved") => file = update[u].new

Undisturbed == abandoned = 0 /\ ~undone

NothingGivenUp ==
  Undisturbed =>
    /\ \A u \in Updates : OwnStore(u)
    /\ file # Torn
    /\ wizard.applied /\ by = "wizard" => file = wizard.review

EditorInv == Stored /\ Edited /\ Guided /\ Awaited /\ Opening /\ NothingGivenUp

(* The words for what is no configuration, the default and a thread without an update. *)
LEMMA NotConfigs ==
  /\ Torn \notin Configs /\ Empty \notin Configs /\ Invalid \notin Configs
  /\ NoConfig \notin Configs /\ NoConfig # Torn /\ NoConfig # Empty /\ Empty # Torn
<1>1. Torn \notin Configs /\ Empty \notin Configs /\ Invalid \notin Configs
  BY ConfigAssumption DEF Configs, Torn, Empty, Invalid
<1>2. Empty # Torn  BY DEF Empty, Torn
<1> QED  BY <1>1, <1>2, ConfigAssumption

LEMMA DefaultConfig == Default \in Configs
<1>1. PICK p \in Presets : TRUE  BY ConfigAssumption
<1>2. PICK r \in Rests : TRUE  BY ConfigAssumption
<1>3. [preset |-> p, rest |-> r] \in Configs  BY <1>1, <1>2 DEF Configs
<1> QED  BY <1>3 DEF Default

LEMMA IdleType == /\ Idle \in Updating /\ Idle.pc = "idle" /\ Idle.for = "nobody"
                  /\ Idle.new = NoConfig /\ Idle.from = "nobody"
BY DEF Idle, Updating, Askers

(* A step of the store changes nothing but how far an update is. *)
LEMMA GoesMeans ==
  ASSUME Stored, NEW u \in Updates, update[u].pc # "idle",
         NEW pc \in {"sent", "opened", "written", "saved", "refused"}, Goes(u, pc)
  PROVE  /\ update' \in [Updates -> Updating]
         /\ update'[u].pc = pc
         /\ \A v \in Updates : v # u => update'[v] = update[v]
         /\ \A v \in Updates :
              /\ update'[v].new = update[v].new /\ update'[v].for = update[v].for
              /\ update'[v].from = update[v].from
              /\ update'[v].pc # "idle" <=> update[v].pc # "idle"
<1> DEFINE r == [update[u] EXCEPT !.pc = pc]
<1>1. update[u] \in Updating  BY DEF Stored
<1>2. /\ r \in Updating /\ r.pc = pc /\ r.new = update[u].new /\ r.for = update[u].for
      /\ r.from = update[u].from
  BY <1>1 DEF Updating
<1>3. update' = [update EXCEPT ![u] = r]  BY DEF Goes
<1>4. update \in [Updates -> Updating]  BY DEF Stored
<1> HIDE DEF r
<1>5. /\ update' \in [Updates -> Updating]
      /\ \A v \in Updates : update'[v] = IF v = u THEN r ELSE update[v]
  BY <1>2, <1>3, <1>4
<1> QED  BY <1>2, <1>5

(* While nothing has been given up, one thread at most runs an update. *)
LEMMA OneAtATime ==
  ASSUME EditorInv, Undisturbed, NEW u \in Updates, NEW v \in Updates,
         update[u].pc # "idle", update[v].pc # "idle"
  PROVE  u = v
<1>1. OwnStore(u) /\ OwnStore(v)  BY DEF EditorInv, NothingGivenUp
<1>2. update[u] \in Updating /\ update[v] \in Updating  BY DEF EditorInv, Stored
<1>3. update[u].for = update[v].for /\ update[u].for # "nobody"
  BY <1>1, <1>2 DEF OwnStore, Updating, Askers
<1> QED  BY <1>3 DEF EditorInv, Awaited

StoreStep(u) == Refuses(u) \/ Opens(u) \/ Writes(u) \/ WriteFails(u) \/ Replaces(u)

(* The steps of the store touch neither page nor wizard. *)
LEMMA StoreStepMeans ==
  ASSUME EditorInv, NEW u \in Updates, StoreStep(u)
  PROVE  /\ update[u].pc \in {"sent", "opened", "written"}
         /\ \E pc \in {"sent", "opened", "written", "saved", "refused"} : Goes(u, pc)
         /\ UNCHANGED <<editor, wizard, abandoned, saves, kept, undone>>
BY DEF StoreStep, Refuses, Opens, Writes, WriteFails, Replaces, At, firstRun

LEMMA StoreStepAwaited ==
  ASSUME EditorInv, NEW u \in Updates, StoreStep(u)
  PROVE  Awaited' /\ Edited' /\ Guided' /\ Opening'
<1>1. /\ \A v \in Updates :
           /\ update'[v].for = update[v].for
           /\ update'[v].pc # "idle" <=> update[v].pc # "idle"
      /\ UNCHANGED <<editor, wizard, saves, kept, undone>>
  BY StoreStepMeans, GoesMeans DEF EditorInv
<1>2. Awaited'
  BY <1>1 DEF EditorInv, Awaited
<1> QED  BY <1>1, <1>2 DEF EditorInv, Edited, Guided, Opening

LEMMA StoreStepStored ==
  ASSUME EditorInv, NEW u \in Updates, StoreStep(u)
  PROVE  Stored'
<1>1. /\ update' \in [Updates -> Updating]
      /\ \A v \in Updates : v # u => update'[v] = update[v]
      /\ \A v \in Updates :
           /\ update'[v].new = update[v].new
           /\ update'[v].pc # "idle" <=> update[v].pc # "idle"
      /\ UNCHANGED abandoned
  BY StoreStepMeans, GoesMeans DEF EditorInv
<1>2. \A v \in Updates : update'[v].pc # "idle" => update'[v].new \in Configs
  BY <1>1 DEF EditorInv, Stored
<1>3. /\ file' \in Configs \cup {Torn} /\ tmp' \in Configs \cup {NoConfig, Empty, Torn}
      /\ tmp' = Empty => \E v \in Updates : At(v, "opened")'
  <2>1. CASE Refuses(u)
    <3>1. update[u].pc # "opened" /\ UNCHANGED <<file, tmp>>  BY <2>1 DEF Refuses, At
    <3> QED  BY <1>1, <3>1 DEF EditorInv, Stored, At
  <2>2. CASE Opens(u)
    <3>1. update'[u].pc = "opened" /\ tmp' = Empty /\ file' = file
      BY <2>2, GoesMeans DEF Opens, At, EditorInv
    <3> QED  BY <3>1 DEF EditorInv, Stored, At
  <2>3. CASE Writes(u)
    <3>1. update[u].new \in Configs  BY <2>3 DEF Writes, At, EditorInv, Stored
    <3>2. tmp' \in {update[u].new, Torn} /\ file' = file  BY <2>3 DEF Writes
    <3> QED  BY <3>1, <3>2, NotConfigs DEF EditorInv, Stored
  <2>4. CASE WriteFails(u)
    <3>1. tmp' = Removed(u) /\ file' = file  BY <2>4 DEF WriteFails
    <3>2. CASE OpenElsewhere(u)
      <4>1. PICK v \in Updates \ {u} : At(v, "opened")  BY <3>2 DEF OpenElsewhere
      <4>2. At(v, "opened")'  BY <1>1, <4>1 DEF At
      <4> QED  BY <3>1, <3>2, <4>2 DEF EditorInv, Stored, Removed
    <3>3. CASE ~OpenElsewhere(u)
      BY <3>1, <3>3, NotConfigs DEF EditorInv, Stored, Removed
    <3> QED  BY <3>2, <3>3
  <2>5. CASE Replaces(u)
    <3>1. CASE tmp # NoConfig /\ ~OpenElsewhere(u)
      <4>1. tmp # Empty
        BY <2>5, <3>1 DEF EditorInv, Stored, OpenElsewhere, Replaces, At
      <4>2. file' = tmp /\ tmp' = NoConfig  BY <2>5, <3>1 DEF Replaces
      <4> QED  BY <3>1, <4>1, <4>2, NotConfigs DEF EditorInv, Stored
    <3>2. CASE ~(tmp # NoConfig /\ ~OpenElsewhere(u))
      <4>1. tmp' = Removed(u) /\ file' = file  BY <2>5, <3>2 DEF Replaces
      <4>2. CASE OpenElsewhere(u)
        <5>1. PICK v \in Updates \ {u} : At(v, "opened")  BY <4>2 DEF OpenElsewhere
        <5>2. At(v, "opened")'  BY <1>1, <5>1 DEF At
        <5> QED  BY <4>1, <4>2, <5>2 DEF EditorInv, Stored, Removed
      <4>3. CASE ~OpenElsewhere(u)
        BY <4>1, <4>3, NotConfigs DEF EditorInv, Stored, Removed
      <4> QED  BY <4>2, <4>3
    <3> QED  BY <3>1, <3>2
  <2> QED  BY <2>1, <2>2, <2>3, <2>4, <2>5 DEF StoreStep
<1> QED  BY <1>1, <1>2, <1>3 DEF EditorInv, Stored

LEMMA StoreStepUngiven ==
  ASSUME EditorInv, NEW u \in Updates, StoreStep(u)
  PROVE  NothingGivenUp'
<1> SUFFICES ASSUME Undisturbed'
             PROVE  /\ \A v \in Updates : OwnStore(v)'
                    /\ file' # Torn
                    /\ wizard'.applied /\ by' = "wizard" => file' = wizard'.review
  BY DEF NothingGivenUp
<1>1. /\ update'[u].new = update[u].new /\ update'[u].for = update[u].for
      /\ update'[u].from = update[u].from
      /\ \A v \in Updates : v # u => update'[v] = update[v]
      /\ Undisturbed /\ UNCHANGED wizard
      /\ update[u].pc # "idle" /\ update[u].new \in Configs
  BY StoreStepMeans, GoesMeans DEF EditorInv, Stored, Undisturbed
<1>2. \A v \in Updates : v # u => update[v].pc = "idle"
  BY <1>1, OneAtATime
<1>3. \A v \in Updates : v # u => OwnStore(v)'
  BY <1>1, <1>2 DEF OwnStore
<1>4. OwnStore(u) /\ file # Torn /\ (wizard.applied /\ by = "wizard" => file = wizard.review)
  BY <1>1 DEF EditorInv, NothingGivenUp
<1>5. ~OpenElsewhere(u)  BY <1>2 DEF OpenElsewhere, At
<1>6. /\ OwnStore(u)' /\ file' # Torn
      /\ wizard'.applied /\ by' = "wizard" => file' = wizard'.review
  <2>1. CASE Refuses(u)
    <3>1. update'[u].pc = "refused" /\ UNCHANGED <<file, by>>
      BY <2>1, GoesMeans DEF Refuses, At, EditorInv
    <3> QED  BY <1>1, <1>4, <3>1 DEF OwnStore, At
  <2>2. CASE Opens(u)
    <3>1. update'[u].pc = "opened" /\ tmp' = Empty /\ UNCHANGED <<file, by>>
      BY <2>2, GoesMeans DEF Opens, At, EditorInv
    <3> QED  BY <1>1, <1>4, <3>1 DEF OwnStore, At
  <2>3. CASE Writes(u)
    <3>1. update'[u].pc = "written" /\ UNCHANGED <<file, by>>
      BY <2>3, GoesMeans DEF Writes, At, EditorInv
    <3>2. tmp' = update[u].new  BY <1>1, <1>4, <2>3 DEF Writes, OwnStore, At
    <3> QED  BY <1>1, <1>4, <3>1, <3>2 DEF OwnStore, At
  <2>4. CASE WriteFails(u)
    <3>1. update'[u].pc = "refused" /\ UNCHANGED <<file, by>>
      BY <2>4, GoesMeans DEF WriteFails, At, EditorInv
    <3> QED  BY <1>1, <1>4, <3>1 DEF OwnStore, At
  <2>5. CASE Replaces(u)
    <3>1. update[u].pc = "written" /\ tmp = update[u].new /\ tmp # NoConfig /\ tmp # Torn
      BY <1>1, <1>4, <2>5, NotConfigs DEF Replaces, OwnStore, At
    <3>2. file' = tmp /\ by' = update[u].from /\ Goes(u, "saved")
      BY <1>5, <2>5, <3>1 DEF Replaces
    <3>3. update'[u].pc = "saved"  BY <3>1, <3>2, GoesMeans DEF EditorInv
    <3> QED  BY <1>1, <1>4, <3>1, <3>2, <3>3 DEF OwnStore, At
  <2> QED  BY <2>1, <2>2, <2>3, <2>4, <2>5 DEF StoreStep
<1> QED  BY <1>3, <1>6

(* A step of the store, all parts together. *)
LEMMA StoreStepKeeps ==
  ASSUME EditorInv, NEW u \in Updates, StoreStep(u)
  PROVE  EditorInv'
BY StoreStepAwaited, StoreStepStored, StoreStepUngiven DEF EditorInv

(* The program has been started. *)
LEMMA EditorInitInv == EditorInit => EditorInv
<1> SUFFICES ASSUME EditorInit PROVE EditorInv  OBVIOUS
<1>1. \A u \in Updates : update[u] = Idle
  BY DEF EditorInit
<1>2. Stored
  BY <1>1, IdleType, DefaultConfig, NotConfigs, ConfigAssumption DEF EditorInit, Stored
<1>3. Edited  BY DEF EditorInit, Edited, Editing, Off
<1>4. /\ Guided /\ wizard.busy = "no"
  BY NotConfigs DEF EditorInit, Guided, Guiding
<1>5. Awaited  BY <1>1, <1>4, IdleType DEF EditorInit, Awaited, Off
<1>6. Opening
  <2>1. PICK first \in Presets, open \in BOOLEAN :
          wizard = [open |-> open, step |-> 1, preset |-> first, review |-> NoConfig,
                    applied |-> FALSE, busy |-> "no"]
    BY DEF EditorInit
  <2>2. kept \in BOOLEAN  BY <2>1 DEF EditorInit
  <2>3. undone \in BOOLEAN  BY DEF EditorInit
  <2>4. saves \in Seq(SaveKinds) /\ Len(saves) = 0  BY DEF EditorInit
  <2> QED  BY <2>2, <2>3, <2>4 DEF Opening
<1>7. NothingGivenUp
  BY <1>1, IdleType, DefaultConfig, NotConfigs DEF EditorInit, NothingGivenUp, OwnStore
<1> QED  BY <1>2, <1>3, <1>4, <1>5, <1>6, <1>7 DEF EditorInv

(* The page does something else than saving. *)
LEMMA PageAloneKeeps ==
  ASSUME EditorInv, UNCHANGED <<file, tmp, update, wizard, firstRun, by, abandoned>>,
         editor' \in Editing, editor'.pc = "saving" <=> editor.pc = "saving"
  PROVE  EditorInv'
<1>1. Stored' /\ Edited' /\ Guided' /\ Awaited'
  BY DEF EditorInv, Stored, Edited, Guided, Awaited, At
<1>2. NothingGivenUp'
  BY DEF EditorInv, NothingGivenUp, Undisturbed, OwnStore, At, firstRun
<1>3. Opening'  BY DEF EditorInv, Opening, firstRun
<1> QED  BY <1>1, <1>2, <1>3 DEF EditorInv

(* The page loads, reloads and edits. *)
LEMMA EditingKeeps ==
  ASSUME EditorInv, Loads \/ Reload \/ Edit
  PROVE  EditorInv'
<1>1. editor \in Editing  BY DEF EditorInv, Edited
<1>2. CASE Loads
  <2>1. file # Torn => file \in Configs  BY DEF EditorInv, Stored
  <2>2. editor' \in Editing /\ editor'.pc = "ready" /\ editor.pc = "loading"
    BY <1>1, <1>2, <2>1 DEF Loads, Editing
  <2> QED  BY <1>2, <2>2, PageAloneKeeps DEF Loads
<1>3. CASE Reload
  <2>1. editor' \in Editing /\ editor'.pc = "loading" /\ editor.pc = "ready"
    BY <1>1, <1>3 DEF Reload, Editing
  <2> QED  BY <1>3, <2>1, PageAloneKeeps DEF Reload
<1>4. CASE Edit
  <2>1. editor' \in Editing /\ editor'.pc = editor.pc
    BY <1>1, <1>4 DEF Edit, Editing
  <2> QED  BY <1>4, <2>1, PageAloneKeeps DEF Edit
<1> QED  BY <1>2, <1>3, <1>4

(* Under the wizard, or beside a page that does not save, the store rests; and it does when the *)
(* wizard is closed.                                                                            *)
LEMMA AppliesOpen ==
  ASSUME EditorInv, Undisturbed, wizard.busy = "apply"
  PROVE  wizard.open
<1>1. PICK u \in Updates : update[u].for = "wizard"  BY DEF EditorInv, Awaited
<1>2. update[u].pc # "idle"  BY <1>1 DEF EditorInv, Awaited
<1> QED  BY <1>1, <1>2 DEF EditorInv, NothingGivenUp, OwnStore

LEMMA StoreRests ==
  ASSUME EditorInv, Undisturbed, wizard.busy # "apply", wizard.open \/ editor.pc # "saving",
         NEW u \in Updates
  PROVE  update[u].pc = "idle"
<1> SUFFICES ASSUME update[u].pc # "idle" PROVE FALSE  OBVIOUS
<1>1. OwnStore(u)  BY DEF EditorInv, NothingGivenUp
<1>2. update[u] \in Updating  BY DEF EditorInv, Stored
<1>3. CASE update[u].for = "wizard"  BY <1>3 DEF EditorInv, Awaited
<1>4. CASE update[u].for = "page"
  BY <1>1, <1>4 DEF EditorInv, Awaited, OwnStore
<1> QED  BY <1>1, <1>2, <1>3, <1>4 DEF OwnStore, Updating, Askers

(* The wizard goes on without asking, or opens over a page that does not save, or closes. *)
LEMMA WizardAloneKeeps ==
  ASSUME EditorInv, UNCHANGED <<file, tmp, update, undone, by, abandoned>>,
         Undisturbed => wizard.busy # "apply",
         Undisturbed => wizard.open \/ editor.pc # "saving" \/ wizard'.open = wizard.open,
         wizard'.busy = "apply" <=> wizard.busy = "apply", Guided', Opening',
         editor' \in Editing, editor'.pc = "saving" <=> editor.pc = "saving",
         wizard'.applied => wizard.applied /\ wizard'.review = wizard.review
  PROVE  EditorInv'
<1>1. Stored' /\ Edited' /\ Awaited'
  BY DEF EditorInv, Stored, Edited, Awaited, At
<1>2. ASSUME Undisturbed' PROVE \A u \in Updates : OwnStore(u)'
  <2>1. Undisturbed  BY <1>2 DEF Undisturbed
  <2>2. CASE wizard.open \/ editor.pc # "saving"  BY <2>1, <2>2, StoreRests DEF OwnStore
  <2>3. CASE wizard'.open = wizard.open
    <3>1. \A u \in Updates : update[u].for # "wizard"  BY <2>1 DEF EditorInv, Awaited
    <3> QED  BY <2>1, <2>3, <3>1 DEF EditorInv, NothingGivenUp, OwnStore, At
  <2> QED  BY <2>1, <2>2, <2>3
<1>3. NothingGivenUp'
  BY <1>2 DEF EditorInv, NothingGivenUp, Undisturbed
<1> QED  BY <1>1, <1>3 DEF EditorInv

-----------------------------------------------------------------------------
(* The saves of the application settings *)

LEMMA SaveAdded ==
  ASSUME Opening, NEW what \in SaveKinds, UpdateSettings(what)
  PROVE  /\ saves' \in Seq(SaveKinds) /\ Len(saves') = Len(saves) + 1 /\ UNCHANGED <<kept, undone>>
         /\ saves'[Len(saves) + 1] = what /\ Len(saves) \in Nat
         /\ \A i \in 1 .. Len(saves) : saves'[i] = saves[i]
BY DEF Opening, UpdateSettings

(* A change of settings that does not complete the wizard. *)
LEMMA OthersKeepOpening ==
  ASSUME Opening, NEW what \in SaveKinds \ {"completed"}, UpdateSettings(what),
         wizard'.busy = wizard.busy
  PROVE  Opening'
<1>1. /\ saves' \in Seq(SaveKinds) /\ Len(saves') = Len(saves) + 1 /\ UNCHANGED <<kept, undone>>
      /\ saves'[Len(saves) + 1] = what /\ Len(saves) \in Nat
      /\ \A i \in 1 .. Len(saves) : saves'[i] = saves[i]
  BY SaveAdded
<1>2. \A i \in 1 .. Len(saves') : saves'[i] = "completed" =>
        i \in 1 .. Len(saves) /\ saves[i] = "completed"
  BY <1>1
<1> QED  BY <1>1, <1>2 DEF Opening

(* The wizard is completed or skipped. *)
LEMMA CompletionMeans ==
  ASSUME EditorInv, NEW way \in {"complete", "skip"}, NEW applied \in BOOLEAN,
         CompleteFirstRun(way, applied), wizard.busy \notin {"complete", "skip"}
  PROVE  /\ Opening' /\ Guided' /\ UNCHANGED undone
         /\ wizard'.busy = way /\ wizard'.applied = applied
         /\ wizard'.review = wizard.review /\ wizard'.step = wizard.step
<1>1. wizard \in Guiding  BY DEF EditorInv, Guided
<1>2. wizard' = [wizard EXCEPT !.busy = way, !.applied = applied, !.open = FALSE]
  BY DEF CompleteFirstRun
<1>3. /\ wizard'.busy = way /\ wizard'.review = wizard.review /\ wizard'.step = wizard.step
      /\ wizard' \in Guiding
  BY <1>1, <1>2 DEF Guiding
<1>4. wizard'.applied = applied  BY <1>1, <1>2 DEF Guiding
<1>5. Guided'  BY <1>3 DEF EditorInv, Guided
<1>6. /\ saves' \in Seq(SaveKinds) /\ Len(saves') = Len(saves) + 1 /\ UNCHANGED <<kept, undone>>
      /\ Len(saves) \in Nat /\ \A i \in 1 .. Len(saves) : saves'[i] = saves[i]
  BY SaveAdded DEF EditorInv, CompleteFirstRun, SaveKinds
<1>7. \A i \in 1 .. Len(saves) : saves[i] # "completed"  BY DEF EditorInv, Opening
<1>8. \A i \in 1 .. Len(saves') : saves'[i] = "completed" => i = Len(saves) + 1
  BY <1>6, <1>7
<1>9. Opening'  BY <1>3, <1>6, <1>8 DEF EditorInv, Opening
<1> QED  BY <1>3, <1>4, <1>5, <1>6, <1>9

(* A save settles: the wizard opens, closes or stays, and undone says so. *)
LEMMA SettingsSettledKeeps == EditorInv /\ SettingsSettled => EditorInv'
<1> SUFFICES ASSUME EditorInv, SettingsSettled PROVE EditorInv'  OBVIOUS
<1> DEFINE open == IF saves' = <<>> THEN kept' ELSE wizard.open
           way == IF Head(saves) = "completed" THEN "no" ELSE wizard.busy
<1>1. /\ UNCHANGED <<file, tmp, update, editor, by, abandoned>>
      /\ saves # <<>> /\ saves' = Tail(saves)
      /\ wizard' = [wizard EXCEPT !.open = open, !.busy = way]
      /\ undone' = (undone \/ open # wizard.open)
  BY DEF SettingsSettled
<1>2. wizard \in Guiding /\ saves \in Seq(SaveKinds)  BY DEF EditorInv, Guided, Opening
<1>3. kept' \in BOOLEAN
  <2>1. kept \in BOOLEAN  BY DEF EditorInv, Opening
  <2>2. CASE kept' = kept  BY <2>1, <2>2
  <2>3. CASE kept' = (Head(saves) = "reset")  BY <2>3
  <2> QED  BY <2>2, <2>3 DEF SettingsSettled
<1>4. open \in BOOLEAN
  <2>1. wizard.open \in BOOLEAN  BY <1>2 DEF Guiding
  <2> QED  BY <1>3, <2>1
<1>5. way \in {"no", "review", "apply", "complete", "skip"}  BY <1>2 DEF Guiding
<1> HIDE DEF open, way
<1>6. /\ wizard' \in Guiding /\ wizard'.busy = way
      /\ wizard'.step = wizard.step /\ wizard'.review = wizard.review
  BY <1>1, <1>2, <1>4, <1>5 DEF Guiding
<1>7. wizard'.open = open  BY <1>1, <1>2 DEF Guiding
<1>8. wizard'.applied = wizard.applied  BY <1>1, <1>2 DEF Guiding
<1>9. saves[1] = Head(saves) /\ 1 \in 1 .. Len(saves) /\ Len(saves) \in Nat
  BY <1>1, <1>2
<1>10. way = wizard.busy \/ (way = "no" /\ saves[1] = "completed"
                               /\ wizard.busy \in {"complete", "skip"})
  BY <1>9 DEF way, EditorInv, Opening
<1>11. /\ saves' \in Seq(SaveKinds) /\ Len(saves') = Len(saves) - 1
       /\ \A i \in 1 .. Len(saves') : saves'[i] = saves[i + 1]
  BY <1>1, <1>2
<1>12. Opening'
  <2>1. \A i \in 1 .. Len(saves') : i + 1 \in 1 .. Len(saves) /\ i + 1 # 1
    BY <1>9, <1>11
  <2>2. ASSUME NEW i \in 1 .. Len(saves'), saves'[i] = "completed"
        PROVE  wizard'.busy \in {"complete", "skip"}
    <3>1. saves[i + 1] = "completed"  BY <1>11, <2>2
    <3>2. saves[1] # "completed"  BY <1>9, <2>1, <3>1 DEF EditorInv, Opening
    <3> QED  BY <1>6, <1>10, <2>1, <3>1, <3>2 DEF EditorInv, Opening
  <2>3. ASSUME NEW i \in 1 .. Len(saves'), NEW j \in 1 .. Len(saves'),
               saves'[i] = "completed", saves'[j] = "completed"
        PROVE  i = j
    <3>1. i + 1 = j + 1  BY <1>11, <2>1, <2>3 DEF EditorInv, Opening
    <3> QED  BY <1>11, <3>1
  <2>4. undone' \in BOOLEAN  BY <1>1, Zenon
  <2> QED  BY <1>3, <1>11, <2>2, <2>3, <2>4 DEF Opening
<1>13. Guided'  BY <1>6, <1>8, <1>10 DEF EditorInv, Guided
<1>14. Awaited' /\ Stored' /\ Edited'
  BY <1>1, <1>6, <1>10 DEF EditorInv, Awaited, Stored, Edited, At
<1>15. NothingGivenUp'
  <2> SUFFICES ASSUME Undisturbed' PROVE NothingGivenUp'  BY DEF NothingGivenUp
  <2>1. ~undone /\ open = wizard.open /\ abandoned = 0  BY <1>1 DEF Undisturbed
  <2> QED
    BY <1>1, <1>6, <1>7, <1>8, <2>1 DEF EditorInv, NothingGivenUp, Undisturbed, OwnStore, At
<1> QED  BY <1>12, <1>13, <1>14, <1>15 DEF EditorInv

(* Settings that do not open or close the wizard are changed. *)
LEMMA OtherSettingsKeeps == EditorInv /\ OtherSettings => EditorInv'
<1> SUFFICES ASSUME EditorInv, OtherSettings PROVE EditorInv'  OBVIOUS
<1>1. UNCHANGED <<file, tmp, update, editor, wizard, by, abandoned, undone>>
  BY DEF OtherSettings, UpdateSettings
<1>2. Opening'  BY <1>1, OthersKeepOpening DEF EditorInv, OtherSettings, SaveKinds
<1>3. Stored' /\ Edited' /\ Guided' /\ Awaited'
  BY <1>1 DEF EditorInv, Stored, Edited, Guided, Awaited, At
<1>4. NothingGivenUp'  BY <1>1 DEF EditorInv, NothingGivenUp, Undisturbed, OwnStore, At
<1> QED  BY <1>2, <1>3, <1>4 DEF EditorInv

-----------------------------------------------------------------------------
(* The wizard moves, a preset is chosen, a review begins, the wizard is skipped. *)
LEMMA GuidingKeeps ==
  ASSUME EditorInv, MoveToStep \/ SelectPreset \/ PrepareReview
  PROVE  EditorInv'
<1>1. /\ UNCHANGED <<file, tmp, update, editor, saves, kept, undone, by, abandoned>>
      /\ wizard.open /\ wizard.busy = "no"
  BY DEF MoveToStep, SelectPreset, PrepareReview, WizardIdle, firstRun
<1>2. wizard \in Guiding /\ editor \in Editing  BY DEF EditorInv, Guided, Edited
<1>3. /\ Guided' /\ wizard'.busy # "apply"
      /\ wizard'.applied => wizard.applied /\ wizard'.review = wizard.review
  <2>1. CASE MoveToStep
    <3>1. PICK step \in {1, 2} : wizard' = [wizard EXCEPT !.step = step, !.applied = FALSE]
      BY <2>1 DEF MoveToStep
    <3>2. step \in 1 .. 3  OBVIOUS
    <3>3. wizard' \in Guiding  BY <1>2, <3>1, <3>2 DEF Guiding
    <3>4. wizard'.step = step /\ wizard'.applied = FALSE /\ wizard'.busy = "no"
      BY <1>1, <1>2, <3>1 DEF Guiding
    <3> QED  BY <3>3, <3>4 DEF Guided
  <2>2. CASE SelectPreset
    <3>1. PICK p \in Presets :
            wizard' = [wizard EXCEPT !.preset = p, !.review = NoConfig, !.applied = FALSE]
      BY <2>2 DEF SelectPreset
    <3>2. wizard' \in Guiding  BY <1>2, <3>1 DEF Guiding
    <3>3. wizard'.step = 2 /\ wizard'.applied = FALSE /\ wizard'.busy = "no"
      BY <1>1, <1>2, <2>2, <3>1 DEF Guiding, SelectPreset
    <3> QED  BY <3>2, <3>3 DEF Guided
  <2>3. CASE PrepareReview
    <3>1. wizard' = [wizard EXCEPT !.busy = "review", !.applied = FALSE]
      BY <2>3 DEF PrepareReview
    <3>2. wizard' \in Guiding  BY <1>2, <3>1 DEF Guiding
    <3>3. wizard'.step = 2 /\ wizard'.applied = FALSE /\ wizard'.busy = "review"
      BY <1>1, <1>2, <2>3, <3>1 DEF Guiding, PrepareReview
    <3> QED  BY <3>2, <3>3 DEF Guided
  <2> QED  BY <2>1, <2>2, <2>3
<1>4. Opening'
  <2>1. \A i \in 1 .. Len(saves) : saves[i] # "completed"  BY <1>1 DEF EditorInv, Opening
  <2> QED  BY <1>1, <2>1 DEF EditorInv, Opening
<1> QED  BY <1>1, <1>2, <1>3, <1>4, WizardAloneKeeps

LEMMA SkipFirstRunKeeps == EditorInv /\ SkipFirstRun => EditorInv'
<1> SUFFICES ASSUME EditorInv, SkipFirstRun PROVE EditorInv'  OBVIOUS
<1>1. /\ UNCHANGED <<file, tmp, update, editor, by, abandoned>>
      /\ wizard.open /\ wizard.busy = "no" /\ CompleteFirstRun("skip", wizard.applied)
  BY DEF SkipFirstRun, WizardIdle
<1>2. editor \in Editing /\ wizard.applied \in BOOLEAN
  BY DEF EditorInv, Guided, Guiding, Edited
<1>3. /\ Opening' /\ Guided' /\ UNCHANGED undone
      /\ wizard'.busy = "skip" /\ wizard'.applied = wizard.applied
      /\ wizard'.review = wizard.review
  BY <1>1, <1>2, CompletionMeans
<1> QED  BY <1>1, <1>2, <1>3, WizardAloneKeeps

(* The review is there or has failed; the settings are reset. *)
LEMMA ReviewedKeeps == EditorInv /\ Reviewed => EditorInv'
<1> SUFFICES ASSUME EditorInv, Reviewed PROVE EditorInv'  OBVIOUS
<1>1. /\ wizard \in Guiding /\ editor \in Editing /\ wizard.busy = "review" /\ ~wizard.applied
      /\ UNCHANGED <<file, tmp, update, editor, saves, kept, undone, by, abandoned>>
  BY DEF EditorInv, Guided, Edited, Reviewed, firstRun
<1>4. ASSUME wizard'.busy = "no" PROVE Opening'
  BY <1>1, <1>4 DEF EditorInv, Opening
<1>2. CASE /\ file # Torn
           /\ wizard' = [wizard EXCEPT !.busy = "no", !.step = 3,
                           !.review = [file EXCEPT !.preset = wizard.preset]]
  <2> DEFINE c == [file EXCEPT !.preset = wizard.preset]
  <2>1. c \in Configs
    <3>1. file \in Configs /\ wizard.preset \in Presets
      BY <1>1, <1>2 DEF EditorInv, Stored, Guiding
    <3> QED  BY <3>1 DEF Configs
  <2>2. wizard' = [wizard EXCEPT !.busy = "no", !.step = 3, !.review = c]  BY <1>2
  <2> HIDE DEF c
  <2>3. wizard' \in Guiding
    <3>1. 3 \in 1 .. 3 /\ c \in Configs \cup {NoConfig}  BY <2>1
    <3>2. [wizard EXCEPT !.review = c] \in Guiding  BY <1>1, <3>1 DEF Guiding
    <3> QED  BY <2>2, <3>1, <3>2 DEF Guiding
  <2>4. wizard'.busy = "no" /\ wizard'.review = c /\ ~wizard'.applied
    BY <1>1, <2>2 DEF Guiding
  <2>5. Guided'  BY <2>1, <2>3, <2>4 DEF Guided
  <2>6. wizard'.open = wizard.open  BY <1>1, <2>2 DEF Guiding
  <2> QED  BY <1>1, <1>4, <2>4, <2>5, <2>6, WizardAloneKeeps
<1>3. CASE wizard' = [wizard EXCEPT !.busy = "no"]
  <2>1. /\ wizard' \in Guiding /\ wizard'.busy = "no" /\ wizard'.review = wizard.review
        /\ wizard'.applied = wizard.applied /\ wizard'.step = wizard.step
    BY <1>1, <1>3 DEF Guiding
  <2>2. Guided'  BY <2>1 DEF Guided, EditorInv
  <2>3. wizard'.open = wizard.open  BY <1>1, <1>3 DEF Guiding
  <2> QED  BY <1>1, <1>4, <2>1, <2>2, <2>3, WizardAloneKeeps
<1> QED  BY <1>2, <1>3 DEF Reviewed

LEMMA ResetKeeps == EditorInv /\ Reset => EditorInv'
<1> SUFFICES ASSUME EditorInv, Reset PROVE EditorInv'  OBVIOUS
<1>1. /\ wizard \in Guiding /\ editor \in Editing /\ editor.pc = "ready" /\ ~wizard.open
      /\ wizard' = [wizard EXCEPT !.open = TRUE] /\ UpdateSettings("reset")
      /\ UNCHANGED <<file, tmp, update, undone, by, abandoned>>
  BY DEF EditorInv, Guided, Edited, Reset, UpdateSettings
<1>2. /\ wizard' \in Guiding /\ wizard'.busy = wizard.busy /\ wizard'.review = wizard.review
      /\ wizard'.step = wizard.step
  BY <1>1 DEF Guiding
<1>3. wizard'.applied = wizard.applied  BY <1>1 DEF Guiding
<1>4. Guided'  BY <1>2, <1>3 DEF Guided, EditorInv
<1>5. editor' \in Editing /\ editor'.pc = "ready"
  BY <1>1, DefaultConfig DEF Reset, Editing
<1>6. Opening'  BY <1>1, <1>2, OthersKeepOpening DEF EditorInv, SaveKinds
<1>7. Undisturbed => wizard.busy # "apply"  BY <1>1, AppliesOpen
<1> QED  BY <1>1, <1>2, <1>3, <1>4, <1>5, <1>6, <1>7, WizardAloneKeeps

-----------------------------------------------------------------------------
(* Updates are sent and answered *)

LEMMA AskMeans ==
  ASSUME Stored, NEW who \in Askers, NEW new \in Configs, Ask(who, new)
  PROVE  \E u \in Updates :
           /\ update[u].pc = "idle" /\ update[u].for = "nobody"
           /\ update' \in [Updates -> Updating]
           /\ update'[u].pc = "sent" /\ update'[u].new = new
           /\ update'[u].for = who /\ update'[u].from = who
           /\ \A v \in Updates : v # u => update'[v] = update[v]
<1>1. PICK u \in Updates :
        /\ update[u] = Idle
        /\ update' = [update EXCEPT ![u] = [pc |-> "sent", new |-> new, for |-> who,
                                           from |-> who]]
  BY DEF Ask
<1>2. [pc |-> "sent", new |-> new, for |-> who, from |-> who] \in Updating
  BY DEF Updating
<1>3. update \in [Updates -> Updating]  BY DEF Stored
<1> QED  BY <1>1, <1>2, <1>3, IdleType

(* An update that is answered, or whose answer nobody hears. *)
LEMMA AnswerMeans ==
  ASSUME EditorInv, NEW u \in Updates, update[u].pc \in {"saved", "refused"},
         update' = [update EXCEPT ![u] = Idle], UNCHANGED <<file, tmp, by, abandoned>>
  PROVE  /\ Stored' /\ update'[u] = Idle
         /\ \A v \in Updates : v # u => update'[v] = update[v]
<1>1. /\ update' \in [Updates -> Updating] /\ update'[u] = Idle
      /\ \A v \in Updates : v # u => update'[v] = update[v]
  BY IdleType DEF EditorInv, Stored
<1>2. \A v \in Updates : update'[v].pc # "idle" => update'[v].new \in Configs
  BY <1>1, IdleType DEF EditorInv, Stored
<1>3. tmp' = Empty => \E v \in Updates : At(v, "opened")'
  <2> SUFFICES ASSUME tmp = Empty PROVE \E v \in Updates : At(v, "opened")'  OBVIOUS
  <2>1. PICK v \in Updates : At(v, "opened")  BY DEF EditorInv, Stored
  <2>2. v # u  BY <2>1 DEF At
  <2> QED  BY <1>1, <2>1, <2>2 DEF At
<1> QED  BY <1>1, <1>2, <1>3 DEF EditorInv, Stored

(* The page saves; the wizard applies. *)
LEMMA SaveSettingsKeeps == EditorInv /\ SaveSettings => EditorInv'
<1> SUFFICES ASSUME EditorInv, SaveSettings PROVE EditorInv'  OBVIOUS
<1>1. PICK u \in Updates :
        /\ update[u].pc = "idle" /\ update[u].for = "nobody"
        /\ update' \in [Updates -> Updating]
        /\ update'[u].pc = "sent" /\ update'[u].new = editor.draft
        /\ update'[u].for = "page" /\ update'[u].from = "page"
        /\ \A v \in Updates : v # u => update'[v] = update[v]
  BY AskMeans DEF EditorInv, SaveSettings, Askers
<1>2. /\ UNCHANGED <<file, tmp, wizard, saves, kept, undone, by, abandoned>> /\ ~wizard.open
      /\ editor.pc = "ready" /\ editor.draft \in Configs
  BY DEF SaveSettings, firstRun
<1>3. editor' \in Editing /\ editor'.pc = "saving"
  BY DEF EditorInv, Edited, Editing, SaveSettings
<1>4. Undisturbed => wizard.busy # "apply"  BY <1>2, AppliesOpen
<1>5. Stored'
  <2>1. \A v \in Updates : update'[v].pc # "idle" => update'[v].new \in Configs
    BY <1>1, <1>2 DEF EditorInv, Stored
  <2>2. tmp' = Empty => \E v \in Updates : At(v, "opened")'
    BY <1>1, <1>2 DEF EditorInv, Stored, At
  <2> QED  BY <1>1, <1>2, <2>1, <2>2 DEF EditorInv, Stored
<1>6. Awaited'
  <2>1. \A v \in Updates : update[v].for # "page"
    BY <1>2 DEF EditorInv, Awaited
  <2> QED  BY <1>1, <1>2, <1>3, <2>1 DEF EditorInv, Awaited
<1>7. NothingGivenUp'
  <2>1. ASSUME Undisturbed' PROVE \A v \in Updates : v # u => update'[v].pc = "idle"
    BY <1>1, <1>2, <1>4, <2>1, StoreRests DEF Undisturbed
  <2>2. ASSUME Undisturbed' PROVE \A v \in Updates : OwnStore(v)'
    BY <1>1, <1>2, <2>1, <2>2 DEF OwnStore, At
  <2> QED  BY <1>2, <2>2 DEF EditorInv, NothingGivenUp, Undisturbed
<1> QED  BY <1>2, <1>3, <1>5, <1>6, <1>7 DEF EditorInv, Edited, Guided, Opening

LEMMA ApplyPresetKeeps == EditorInv /\ ApplyPreset => EditorInv'
<1> SUFFICES ASSUME EditorInv, ApplyPreset PROVE EditorInv'  OBVIOUS
<1>1. /\ UNCHANGED <<file, tmp, editor, by, abandoned>>
      /\ wizard.open /\ wizard.busy = "no" /\ wizard.step = 3 /\ wizard.review \in Configs
      /\ wizard \in Guiding /\ editor \in Editing
  BY DEF EditorInv, Guided, Edited, ApplyPreset, WizardIdle
<1>2. CASE wizard.applied /\ CompleteFirstRun("complete", TRUE) /\ UNCHANGED update
  <2>1. /\ Opening' /\ Guided' /\ UNCHANGED undone
        /\ wizard'.busy = "complete" /\ wizard'.review = wizard.review
    BY <1>1, <1>2, CompletionMeans
  <2> QED  BY <1>1, <1>2, <2>1, WizardAloneKeeps
<1>3. CASE /\ ~wizard.applied /\ Ask("wizard", wizard.review)
           /\ wizard' = [wizard EXCEPT !.busy = "apply"] /\ UNCHANGED firstRun
  <2>1. PICK u \in Updates :
          /\ update[u].pc = "idle" /\ update[u].for = "nobody"
          /\ update' \in [Updates -> Updating]
          /\ update'[u].pc = "sent" /\ update'[u].new = wizard.review
          /\ update'[u].for = "wizard" /\ update'[u].from = "wizard"
          /\ \A v \in Updates : v # u => update'[v] = update[v]
    BY <1>1, <1>3, AskMeans DEF EditorInv, Askers
  <2>2. wizard' \in Guiding  BY <1>1, <1>3 DEF Guiding
  <2>3. wizard'.busy = "apply" /\ wizard'.step = 3 /\ wizard'.review = wizard.review
    BY <1>1, <1>3 DEF Guiding
  <2>4. wizard'.open /\ ~wizard'.applied
    BY <1>1, <1>3 DEF Guiding
  <2>5. Guided'  BY <1>1, <2>2, <2>3, <2>4 DEF Guided
  <2>6. Stored'
    <3>1. \A v \in Updates : update'[v].pc # "idle" => update'[v].new \in Configs
      BY <1>1, <2>1 DEF EditorInv, Stored
    <3>2. tmp' = Empty => \E v \in Updates : At(v, "opened")'
      BY <1>1, <2>1 DEF EditorInv, Stored, At
    <3> QED  BY <1>1, <2>1, <3>1, <3>2 DEF EditorInv, Stored
  <2>7. Awaited'
    <3>1. \A v \in Updates : update[v].for # "wizard"
      BY <1>1 DEF EditorInv, Awaited
    <3> QED  BY <1>1, <2>1, <2>3, <3>1 DEF EditorInv, Awaited
  <2>8. Opening'
    <3>1. \A i \in 1 .. Len(saves) : saves[i] # "completed"  BY <1>1 DEF EditorInv, Opening
    <3> QED  BY <1>3, <3>1 DEF EditorInv, Opening, firstRun
  <2>9. NothingGivenUp'
    <3>1. ASSUME Undisturbed' PROVE \A v \in Updates : v # u => update'[v].pc = "idle"
      BY <1>1, <1>3, <2>1, <3>1, StoreRests DEF Undisturbed, firstRun
    <3>2. ASSUME Undisturbed' PROVE \A v \in Updates : OwnStore(v)'
      BY <1>1, <2>1, <2>3, <2>4, <3>1, <3>2 DEF OwnStore, At
    <3> QED  BY <1>1, <1>3, <2>4, <3>2 DEF EditorInv, NothingGivenUp, Undisturbed, firstRun
  <2> QED  BY <1>1, <2>5, <2>6, <2>7, <2>8, <2>9 DEF EditorInv, Edited
<1> QED  BY <1>2, <1>3 DEF ApplyPreset

(* The answers, heard or not. *)
LEMMA SettingsSavedKeeps ==
  ASSUME EditorInv, NEW u \in Updates, SettingsSaved(u)
  PROVE  EditorInv'
<1>1. /\ update[u].for = "page" /\ update[u].pc \in {"saved", "refused"}
      /\ update' = [update EXCEPT ![u] = Idle]
      /\ UNCHANGED <<file, tmp, wizard, saves, kept, undone, by, abandoned>>
  BY DEF SettingsSaved, At, firstRun
<1>2. /\ Stored' /\ update'[u] = Idle
      /\ \A v \in Updates : v # u => update'[v] = update[v]
  BY <1>1, AnswerMeans
<1>3. editor' \in Editing /\ editor'.pc = "ready"
  <2>1. update[u].new \in Configs  BY <1>1 DEF EditorInv, Stored
  <2> QED  BY <2>1 DEF EditorInv, Edited, Editing, SettingsSaved
<1>4. Awaited'
  <2>1. \A v \in Updates : v # u => update[v].for # "page"
    BY <1>1 DEF EditorInv, Awaited
  <2> QED  BY <1>1, <1>2, <1>3, <2>1, IdleType DEF EditorInv, Awaited
<1>5. NothingGivenUp'
  BY <1>1, <1>2, IdleType DEF EditorInv, NothingGivenUp, Undisturbed, OwnStore, At
<1> QED  BY <1>1, <1>2, <1>3, <1>4, <1>5 DEF EditorInv, Edited, Guided, Opening

LEMMA AppliedKeeps ==
  ASSUME EditorInv, NEW u \in Updates, Applied(u)
  PROVE  EditorInv'
<1>1. /\ update[u].for = "wizard" /\ update[u].pc \in {"saved", "refused"}
      /\ update' = [update EXCEPT ![u] = Idle]
      /\ UNCHANGED <<file, tmp, editor, by, abandoned>>
      /\ wizard \in Guiding
  BY DEF Applied, At, EditorInv, Guided
<1>2. /\ Stored' /\ update'[u] = Idle
      /\ \A v \in Updates : v # u => update'[v] = update[v]
  BY <1>1, AnswerMeans
<1>3. wizard.busy = "apply" /\ ~wizard.applied
  BY <1>1 DEF EditorInv, Awaited, Guided
<1>4. /\ Opening' /\ Guided' /\ UNCHANGED undone /\ wizard'.busy # "apply"
      /\ wizard'.review = wizard.review
      /\ wizard'.applied => update[u].pc = "saved"
  <2>1. CASE At(u, "saved") /\ CompleteFirstRun("complete", TRUE)
    BY <1>1, <1>3, <2>1, CompletionMeans DEF At
  <2>2. CASE At(u, "refused") /\ wizard' = [wizard EXCEPT !.busy = "no"] /\ UNCHANGED firstRun
    <3>1. /\ wizard' \in Guiding /\ wizard'.busy = "no" /\ wizard'.review = wizard.review
          /\ wizard'.step = wizard.step
      BY <1>1, <2>2 DEF Guiding
    <3>2. ~wizard'.applied  BY <1>1, <1>3, <2>2 DEF Guiding
    <3>3. \A i \in 1 .. Len(saves) : saves[i] # "completed"
      BY <1>3 DEF EditorInv, Opening
    <3>4. Opening'  BY <2>2, <3>3 DEF EditorInv, Opening, firstRun
    <3>5. Guided'  BY <3>1 DEF EditorInv, Guided
    <3> QED  BY <2>2, <3>1, <3>2, <3>4, <3>5 DEF firstRun
  <2> QED  BY <2>1, <2>2 DEF Applied
<1>5. Awaited'
  <2>1. \A v \in Updates : v # u => update[v].for # "wizard"
    BY <1>1 DEF EditorInv, Awaited
  <2> QED  BY <1>1, <1>2, <1>4, <2>1, IdleType DEF EditorInv, Awaited
<1>6. NothingGivenUp'
  <2> SUFFICES ASSUME Undisturbed'
               PROVE  /\ \A v \in Updates : OwnStore(v)'
                      /\ file' # Torn
                      /\ wizard'.applied /\ by' = "wizard" => file' = wizard'.review
    BY DEF NothingGivenUp
  <2>1. Undisturbed  BY <1>1, <1>4 DEF Undisturbed
  <2>2. OwnStore(u) /\ file # Torn  BY <2>1 DEF EditorInv, NothingGivenUp
  <2>3. \A v \in Updates : update'[v].pc = "idle"
    BY <1>1, <1>2, <2>1, IdleType, OneAtATime
  <2>4. update[u].pc = "saved" => file = wizard.review
    BY <1>1, <2>2 DEF OwnStore, At
  <2> QED  BY <1>1, <1>4, <2>2, <2>3, <2>4 DEF OwnStore
<1> QED  BY <1>1, <1>2, <1>4, <1>5, <1>6 DEF EditorInv, Edited

LEMMA UnheardKeeps ==
  ASSUME EditorInv, NEW u \in Updates, Unheard(u)
  PROVE  EditorInv'
<1>1. /\ update[u].for = "nobody" /\ update[u].pc \in {"saved", "refused"}
      /\ update' = [update EXCEPT ![u] = Idle]
      /\ UNCHANGED <<file, tmp, editor, wizard, saves, kept, undone, by, abandoned>>
  BY DEF Unheard, firstRun
<1>2. /\ Stored' /\ update'[u] = Idle
      /\ \A v \in Updates : v # u => update'[v] = update[v]
  BY <1>1, AnswerMeans
<1>3. Awaited'  BY <1>1, <1>2, IdleType DEF EditorInv, Awaited
<1>4. NothingGivenUp'
  BY <1>1, <1>2, IdleType DEF EditorInv, NothingGivenUp, Undisturbed, OwnStore, At
<1> QED  BY <1>1, <1>2, <1>3, <1>4 DEF EditorInv, Edited, Guided, Opening

-----------------------------------------------------------------------------
(* An update is given up *)

LEMMA TimesOutKeeps ==
  ASSUME EditorInv, NEW u \in Updates, TimesOut(u)
  PROVE  EditorInv'
<1> DEFINE r == [update[u] EXCEPT !.for = "nobody", !.from = "nobody"]
<1>1. /\ update[u].for # "nobody" /\ abandoned' = abandoned + 1 /\ abandoned < MaxAbandoned
      /\ update' = [update EXCEPT ![u] = r]
      /\ UNCHANGED <<file, tmp, saves, kept, undone, by>>
  BY DEF TimesOut, firstRun
<1>2. update[u] \in Updating /\ update \in [Updates -> Updating]  BY DEF EditorInv, Stored
<1>3. r \in Updating /\ r.pc = update[u].pc /\ r.new = update[u].new /\ r.for = "nobody"
  BY <1>2 DEF Updating
<1> HIDE DEF r
<1>4. /\ update' \in [Updates -> Updating]
      /\ \A v \in Updates : update'[v] = IF v = u THEN r ELSE update[v]
  BY <1>1, <1>2, <1>3
<1>5. abandoned' \in 0 .. MaxAbandoned /\ abandoned' # 0
  BY <1>1, ConfigAssumption DEF EditorInv, Stored
<1>6. Stored'
  BY <1>1, <1>3, <1>4, <1>5 DEF EditorInv, Stored, At
<1>7. \A v \in Updates : v # u => update[v].for # update[u].for
  BY <1>1 DEF EditorInv, Awaited
<1>8. CASE update[u].for = "page"
  <2>1. /\ editor' \in Editing /\ editor'.pc = "ready" /\ UNCHANGED wizard
    BY <1>8 DEF EditorInv, Edited, Editing, TimesOut
  <2>2. Awaited'
    BY <1>3, <1>4, <1>7, <1>8, <2>1 DEF EditorInv, Awaited
  <2>3. Guided'  BY <2>1 DEF EditorInv, Guided
  <2>4. Opening'  BY <1>1, <2>1 DEF EditorInv, Opening
  <2>5. NothingGivenUp'  BY <1>5 DEF NothingGivenUp, Undisturbed
  <2> QED  BY <1>6, <2>1, <2>2, <2>3, <2>4, <2>5 DEF EditorInv, Edited
<1>9. CASE update[u].for = "wizard"
  <2>1. wizard' = [wizard EXCEPT !.busy = "no"] /\ UNCHANGED editor /\ wizard \in Guiding
    BY <1>9 DEF EditorInv, Guided, TimesOut
  <2>2. /\ wizard' \in Guiding /\ wizard'.busy = "no" /\ wizard'.review = wizard.review
        /\ wizard'.step = wizard.step
    BY <2>1 DEF Guiding
  <2>3. Guided'  BY <2>2 DEF EditorInv, Guided
  <2>4. Awaited'
    BY <1>3, <1>4, <1>7, <1>9, <2>1, <2>2 DEF EditorInv, Awaited
  <2>5. Opening'
    <3>1. wizard.busy = "apply"  BY <1>9 DEF EditorInv, Awaited
    <3> QED  BY <1>1, <3>1 DEF EditorInv, Opening
  <2> QED
    BY <1>5, <1>6, <2>1, <2>3, <2>4, <2>5 DEF EditorInv, Edited, NothingGivenUp, Undisturbed
<1> QED  BY <1>1, <1>2, <1>8, <1>9 DEF Updating, Askers

LEMMA CloseSettingsKeeps == EditorInv /\ CloseSettings => EditorInv' /\ editor'.pc = "off"
<1> SUFFICES ASSUME EditorInv, CloseSettings PROVE EditorInv' /\ editor'.pc = "off"  OBVIOUS
<1>1. editor' \in Editing /\ editor'.pc = "off" /\ UNCHANGED <<file, tmp, wizard, firstRun, by>>
  BY DEF CloseSettings, Off, Editing
<1>2. CASE editor.pc # "saving"
  <2>1. UNCHANGED <<update, abandoned>>  BY <1>2 DEF CloseSettings
  <2> QED  BY <1>1, <1>2, <2>1, PageAloneKeeps
<1>3. CASE editor.pc = "saving"
  <2> DEFINE given(v) == [update[v] EXCEPT !.for = "nobody", !.from = "nobody"]
  <2>1. /\ abandoned < MaxAbandoned /\ abandoned' = abandoned + 1
        /\ update' = [v \in Updates |-> IF update[v].for = "page" THEN given(v) ELSE update[v]]
    BY <1>3 DEF CloseSettings
  <2>2. \A v \in Updates : update[v] \in Updating  BY DEF EditorInv, Stored
  <2>3. \A v \in Updates :
          /\ given(v) \in Updating /\ given(v).pc = update[v].pc
          /\ given(v).new = update[v].new /\ given(v).for = "nobody"
    BY <2>2 DEF Updating
  <2> HIDE DEF given
  <2>4. /\ update' \in [Updates -> Updating]
        /\ \A v \in Updates :
             update'[v] = IF update[v].for = "page" THEN given(v) ELSE update[v]
    BY <2>1, <2>2, <2>3
  <2>5. abandoned' \in 0 .. MaxAbandoned /\ abandoned' # 0
    BY <2>1, ConfigAssumption DEF EditorInv, Stored
  <2>6. Stored'
    BY <1>1, <2>3, <2>4, <2>5 DEF EditorInv, Stored, At
  <2>7. Awaited'
    BY <1>1, <2>3, <2>4 DEF EditorInv, Awaited
  <2> QED
    BY <1>1, <2>5, <2>6, <2>7
       DEF EditorInv, Edited, Guided, Opening, NothingGivenUp, Undisturbed, firstRun
<1> QED  BY <1>1, <1>2, <1>3

(* A step of the editors neither opens nor closes the settings page. *)
LEMMA EditorStepKeeps ==
  ASSUME EditorInv, EditorStep
  PROVE  EditorInv' /\ (editor'.pc = "off" <=> editor.pc = "off")
<1>1. EditorInv'
  <2>1. ASSUME NEW u \in Updates, StoreStep(u) PROVE EditorInv'
    BY <2>1, StoreStepKeeps
  <2>2. CASE \E u \in Updates :
               Refuses(u) \/ Opens(u) \/ Writes(u) \/ WriteFails(u) \/ Replaces(u)
    BY <2>1, <2>2 DEF StoreStep
  <2>3. CASE \E u \in Updates :
               SettingsSaved(u) \/ Applied(u) \/ TimesOut(u) \/ Unheard(u)
    BY <2>3, SettingsSavedKeeps, AppliedKeeps, TimesOutKeeps, UnheardKeeps
  <2>4. CASE Loads \/ Reload \/ Edit  BY <2>4, EditingKeeps
  <2>5. CASE MoveToStep \/ SelectPreset \/ PrepareReview \/ SkipFirstRun
    BY <2>5, GuidingKeeps, SkipFirstRunKeeps
  <2>6. CASE \/ Reset \/ SaveSettings \/ Reviewed \/ ApplyPreset
             \/ OtherSettings \/ SettingsSettled
    BY <2>6, ResetKeeps, SaveSettingsKeeps, ReviewedKeeps, ApplyPresetKeeps,
       OtherSettingsKeeps, SettingsSettledKeeps
  <2> QED  BY <2>2, <2>3, <2>4, <2>5, <2>6 DEF EditorStep
<1>2. editor \in Editing  BY DEF EditorInv, Edited
<1>3. CASE UNCHANGED editor  BY <1>1, <1>3
<1>4. CASE Loads \/ Reload \/ Edit \/ Reset \/ SaveSettings
  BY <1>1, <1>2, <1>4 DEF Loads, Reload, Edit, Reset, SaveSettings, Editing
<1>5. ASSUME NEW u \in Updates, SettingsSaved(u) \/ TimesOut(u), update[u].for = "page"
      PROVE  editor'.pc = "off" <=> editor.pc = "off"
  <2>1. editor.pc = "saving"  BY <1>5 DEF EditorInv, Awaited
  <2> QED  BY <1>2, <1>5, <2>1 DEF SettingsSaved, TimesOut, Editing
<1>6. CASE \E u \in Updates : SettingsSaved(u) \/ TimesOut(u)
  BY <1>1, <1>3, <1>5, <1>6 DEF SettingsSaved, TimesOut
<1> QED
  BY <1>1, <1>3, <1>4, <1>6
     DEF EditorStep, MoveToStep, SelectPreset, PrepareReview, Reviewed, ApplyPreset,
         SkipFirstRun, OtherSettings, SettingsSettled, Refuses, Opens, Writes, WriteFails, Replaces,
         Applied, Unheard

(* A step of the reports leaves the part mounted. *)
LEMMA ReportsStepKeeps ==
  ASSUME PagesInv, ReportsStep \/ Clicked
  PROVE  PagesInv' /\ panel' = panel
<1>1. PagesInv'
  BY LiveChangesKeeps, StatusChangesKeeps, TickKeeps, TruthChangesKeeps, HandledKeeps,
     EndsKeeps, ClickedKeeps DEF ReportsStep
<1>2. panel' = panel
  BY DEF ReportsStep, Clicked, LiveChanges, StatusChanges, Tick, TruthChanges, Handled, Taken,
         Fails
<1> QED  BY <1>1, <1>2

-----------------------------------------------------------------------------
(* The window *)

WindowInv == PagesInv /\ EditorInv /\ (editor.pc # "off" <=> panel = "settings")

(* The window as a whole. *)
LEMMA WindowInitInv == WindowInit => WindowInv
<1> SUFFICES ASSUME WindowInit PROVE WindowInv  OBVIOUS
<1>1. PagesInv /\ EditorInv  BY ReportsInitInv, EditorInitInv DEF WindowInit
<1>2. panel = "overview"  BY DEF WindowInit, ReportsInit
<1>3. editor.pc = "off"  BY DEF WindowInit, EditorInit, Off
<1> QED  BY <1>1, <1>2, <1>3 DEF WindowInv

(* What the other half of the window does. *)
LEMMA PagesAside == ASSUME PagesInv, UNCHANGED reports PROVE PagesInv'
BY DEF PagesInv, Shown, Slotted, BusyHasRequest, Outstanding, reports

LEMMA EditorAside == ASSUME EditorInv, UNCHANGED config PROVE EditorInv'
<1>1. editor \in Editing  BY DEF EditorInv, Edited
<1> QED  BY <1>1, PageAloneKeeps DEF config

(* A page is exchanged for another. *)
LEMMA NavigateKeeps == WindowInv /\ Navigate => WindowInv'
<1> SUFFICES ASSUME WindowInv, Navigate PROVE WindowInv'  OBVIOUS
<1>1. CASE /\ panel # "settings" /\ Leave /\ OpenSettings
           /\ UNCHANGED <<file, tmp, update, wizard, firstRun, by, abandoned>>
  <2>1. editor.pc = "off" /\ editor' \in Editing /\ editor'.pc = "loading"
    BY <1>1 DEF WindowInv, OpenSettings, Editing
  <2>2. EditorInv'  BY <1>1, <2>1, PageAloneKeeps DEF WindowInv
  <2>3. PagesInv' /\ panel' = "settings"  BY <1>1, LeaveKeeps DEF WindowInv, Leave
  <2> QED  BY <2>1, <2>2, <2>3 DEF WindowInv
<1>2. ASSUME NEW p \in Panels \ {panel}, Mount(p),
             IF panel = "settings" THEN CloseSettings ELSE UNCHANGED config
      PROVE  WindowInv'
  <2>1. PagesInv' /\ panel' = p /\ p # "settings"
    BY <1>2, MountKeeps DEF WindowInv, Mount, Panels
  <2>2. EditorInv' /\ editor'.pc = "off"
    BY <1>2, CloseSettingsKeeps, EditorAside DEF WindowInv, config
  <2> QED  BY <2>1, <2>2 DEF WindowInv
<1> QED  BY <1>1, <1>2 DEF Navigate

LEMMA WindowNextKeepsInv == WindowInv /\ [WindowNext]_windowVars => WindowInv'
<1> SUFFICES ASSUME WindowInv, [WindowNext]_windowVars PROVE WindowInv'  OBVIOUS
<1>1. CASE Navigate  BY <1>1, NavigateKeeps
<1>2. CASE Reports
  <2>1. PagesInv' /\ panel' = panel
    BY <1>2, ReportsStepKeeps DEF Reports, WindowInv
  <2>2. EditorInv' /\ editor' = editor
    BY <1>2, EditorAside DEF Reports, WindowInv, config
  <2> QED  BY <2>1, <2>2 DEF WindowInv
<1>3. CASE Editor
  <2>1. EditorInv' /\ (editor'.pc = "off" <=> editor.pc = "off")
    BY <1>3, EditorStepKeeps DEF Editor, WindowInv
  <2>2. PagesInv' /\ panel' = panel
    BY <1>3, PagesAside DEF Editor, WindowInv, reports
  <2> QED  BY <2>1, <2>2 DEF WindowInv
<1>4. CASE UNCHANGED windowVars
  <2>1. UNCHANGED <<reports, config>> /\ UNCHANGED <<panel, editor>>
    BY <1>4 DEF windowVars, reports, config
  <2> QED  BY <2>1, PagesAside, EditorAside DEF WindowInv
<1> QED  BY <1>1, <1>2, <1>3, <1>4 DEF WindowNext

(* The invariant holds in every state of the window. *)
THEOREM WindowInvariance == WindowSpec => []WindowInv
BY WindowInitInv, WindowNextKeepsInv, PTL DEF WindowSpec

(* The variables of reports and editors keep their types, a page is mounted exactly while its *)
(* editor is on, and page and wizard wait exactly while a thread runs their update.           *)
THEOREM WindowTypes == WindowSpec => []WindowTypeOK
<1>1. WindowInv => WindowTypeOK
  <2> SUFFICES ASSUME WindowInv PROVE WindowTypeOK  OBVIOUS
  <2>1. \A s \in Slots : sent[s].at \in {"free", "sent", "answered"}
    BY DEF WindowInv, PagesInv, Slotted, Free, Asked
  <2>2. editor.draft \in Configs \cup {NoConfig, Invalid}
    BY DEF WindowInv, EditorInv, Edited, Editing
  <2> QED
    BY <2>1, <2>2
       DEF WindowInv, WindowTypeOK, PagesInv, Shown, EditorInv, Stored, Guided, Awaited, Opening,
           SaveKinds
<1> QED  BY <1>1, WindowInvariance, PTL

(* No part of the dashboard shows itself busy without a request under way whose end will clear *)
(* the flag: pauses, failures and late answers in any order included.                          *)
THEOREM RequestsKeepBusy == WindowSpec => []BusyHasRequest
<1>1. WindowInv => BusyHasRequest  BY DEF WindowInv, PagesInv
<1> QED  BY <1>1, WindowInvariance, PTL

(* Whatever a part asks for, main's table of operations turns it into the very request that was *)
(* asked for: the tables of utils/api.js and of the main process agree on every one.            *)
THEOREM AskedIsHeard == WindowSpec => []RequestsArrive
<1>1. WindowInv => RequestsArrive
  BY DEF WindowInv, PagesInv, Slotted, RequestsArrive, Outstanding
<1> QED  BY <1>1, WindowInvariance, PTL

(* As long as page and wizard wait for their updates, and no failed save has opened or closed *)
(* the wizard, the config store without a lock never leaves half of one configuration and     *)
(* half of another.                                                                           *)
THEOREM StoreNeedsNoLock == WindowSpec => []FileIsWhole
<1>1. WindowInv => FileIsWhole
  BY DEF WindowInv, EditorInv, NothingGivenUp, Undisturbed, FileIsWhole
<1> QED  BY <1>1, WindowInvariance, PTL

(* The wizard does not send a profile again when it is in the file: what it takes for applied *)
(* has been written, unless the page has saved since, an update was given up or a failed save *)
(* has opened or closed the wizard.                                                           *)
THEOREM RetryIsSafe == WindowSpec => []AppliedIsWritten
<1>1. WindowInv => AppliedIsWritten
  BY DEF WindowInv, EditorInv, NothingGivenUp, Undisturbed, AppliedIsWritten
<1> QED  BY <1>1, WindowInvariance, PTL

-----------------------------------------------------------------------------
(* The live snapshots *)

(* The last message under way asks for what the page wants. *)
LastSays == toMain # <<>> => (toMain[Len(toMain)] = "start") = visible

Requested ==
  /\ up \in BOOLEAN /\ stopped \in BOOLEAN /\ retry \in BOOLEAN /\ denied \in BOOLEAN
  /\ req \in [Requests -> {"free", "connecting", "open", "destroyed"}]
  /\ current \in Requests \cup {NoRequest}
  /\ current # NoRequest => req[current] \in {"connecting", "open"} /\ ~stopped

Paged ==
  /\ visible \in BOOLEAN /\ over \in BOOLEAN
  /\ toMain \in Seq({"start", "stop"})
  /\ hides \in 0 .. MaxHides /\ crashes \in 0 .. MaxCrashes

Told == toPage \in Seq(States) /\ shown \in States

Inv == Requested /\ Paged /\ Told /\ LastSays /\ NeverStranded /\ FollowsThePage

-----------------------------------------------------------------------------
(* Facts about the channels *)

LEMMA SendTypes ==
  ASSUME Told, NEW state \in States, Send(state)
  PROVE  toPage' \in Seq(States)
BY DEF Told, Send

LEMMA OpenTypes ==
  ASSUME Requested, Told, OpenLiveStream, stopped' = FALSE
  PROVE  /\ req' \in [Requests -> {"free", "connecting", "open", "destroyed"}]
         /\ current' \in Requests /\ toPage' \in Seq(States)
         /\ req'[current'] \in {"connecting", "open"} /\ denied' \in BOOLEAN
<1>1. CASE current # NoRequest
  BY <1>1 DEF Requested, Told, OpenLiveStream
<1>2. CASE current = NoRequest
  <2>1. PICK r \in Requests : /\ req' = [req EXCEPT ![r] = "connecting"] /\ current' = r
                              /\ denied' = FALSE /\ Send("connecting")
    BY <1>2 DEF OpenLiveStream
  <2>2. toPage' \in Seq(States)  BY <2>1, SendTypes DEF States
  <2> QED  BY <2>1, <2>2 DEF Requested
<1> QED  BY <1>1, <1>2

-----------------------------------------------------------------------------
(* The page has been mounted. *)
LEMMA InitInv == Init => Inv
<1> SUFFICES ASSUME Init PROVE Inv  OBVIOUS
<1>1. /\ up = TRUE /\ req = [r \in Requests |-> "free"] /\ current = NoRequest
      /\ stopped = TRUE /\ retry = FALSE /\ toPage = <<>>
      /\ over = FALSE /\ denied = FALSE /\ hides = 0 /\ crashes = 0
  BY Zenon DEF Init
<1>2. \/ visible = TRUE /\ shown = "idle" /\ toMain = <<"start">>
      \/ visible = TRUE /\ shown = "idle" /\ toMain = <<"start", "stop", "start">>
      \/ visible = FALSE /\ shown = "paused" /\ toMain = <<"stop">>
  BY Zenon DEF Init
<1>3. Requested /\ NeverStranded  BY <1>1 DEF Requested, NeverStranded
<1>4. Told  BY <1>1, <1>2 DEF Told, States
<1>5. toMain \in Seq({"start", "stop"}) /\ toMain # <<>>
      /\ (toMain[Len(toMain)] = "start") = visible
  <2>1. CASE toMain = <<"start">> /\ visible = TRUE
    <3>1. <<"start">> \in Seq({"start", "stop"})  OBVIOUS
    <3>2. Len(<<"start">>) = 1 /\ <<"start">>[1] = "start" /\ <<"start">> # <<>>  OBVIOUS
    <3> QED  BY <2>1, <3>1, <3>2
  <2>2. CASE toMain = <<"start", "stop", "start">> /\ visible = TRUE
    <3>1. <<"start", "stop", "start">> \in Seq({"start", "stop"})  OBVIOUS
    <3>2. /\ Len(<<"start", "stop", "start">>) = 3 /\ <<"start", "stop", "start">>[3] = "start"
          /\ <<"start", "stop", "start">> # <<>>
      OBVIOUS
    <3> QED  BY <2>2, <3>1, <3>2
  <2>3. CASE toMain = <<"stop">> /\ visible = FALSE
    <3>1. <<"stop">> \in Seq({"start", "stop"})  OBVIOUS
    <3>2. Len(<<"stop">>) = 1 /\ <<"stop">>[1] = "stop" /\ <<"stop">> # <<>>  OBVIOUS
    <3> QED  BY <2>3, <3>1, <3>2
  <2> QED  BY <1>2, <2>1, <2>2, <2>3
<1>6. Paged
  <2>1. visible \in BOOLEAN  BY <1>2
  <2>2. 0 \in 0 .. MaxHides /\ 0 \in 0 .. MaxCrashes  BY LiveStreamAssumption
  <2> QED  BY <1>1, <1>5, <2>1, <2>2 DEF Paged
<1>7. LastSays /\ FollowsThePage  BY <1>5 DEF LastSays, FollowsThePage
<1> QED  BY <1>3, <1>4, <1>6, <1>7 DEF Inv

(* Inv is about the variables only. *)
LEMMA Stutter == ASSUME Inv, UNCHANGED vars PROVE Inv'
BY DEF vars, page, Inv, Requested, Paged, Told, LastSays, NeverStranded, FollowsThePage

(* live:start and live:stop *)
LEMMA MainKeepsInv == ASSUME Inv, Main PROVE Inv'
<1>0. toMain # <<>> /\ toMain' = Tail(toMain) /\ toMain \in Seq({"start", "stop"})
      /\ UNCHANGED <<up, visible, shown, over, hides, crashes>>
  BY DEF Main, StartLiveStream, StopLiveStream, Inv, Paged
<1>1. Paged' /\ LastSays'
  <2>1. toMain' \in Seq({"start", "stop"})  BY <1>0
  <2>2. toMain' # <<>> => toMain'[Len(toMain')] = toMain[Len(toMain)]  BY <1>0
  <2> QED  BY <1>0, <2>1, <2>2 DEF Inv, Paged, LastSays
<1>2. toMain' = <<>> => (Head(toMain) = "start") = visible
  <2>1. toMain' = <<>> => Head(toMain) = toMain[Len(toMain)]  BY <1>0
  <2> QED  BY <1>0, <2>1 DEF Inv, LastSays
<1>3. CASE StartLiveStream
  <2>1. Requested' /\ Told' /\ NeverStranded' /\ stopped' = FALSE
    <3>1. CASE current # NoRequest /\ ~stopped
      BY <3>1, <1>3 DEF StartLiveStream, Inv, Requested, Told, NeverStranded
    <3>2. CASE ~(current # NoRequest /\ ~stopped)
      <4>1. stopped' = FALSE /\ OpenLiveStream /\ UNCHANGED <<up, retry, shown>>
        BY <3>2, <1>3 DEF StartLiveStream
      <4> QED  BY <4>1, OpenTypes, LiveStreamAssumption DEF Inv, Requested, Told, NeverStranded
    <3> QED  BY <3>1, <3>2
  <2>2. FollowsThePage'
    <3>1. Head(toMain) = "start"  BY <1>3 DEF StartLiveStream
    <3> QED  BY <1>0, <1>2, <2>1, <3>1 DEF FollowsThePage
  <2> QED  BY <1>1, <2>1, <2>2 DEF Inv
<1>4. CASE StopLiveStream
  <2>1. stopped' = TRUE /\ Requested' /\ NeverStranded'
    BY <1>4 DEF StopLiveStream, Stop, Inv, Requested, NeverStranded
  <2>2. Told'  BY <1>4, SendTypes DEF StopLiveStream, Inv, Told, States
  <2>3. FollowsThePage'
    <3>1. Head(toMain) = "stop"  BY <1>4 DEF StopLiveStream
    <3> QED  BY <1>0, <1>2, <2>1, <3>1 DEF Inv, Paged, FollowsThePage
  <2> QED  BY <1>1, <2>1, <2>2, <2>3 DEF Inv
<1> QED  BY <1>3, <1>4 DEF Main

(* The reconnect timer fires. *)
LEMMA RetryKeepsInv == ASSUME Inv, RetryDue PROVE Inv'
<1>0. retry' = FALSE /\ UNCHANGED <<up, stopped, shown, crashes, page>>  BY DEF RetryDue
<1>1. Requested' /\ Told' /\ NeverStranded'
  <2>1. CASE stopped
    BY <1>0, <2>1 DEF RetryDue, Inv, Requested, Told, NeverStranded
  <2>2. CASE ~stopped
    <3>1. OpenLiveStream /\ stopped' = FALSE  BY <1>0, <2>2 DEF RetryDue, Inv, Requested
    <3> QED  BY <1>0, <3>1, OpenTypes, LiveStreamAssumption
             DEF Inv, Requested, Told, NeverStranded
  <2> QED  BY <2>1, <2>2
<1>2. Paged' /\ LastSays' /\ FollowsThePage'
  BY <1>0 DEF page, Inv, Paged, LastSays, FollowsThePage
<1> QED  BY <1>1, <1>2 DEF Inv

(* A request reports its end, whichever request it is. *)
LEMMA EndedKeepsInv == ASSUME Inv, NEW r \in Requests, Ended(r) PROVE Inv'
<1>0. /\ req' = [req EXCEPT ![r] = "free"] /\ current' = NoRequest /\ ScheduleReconnect
      /\ UNCHANGED <<up, stopped, shown, denied, crashes, page>>
  BY DEF Ended
<1>1. Told'
  <2>1. CASE stopped  BY <1>0, <2>1 DEF ScheduleReconnect, Inv, Told
  <2>2. CASE ~stopped
    BY <1>0, <2>2, SendTypes DEF ScheduleReconnect, Inv, Told, States
  <2> QED  BY <2>1, <2>2
<1>2. Requested' /\ NeverStranded'
  BY <1>0 DEF ScheduleReconnect, Inv, Requested, NeverStranded
<1>3. Paged' /\ LastSays' /\ FollowsThePage'
  BY <1>0 DEF page, Inv, Paged, LastSays, FollowsThePage
<1> QED  BY <1>1, <1>2, <1>3 DEF Inv

(* A request reports anything else, or never reports. *)
LEMMA RequestKeepsInv ==
  ASSUME Inv, NEW r \in Requests, Request(r) \/ Frame(r) \/ SpoiledFrame(r)
  PROVE  Inv'
<1>1. CASE ConnectionRefused(r) \/ Lost(r) \/ LateReport(r)
  BY <1>1, EndedKeepsInv DEF ConnectionRefused, Lost, LateReport
<1>2. CASE Accepted(r) \/ Frame(r) \/ SpoiledFrame(r)
  <2>0. UNCHANGED <<up, current, stopped, retry, shown, denied, crashes, page>>
    BY <1>2 DEF Accepted, Frame, SpoiledFrame
  <2>1. Told'  BY <1>2, SendTypes DEF Accepted, Frame, SpoiledFrame, Inv, Told, States
  <2>2. Requested'
    BY <1>2 DEF Accepted, Frame, SpoiledFrame, Inv, Requested
  <2>3. Paged' /\ LastSays' /\ NeverStranded' /\ FollowsThePage'
    BY <2>0 DEF page, Inv, Paged, LastSays, NeverStranded, FollowsThePage
  <2> QED  BY <2>1, <2>2, <2>3 DEF Inv
<1>3. CASE NoReport(r)
  <2>1. Requested'  BY <1>3 DEF NoReport, Inv, Requested
  <2>2. Told' /\ Paged' /\ LastSays' /\ NeverStranded' /\ FollowsThePage'
    BY <1>3 DEF NoReport, page, Inv, Told, Paged, LastSays, NeverStranded, FollowsThePage
  <2> QED  BY <2>1, <2>2 DEF Inv
<1>4. CASE Denied(r)
  <2>1. Told'  BY <1>4, SendTypes DEF Denied, Inv, Told, States
  <2>2. Requested' /\ NeverStranded'
    BY <1>4, LiveStreamAssumption DEF Denied, Inv, Requested, NeverStranded
  <2>3. Paged' /\ LastSays' /\ FollowsThePage'
    BY <1>4 DEF Denied, page, Inv, Paged, LastSays, FollowsThePage
  <2> QED  BY <2>1, <2>2, <2>3 DEF Inv
<1> QED  BY <1>1, <1>2, <1>3, <1>4 DEF Request

(* The page is hidden, shown, gone, or reads an event. *)
LEMMA PageKeepsInv == ASSUME Inv, Hide \/ Show \/ Over \/ LiveEvent PROVE Inv'
<1>1. CASE Hide
  <2>1. Requested' /\ NeverStranded' /\ Told'
    BY <1>1 DEF Hide, Inv, Requested, NeverStranded, Told, States
  <2>2. toMain' \in Seq({"start", "stop"}) /\ toMain' # <<>> /\ toMain'[Len(toMain')] = "stop"
    BY <1>1 DEF Hide, Inv, Paged
  <2>3. Paged'
    <3>1. hides' \in 0 .. MaxHides  BY <1>1, LiveStreamAssumption DEF Hide, Inv, Paged
    <3> QED  BY <1>1, <2>2, <3>1 DEF Hide, Inv, Paged
  <2>4. LastSays' /\ FollowsThePage'
    BY <1>1, <2>2 DEF Hide, Inv, LastSays, FollowsThePage
  <2> QED  BY <2>1, <2>3, <2>4 DEF Inv
<1>2. CASE Show
  <2>1. Requested' /\ NeverStranded' /\ Told'
    BY <1>2 DEF Show, Inv, Requested, NeverStranded, Told
  <2>2. toMain' \in Seq({"start", "stop"}) /\ toMain' # <<>> /\ toMain'[Len(toMain')] = "start"
    BY <1>2 DEF Show, Inv, Paged
  <2>3. Paged' /\ LastSays' /\ FollowsThePage'
    BY <1>2, <2>2 DEF Show, Inv, Paged, LastSays, FollowsThePage
  <2> QED  BY <2>1, <2>3 DEF Inv
<1>3. CASE Over
  <2>1. Requested' /\ NeverStranded'
    BY <1>3 DEF Over, Stop, Inv, Requested, NeverStranded
  <2>2. <<>> \in Seq(States) /\ <<>> \in Seq({"start", "stop"})  OBVIOUS
  <2>3. Told'  BY <1>3, <2>2 DEF Over, Told, States
  <2>4. Paged'  BY <1>3, <2>2 DEF Over, Inv, Paged
  <2>5. LastSays' /\ FollowsThePage'  BY <1>3 DEF Over, Stop, LastSays, FollowsThePage
  <2> QED  BY <2>1, <2>3, <2>4, <2>5 DEF Inv
<1>4. CASE LiveEvent
  <2>1. Told'  BY <1>4 DEF LiveEvent, Inv, Told
  <2>2. Requested' /\ Paged' /\ LastSays' /\ NeverStranded' /\ FollowsThePage'
    BY <1>4 DEF LiveEvent, page, Inv, Requested, Paged, LastSays, NeverStranded, FollowsThePage
  <2> QED  BY <2>1, <2>2 DEF Inv
<1> QED  BY <1>1, <1>2, <1>3, <1>4

(* The backend goes away or comes back. *)
LEMMA BackendKeepsInv == ASSUME Inv, BackendDown \/ BackendUp PROVE Inv'
<1>1. crashes' \in 0 .. MaxCrashes
  BY LiveStreamAssumption DEF BackendDown, BackendUp, Inv, Paged
<1>2. up' \in BOOLEAN /\ UNCHANGED <<req, current, stopped, retry, toPage, shown, denied, page>>
  BY DEF BackendDown, BackendUp
<1> QED  BY <1>1, <1>2 DEF page, Inv, Requested, Paged, Told, LastSays, NeverStranded,
                           FollowsThePage

LEMMA NextKeepsInv == ASSUME Inv, Next PROVE Inv'
BY MainKeepsInv, RetryKeepsInv, RequestKeepsInv, PageKeepsInv, BackendKeepsInv DEF Next

-----------------------------------------------------------------------------
(* The invariant holds in every state. *)
THEOREM Invariance == Spec => []Inv
<1>1. Inv /\ [Next]_vars => Inv'  BY NextKeepsInv, Stutter
<1> QED  BY InitInv, <1>1, PTL DEF Spec

(* The variables keep their types; liveStreamRequest is a live request of a stream not stopped. *)
THEOREM TypeCorrect == Spec => []TypeOK
<1>1. Inv => TypeOK  BY DEF Inv, Requested, Paged, Told, TypeOK
<1> QED  BY Invariance, <1>1, PTL

(* While main is to stream, there is an attempt or a timer, or the last attempt was turned down *)
(* as unauthorised, in every order of late reports.                                             *)
THEOREM Unstranded == Spec => []NeverStranded
<1>1. Inv => NeverStranded  BY DEF Inv
<1> QED  BY Invariance, <1>1, PTL

(* When every message is read, main streams exactly if the page is visible. *)
THEOREM Follows == Spec => []FollowsThePage
<1>1. Inv => FollowsThePage  BY DEF Inv
<1> QED  BY Invariance, <1>1, PTL
=============================================================================
