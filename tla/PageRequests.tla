---------------------------- MODULE PageRequests ----------------------------
(***************************************************************************)
(* The parts of the dashboard that ask the backend for a report or give it *)
(* an order: log lines, analysis, readiness, interrupt modes, topology and *)
(* the buttons of the overview.  All follow one pattern: a load sets a     *)
(* flag, awaits an answer and takes it, whatever has happened meanwhile.   *)
(* Nothing cancels a request, so answers come after a pause, and those of  *)
(* two requests in any order.  The flags loading, refreshing and pending   *)
(* are one here.                                                           *)
(*                                                                         *)
(* One part is followed at a time; one that is left is unmounted, and what *)
(* it has asked for reaches nobody.                                        *)
(***************************************************************************)
EXTENDS RequestPath, FiniteSets

CONSTANTS
  Slots,     \* requests that can be outstanding: each is given up after five seconds
  MaxTruth   \* bound: versions of the backend's data

ASSUME PagesAssumption == MaxTruth \in Nat \ {0}

VARIABLES
  panel,         \* which part is mounted
  liveVisible,   \* live.visible
  game,          \* game_mode of the last live snapshot
  data,          \* what the part shows: NoData, PausedData or a version
  busy,          \* loading, refreshing or pending
  sent,          \* per slot: where the request is, whether it is what the backend gets, the answer
  truth          \* the version of the backend's data

reports == <<panel, liveVisible, game, data, busy, sent, truth>>

Panels == {"logs", "analysis", "readiness", "msi", "topology", "overview"}
NoData == 0
PausedData == 0 - 1

Free == [at |-> "free"]
Outstanding == {s \in Slots : sent[s] # Free}

\* The request of a mounted part, and those its button sends.
FirstRequest(p) ==
  CASE p = "logs" -> With(Get("/api/logs"), "limit", 500)
    [] p = "analysis" -> Get("/api/analysis")
    [] p = "readiness" -> Get("/api/readiness")
    [] p = "msi" -> Get("/api/msi")
    [] p = "topology" -> With(Get("/api/topology"), "refresh", 1)

Orders == {Post("/api/start"), Post("/api/stop"), Post("/api/recover")}

ButtonRequests(p) ==
  CASE p \in {"readiness", "msi"} -> {With(FirstRequest(p), "refresh", 1)}
    [] p = "overview" -> Orders
    [] OTHER -> {FirstRequest(p)}

Pauses(p) == p \in {"logs", "analysis", "readiness", "msi"}

ReportsInit ==
  /\ panel = "overview" /\ liveVisible = TRUE /\ game = FALSE
  /\ data = NoData /\ busy = FALSE /\ sent = [s \in Slots |-> Free] /\ truth = 1

-----------------------------------------------------------------------------
SendRequest(slots, request) ==
  \E s \in Slots :
    /\ slots[s] = Free
    /\ sent' = [slots EXCEPT ![s] = [at |-> "sent", arrives |-> Arriving(request) = request,
                                    version |-> NoData]]

(* Mutant: the flag is set before the pause is looked at. *)
LoadBusyFirst(p, request, slots, paused, shown) ==
  /\ busy' = TRUE
  /\ IF Pauses(p) /\ paused THEN sent' = slots ELSE SendRequest(slots, request)

\* The readiness part sets no flag for a load by itself when it shows something, as after an answer
\* that has come during a pause.
Unmarked(p, request, shown) ==
  p = "readiness" /\ request = FirstRequest(p) /\ shown # NoData

\* loadLogs, loadAnalysis, loadReadiness, loadMsi, loadTopology
Load(p, request, slots, paused, shown) ==
  IF Pauses(p) /\ paused THEN busy' = FALSE /\ sent' = slots
                         ELSE busy' = ~Unmarked(p, request, shown) /\ SendRequest(slots, request)

\* What a part makes of its data when it pauses.
Pausing(p, shown) ==
  CASE p = "analysis" -> PausedData
    [] p = "readiness" -> NoData
    [] OTHER -> shown

\* The effect of a new component.  Versions are counted from here, and what was visible or running
\* while a part was mounted that does not ask has made no difference.
Mount(p) ==
  /\ panel' = p /\ truth' = 1
  /\ liveVisible' \in BOOLEAN /\ game' \in BOOLEAN
  /\ Pauses(p) \/ (liveVisible' /\ ~game')
  /\ LET none == [s \in Slots |-> Free]
         paused == game' \/ ~liveVisible'
     IN IF p = "overview"
          THEN data' = NoData /\ busy' = FALSE /\ sent' = none
          ELSE /\ data' = IF Pauses(p) /\ paused THEN Pausing(p, NoData) ELSE NoData
               /\ Load(p, FirstRequest(p), none, paused, NoData)

\* The part is left for the settings page.
Leave ==
  /\ panel' = "settings" /\ data' = NoData /\ busy' = FALSE
  /\ sent' = [s \in Slots |-> Free]
  /\ liveVisible' = TRUE /\ game' = FALSE /\ truth' = 1

\* A live snapshot or the visibility changes; the effects of the parts that pause depend on both.
LiveChanges ==
  /\ Pauses(panel)
  /\ \E v, g \in BOOLEAN :
       /\ <<v, g>> # <<liveVisible, game>> /\ liveVisible' = v /\ game' = g
       /\ data' = IF g \/ ~v THEN Pausing(panel, data) ELSE data
       /\ Load(panel, FirstRequest(panel), sent, g \/ ~v, data)
  /\ UNCHANGED <<panel, truth>>

\* The other fields of the status that the analysis depends on.
StatusChanges ==
  /\ panel = "analysis"
  /\ data' = IF game \/ ~liveVisible THEN PausedData ELSE data
  /\ Load(panel, FirstRequest(panel), sent, game \/ ~liveVisible, data)
  /\ UNCHANGED <<panel, liveVisible, game, truth>>

\* A button, which is disabled while the part is busy; runAction of the overview.
Clicked ==
  /\ panel # "settings" /\ ~busy /\ (Pauses(panel) => liveVisible /\ ~game)
  /\ \E request \in ButtonRequests(panel) : Load(panel, request, sent, FALSE, data)
  /\ UNCHANGED <<panel, liveVisible, game, data, truth>>

(* Mutant: the log lines are not refreshed once there are some. *)
TickUntilLoaded ==
  /\ panel = "logs" /\ liveVisible /\ ~game /\ data = NoData
  /\ Load(panel, FirstRequest(panel), sent, FALSE, data)
  /\ UNCHANGED <<panel, liveVisible, game, data, truth>>

\* The interval of the log page, which exists exactly while it is visible and there is no game.
Tick ==
  /\ panel = "logs" /\ liveVisible /\ ~game
  /\ Load(panel, FirstRequest(panel), sent, FALSE, data)
  /\ UNCHANGED <<panel, liveVisible, game, data, truth>>

-----------------------------------------------------------------------------
\* The backend answers, unless main refuses the request.
Handled(s) ==
  /\ sent[s].at = "sent" /\ sent[s].arrives
  /\ sent' = [sent EXCEPT ![s] = [@ EXCEPT !.at = "answered", !.version = truth]]
  /\ UNCHANGED <<panel, liveVisible, game, data, busy, truth>>

\* The answer is taken.
Taken(s) ==
  /\ sent[s].at = "answered"
  /\ data' = IF panel = "overview" THEN data ELSE sent[s].version
  /\ busy' = FALSE /\ sent' = [sent EXCEPT ![s] = Free]
  /\ UNCHANGED <<panel, liveVisible, game, truth>>

\* Refused, failed or timed out: what is shown stays.
Fails(s) ==
  /\ sent[s] # Free /\ busy' = FALSE /\ sent' = [sent EXCEPT ![s] = Free]
  /\ UNCHANGED <<panel, liveVisible, game, data, truth>>

TruthChanges ==
  /\ panel \in Panels \ {"overview"} /\ truth < MaxTruth /\ truth' = truth + 1
  /\ UNCHANGED <<panel, liveVisible, game, data, busy, sent>>

ReportsStep ==
  \/ LiveChanges \/ StatusChanges \/ Tick \/ TruthChanges
  \/ \E s \in Slots : Handled(s) \/ Taken(s) \/ Fails(s)
=============================================================================
