----------------------------- MODULE LiveStream -----------------------------
(***************************************************************************)
(* The live snapshots of the dashboard: useLiveSnapshot.js in the page     *)
(* asks the Electron main process for a stream while it is visible, main   *)
(* keeps one HTTP request to /api/live open and connects again when it is  *)
(* lost, and its events come back as IPC messages.                         *)
(*                                                                         *)
(* A request that main has destroyed may still report its end, and the     *)
(* report may come after a new request was opened: its callbacks write the *)
(* same module variables.  A client that lost its place this way goes on   *)
(* feeding the page until the backend closes it.  A request that is turned *)
(* down as unauthorised is not tried again: only the page can ask anew.    *)
(***************************************************************************)
EXTENDS Naturals, Sequences, FiniteSets

CONSTANTS
  Requests,    \* HTTP requests; one that is over is used again
  NoRequest,
  MaxHides,    \* bound: how often the page is hidden
  MaxCrashes,  \* bound: how often the backend goes away
  MaxQueue     \* bound: events on their way to the page

ASSUME LiveStreamAssumption ==
  /\ NoRequest \notin Requests
  /\ MaxHides \in Nat /\ MaxCrashes \in Nat /\ MaxQueue \in Nat

VARIABLES
  up,        \* the backend listens at backendUrl
  req,       \* per request: "free", "connecting", "open", "destroyed" (a late report is possible)
  current,   \* liveStreamRequest
  stopped,   \* liveStreamStopped
  retry,     \* liveStreamReconnectTimer is set
  toMain,    \* IPC: live:start and live:stop, in order
  toPage,    \* IPC: the connection state each live:event makes the page show, in order
  visible,   \* the page is visible; its listener is registered exactly then
  shown,     \* connectionState
  over,      \* the page crashed, or the supervisor stopped the stream for good
  denied,    \* history: a request was answered 401 or 403, and none has been opened since
  hides, crashes

page == <<toMain, visible, over, hides>>
vars == <<up, req, current, stopped, retry, toMain, toPage, visible, shown, over, denied,
          hides, crashes>>

States == {"idle", "paused", "connecting", "connected", "error"}

TypeOK ==
  /\ up \in BOOLEAN /\ stopped \in BOOLEAN /\ retry \in BOOLEAN
  /\ visible \in BOOLEAN /\ over \in BOOLEAN /\ denied \in BOOLEAN
  /\ req \in [Requests -> {"free", "connecting", "open", "destroyed"}]
  /\ current \in Requests \cup {NoRequest}
  /\ current # NoRequest => req[current] \in {"connecting", "open"} /\ ~stopped
  /\ toMain \in Seq({"start", "stop"}) /\ toPage \in Seq(States)
  /\ shown \in States
  /\ hides \in 0 .. MaxHides /\ crashes \in 0 .. MaxCrashes

\* The page is mounted: hidden, visible, or visible with the effects of StrictMode run twice.
Init ==
  /\ up = TRUE /\ req = [r \in Requests |-> "free"] /\ current = NoRequest
  /\ stopped = TRUE /\ retry = FALSE /\ toPage = <<>>
  /\ \/ visible = TRUE /\ shown = "idle" /\ toMain \in {<<"start">>, <<"start", "stop", "start">>}
     \/ visible = FALSE /\ shown = "paused" /\ toMain = <<"stop">>
  /\ over = FALSE /\ denied = FALSE /\ hides = 0 /\ crashes = 0

Room == Len(toPage) < MaxQueue
Send(state) == toPage' = Append(toPage, state)

-----------------------------------------------------------------------------
(* The main process *)

\* openLiveStream; backendUrl is set before there is a window
OpenLiveStream ==
  IF current # NoRequest THEN UNCHANGED <<req, current, toPage, denied>>
  ELSE \E r \in Requests :
         /\ req[r] = "free"
         /\ req' = [req EXCEPT ![r] = "connecting"] /\ current' = r /\ denied' = FALSE
         /\ Send("connecting")

\* live:start
StartLiveStream ==
  /\ toMain # <<>> /\ Head(toMain) = "start" /\ Room
  /\ toMain' = Tail(toMain)
  /\ IF current # NoRequest /\ ~stopped
       THEN UNCHANGED <<req, current, stopped, toPage, denied>>
       ELSE stopped' = FALSE /\ OpenLiveStream
  /\ UNCHANGED <<up, retry, visible, shown, over, hides, crashes>>

(* Mutant: the reconnect timer outlives the stop, and so does the wish for a stream. *)
StopKeepsTrying ==
  /\ current' = NoRequest
  /\ req' = [r \in Requests |-> IF r = current THEN "destroyed" ELSE req[r]]
  /\ UNCHANGED <<stopped, retry>>

\* stopLiveStream without its notification
Stop ==
  /\ stopped' = TRUE /\ retry' = FALSE /\ current' = NoRequest
  /\ req' = [r \in Requests |-> IF r = current THEN "destroyed" ELSE req[r]]

\* live:stop
StopLiveStream ==
  /\ toMain # <<>> /\ Head(toMain) = "stop" /\ Room
  /\ toMain' = Tail(toMain)
  /\ Stop /\ Send("paused")
  /\ UNCHANGED <<up, visible, shown, over, denied, hides, crashes>>

\* the callback of the reconnect timer
RetryDue ==
  /\ retry /\ Room /\ retry' = FALSE
  /\ IF stopped THEN UNCHANGED <<req, current, toPage, denied>> ELSE OpenLiveStream
  /\ UNCHANGED <<up, stopped, shown, crashes, page>>

(* Mutant: only the first failure is followed by another attempt. *)
ScheduleOnce ==
  IF stopped \/ crashes > 0 THEN UNCHANGED <<retry, toPage>> ELSE retry' = TRUE /\ Send("error")

\* scheduleLiveStreamReconnect
ScheduleReconnect ==
  IF stopped THEN UNCHANGED <<retry, toPage>> ELSE retry' = TRUE /\ Send("error")

(* Mutant: a report of a request that is not the current one schedules nothing. *)
EndedIgnoresOthers(r) ==
  /\ Room /\ req' = [req EXCEPT ![r] = "free"] /\ current' = NoRequest
  /\ IF r = current THEN ScheduleReconnect ELSE UNCHANGED <<retry, toPage>>
  /\ UNCHANGED <<up, stopped, shown, denied, crashes, page>>

\* 'end' of the response, 'error' of the request, a status other than 200, 401 and 403: whichever
\* request it is, liveStreamRequest is cleared
Ended(r) ==
  /\ Room /\ req' = [req EXCEPT ![r] = "free"] /\ current' = NoRequest
  /\ ScheduleReconnect
  /\ UNCHANGED <<up, stopped, shown, denied, crashes, page>>

ConnectionRefused(r) == req[r] = "connecting" /\ Ended(r)

\* status 401 or 403, from whoever listens at the address: told to the page, and no reconnect
Denied(r) ==
  /\ req[r] = "connecting" /\ Room /\ Send("error")
  /\ req' = [req EXCEPT ![r] = "destroyed"] /\ current' = NoRequest /\ denied' = TRUE
  /\ UNCHANGED <<up, stopped, retry, shown, crashes, page>>

\* status 200
Accepted(r) ==
  /\ req[r] = "connecting" /\ up /\ Room
  /\ req' = [req EXCEPT ![r] = "open"] /\ Send("connected")
  /\ UNCHANGED <<up, current, stopped, retry, shown, denied, crashes, page>>

\* A frame is complete.
Frame(r) ==
  /\ req[r] = "open" /\ up /\ Room /\ Send("connected")
  /\ UNCHANGED <<up, req, current, stopped, retry, shown, denied, crashes, page>>

\* Two open streams share liveStreamBuffer and spoil each other's frames.
SpoiledFrame(r) ==
  /\ req[r] = "open" /\ up /\ Room /\ Send("error")
  /\ \E q \in Requests \ {r} : req[q] = "open"
  /\ UNCHANGED <<up, req, current, stopped, retry, shown, denied, crashes, page>>

\* The backend has gone, or the stream's thread there has ended after an engine error.
Lost(r) == req[r] = "open" /\ Ended(r)

LateReport(r) == req[r] = "destroyed" /\ Ended(r)

NoReport(r) ==
  /\ req[r] = "destroyed" /\ req' = [req EXCEPT ![r] = "free"]
  /\ UNCHANGED <<up, current, stopped, retry, toPage, shown, denied, crashes, page>>

\* render-process-gone, quitApplication, killBackendProcess: stopped without a notification, and no
\* page that could ask again
Over ==
  /\ ~over /\ over' = TRUE /\ visible' = FALSE /\ toMain' = <<>> /\ toPage' = <<>>
  /\ Stop /\ shown' = "paused"
  /\ UNCHANGED <<up, denied, hides, crashes>>

-----------------------------------------------------------------------------
(* The page *)

\* The effect for visible = FALSE, after the clean-up of the one before: both stop the stream.
Hide ==
  /\ visible /\ hides < MaxHides /\ hides' = hides + 1
  /\ visible' = FALSE /\ shown' = "paused"
  /\ toMain' = toMain \o <<"stop", "stop">>
  /\ UNCHANGED <<up, req, current, stopped, retry, toPage, over, denied, crashes>>

Show ==
  /\ ~visible /\ ~over /\ visible' = TRUE
  /\ toMain' = Append(toMain, "start")
  /\ UNCHANGED <<up, req, current, stopped, retry, toPage, shown, over, denied, hides, crashes>>

\* handleLiveEvent, or nobody listens
LiveEvent ==
  /\ toPage # <<>> /\ toPage' = Tail(toPage)
  /\ shown' = IF visible THEN Head(toPage) ELSE shown
  /\ UNCHANGED <<up, req, current, stopped, retry, denied, crashes, page>>

-----------------------------------------------------------------------------
(* The backend *)

BackendDown ==
  /\ up /\ crashes < MaxCrashes /\ crashes' = crashes + 1 /\ up' = FALSE
  /\ UNCHANGED <<req, current, stopped, retry, toPage, shown, denied, page>>

BackendUp ==
  /\ ~up /\ up' = TRUE
  /\ UNCHANGED <<req, current, stopped, retry, toPage, shown, denied, crashes, page>>

-----------------------------------------------------------------------------
Main == StartLiveStream \/ StopLiveStream
Request(r) ==
  \/ ConnectionRefused(r) \/ Denied(r) \/ Accepted(r)
  \/ Lost(r) \/ LateReport(r) \/ NoReport(r)

Next ==
  \/ Main \/ RetryDue \/ Over
  \/ \E r \in Requests : Request(r) \/ Frame(r) \/ SpoiledFrame(r)
  \/ Hide \/ Show \/ LiveEvent
  \/ BackendDown \/ BackendUp

(* IPC messages are handled, timers fire, a connection attempt is answered or fails, a stream the *)
(* backend no longer serves reports it, a served one carries whole frames now and then.           *)
Fairness ==
  /\ WF_vars(Main) /\ WF_vars(RetryDue) /\ WF_vars(LiveEvent)
  /\ \A r \in Requests :
       /\ WF_vars(req[r] # "open" /\ Request(r))
       /\ SF_vars(Accepted(r))
       /\ WF_vars(~up /\ Lost(r))
       /\ SF_vars(Frame(r))

Spec == Init /\ [][Next]_vars
FairSpec == Spec /\ Fairness

-----------------------------------------------------------------------------
(* Properties *)

\* While main is to stream there is an attempt under way or one to come, or the last attempt was
\* turned down as unauthorised: nothing else, no order of late reports, reconnects, stops and starts,
\* leaves it waiting for nobody (openLiveStream's early returns).
NeverStranded == ~stopped => current # NoRequest \/ retry \/ denied

\* Once main has read what the page sent it streams exactly if the page is visible: the doubled
\* stops of a hidden page and a late report do not undo the start that follows them.
FollowsThePage == toMain = <<>> => stopped = ~visible

\* A page that stays visible on a backend that stays up, and is not turned down as unauthorised,
\* shows "connected" again and again, even when lost streams go on beside the current one and
\* spoil frames.
KeepsConnecting == <>[](up /\ visible /\ ~denied) => []<>(shown = "connected")
=============================================================================
