----------------------------- MODULE Supervisor -----------------------------
(***************************************************************************)
(* ui/electron-main.js: the process that launches the Python backend,      *)
(* waits for its API, restarts it when it dies, shows its state in the     *)
(* tray and in a window, and ends it when the user quits.                  *)
(*                                                                         *)
(* Everything runs on one event loop, so an action is what happens between *)
(* two awaits.  A start is an activation of bootstrap or of the restart    *)
(* timer's callback; several may be in flight, because a readiness wait    *)
(* goes on polling its own port after its backend has died.  Clocks are    *)
(* nondeterministic: a wait may end, a timer may fire and a request may    *)
(* fail at any time.  The port a start chose stands for the child it is    *)
(* going to spawn, so backendUrl is a child.                               *)
(***************************************************************************)
EXTENDS Naturals, FiniteSets

CONSTANTS
  Starts,        \* activations of bootstrap, of the restart callback
  Children,      \* backend processes; one that is gone is used again
  NoChild,
  MaxRestarts,   \* MAX_BACKEND_RESTARTS
  MaxRetries     \* bound: clicks on Retry

ASSUME SupervisorAssumption ==
  /\ NoChild \notin Children
  /\ MaxRestarts \in Nat /\ MaxRetries \in Nat

VARIABLES
  app,        \* "up", "quitting" (isQuitting), "exited"
  quit,       \* quitApplication: "no", "stop", "kill", "closing"
  start,      \* per start: where it is, what it is, its child, the url its wait polls
  child,      \* per child: "none", "booting", "ready", "killed" (still there), "dead" (exit not seen)
  handled,    \* children with an exit listener
  ref,        \* backendProcess
  url,        \* backendUrl
  restarts,   \* backendRestartCount
  timer,      \* backendRestartTimer is set
  failed,     \* backendStartupError
  menu,       \* the tray: "normal", "retry"
  page,       \* the window: "none", "blank", "app", "diagnostic", "failure"
  loading,    \* what rendererLoadPromise loads: "no", "app", "diagnostic"
  minimized,  \* minimizeToTrayOnStart
  retries     \* history: clicks on Retry

window == <<page, loading, minimized>>
supervisorVars == <<app, quit, start, child, handled, ref, url, restarts, timer, failed,
                    menu, page, loading, minimized, retries>>

Idle == [pc |-> "idle", kind |-> "none", child |-> NoChild, at |-> NoChild]
Starting(kind) == [Idle EXCEPT !.pc = "port", !.kind = kind]
At(s, pc) == start[s].pc = pc
Alive(c) == child[c] \in {"booting", "ready"}

SupervisorTypeOK ==
  /\ app \in {"up", "quitting", "exited"}
  /\ quit \in {"no", "stop", "kill", "closing"}
  /\ start \in [Starts -> [pc : {"idle", "port", "preflight", "wait", "engine", "load",
                                 "shown", "unshown"},
                           kind : {"none", "bootstrap", "restart", "show"},
                           child : Children \cup {NoChild}, at : Children \cup {NoChild}]]
  /\ child \in [Children -> {"none", "booting", "ready", "killed", "dead"}]
  /\ handled \in SUBSET Children
  /\ ref \in Children \cup {NoChild} /\ url \in Children \cup {NoChild}
  /\ restarts \in 0 .. MaxRestarts
  /\ timer \in BOOLEAN /\ failed \in BOOLEAN
  /\ menu \in {"normal", "retry"}
  /\ page \in {"none", "blank", "app", "diagnostic", "failure"}
  /\ loading \in {"no", "app", "diagnostic"} /\ minimized \in BOOLEAN

\* whenReady().then(bootstrap): the settings are read, the tray is created, startBackend is called
SupervisorInit ==
  /\ app = "up" /\ quit = "no"
  /\ \E s \in Starts :
       /\ s = CHOOSE t \in Starts : TRUE
       /\ start = [t \in Starts |-> IF t = s THEN Starting("bootstrap") ELSE Idle]
  /\ child = [c \in Children |-> "none"] /\ handled = {}
  /\ ref = NoChild /\ url = NoChild /\ restarts = 0 /\ timer = FALSE /\ failed = FALSE
  /\ menu = "normal"
  /\ page = "none" /\ loading = "no" /\ minimized \in BOOLEAN
  /\ retries = 0

-----------------------------------------------------------------------------
(* Launch *)

\* A child that no start, no request and no reference can be taken for.
Fresh(c) ==
  /\ child[c] = "none" /\ c \notin handled /\ c # ref /\ c # url
  /\ \A s \in Starts : c # start[s].child /\ c # start[s].at

\* Which of them makes no difference.
NewChild == CHOOSE c \in Children : Fresh(c)
NewStart == CHOOSE s \in Starts : At(s, "idle")
CanStart == \E s \in Starts : At(s, "idle")

(* Mutant: the reference is dropped before it is used. *)
KillBackendForgets ==
  timer' = FALSE /\ ref' = NoChild /\ handled' = handled \ {ref} /\ UNCHANGED child

\* kill of what the reference names; the exit listener goes first
KillBackend ==
  /\ timer' = FALSE /\ ref' = NoChild
  /\ handled' = handled \ {ref}
  /\ child' = [c \in Children |-> IF c # ref THEN child[c]
                                  ELSE IF Alive(c) THEN "killed" ELSE "none"]

\* ensureRendererLoaded, called by start s; error is what backendStartupError is by then
EnsureLoaded(s, kind, error) ==
  IF page \in {"app", "diagnostic", "failure"}
    THEN /\ start' = [start EXCEPT ![s] = [Idle EXCEPT !.pc = "shown", !.kind = kind]]
         /\ UNCHANGED <<page, loading>>
    ELSE /\ start' = [start EXCEPT ![s] = [Idle EXCEPT !.pc = "load", !.kind = kind]]
         /\ page' = "blank"
         /\ loading' = IF loading # "no" THEN loading ELSE IF error THEN "diagnostic" ELSE "app"

\* handleBootstrapFailure, for the bootstrap that was start s
BootstrapFails(s) ==
  /\ failed' = TRUE
  /\ KillBackend
  /\ menu' = "retry"
  /\ EnsureLoaded(s, "show", TRUE)
  /\ UNCHANGED <<app, quit, url, restarts, minimized, retries>>

RestartFails(s) ==
  /\ start' = [start EXCEPT ![s] = Idle]
  /\ menu' = "normal"
  /\ UNCHANGED <<app, quit, child, handled, ref, url, restarts, timer, failed, window,
                 retries>>

StartFails(s) ==
  \/ start[s].kind = "bootstrap" /\ BootstrapFails(s)
  \/ start[s].kind = "restart" /\ RestartFails(s)

\* startBackend: a port is free, backendUrl names it, the package is verified, the preflight begins
PortFound(s) ==
  /\ At(s, "port") /\ app # "exited"
  /\ \E c \in Children : Fresh(c)
  /\ url' = NewChild
  /\ start' = [start EXCEPT ![s] = [@ EXCEPT !.pc = "preflight", !.child = NewChild]]
  /\ UNCHANGED <<app, quit, child, handled, ref, restarts, timer, failed, menu, window, retries>>

\* launchBackendProcess refuses: integrity, preflight, every interpreter name, the spawn itself
LaunchFails(s) == At(s, "preflight") /\ app # "exited" /\ StartFails(s)

\* The spawn, the assignment and the exit listener come without an await in between; the wait
\* polls the backendUrl of this moment.
Spawned(s) ==
  LET c == start[s].child IN
  /\ At(s, "preflight") /\ app # "exited"
  /\ child' = [child EXCEPT ![c] = "booting"]
  /\ ref' = c /\ handled' = handled \cup {c}
  /\ start' = [start EXCEPT ![s] = [@ EXCEPT !.pc = "wait", !.at = url]]
  /\ UNCHANGED <<app, quit, url, restarts, timer, failed, menu, window, retries>>

\* waitForBackendReady: 200 from /api/status of that port, or ten seconds are over
Ready(s) ==
  /\ At(s, "wait") /\ app # "exited" /\ child[start[s].at] = "ready"
  /\ failed' = FALSE
  /\ \/ /\ start[s].kind = "bootstrap"
        /\ page' = IF page = "none" THEN "blank" ELSE page
        /\ menu' = "normal"
        /\ start' = [start EXCEPT ![s] = [@ EXCEPT !.pc = "engine", !.at = url]]
     \/ /\ start[s].kind = "restart"
        /\ start' = [start EXCEPT ![s] = Idle]
        /\ UNCHANGED <<menu, page>>
  /\ UNCHANGED <<app, quit, child, handled, ref, url, restarts, timer, loading, minimized, retries>>

WaitEnds(s) == At(s, "wait") /\ app # "exited" /\ StartFails(s)

\* bootstrap: /api/start has answered or failed; the window is loaded, and shown unless minimized
EngineAsked(s) ==
  /\ At(s, "engine") /\ app # "exited"
  /\ EnsureLoaded(s, "bootstrap", failed)
  /\ UNCHANGED <<app, quit, child, handled, ref, url, restarts, timer, failed, menu, minimized,
                 retries>>

\* The load promise settles for everybody who waits for it.  Only after a failed start is the page
\* taken as it is; on the diagnostic one React never mounts.
LoadEnds ==
  /\ loading # "no" /\ app # "exited"
  /\ \E outcome \in {"mounted", "unmounted", "rejected"} :
       /\ page' = IF outcome = "rejected" THEN page
                  ELSE IF failed \/ (loading = "app" /\ outcome = "mounted") THEN loading
                  ELSE "failure"
       /\ start' = [s \in Starts |-> IF At(s, "load")
                      THEN [start[s] EXCEPT !.pc = IF outcome = "rejected" THEN "unshown"
                                                                           ELSE "shown"]
                      ELSE start[s]]
  /\ loading' = "no"
  /\ UNCHANGED <<app, quit, child, handled, ref, url, restarts, timer, failed, menu, minimized,
                 retries>>

\* showMainWindow goes on; its refresh of the status is a Refresh
Shown(s) ==
  /\ At(s, "shown") /\ app # "exited"
  /\ start' = [start EXCEPT ![s] = Idle]
  /\ UNCHANGED <<app, quit, child, handled, ref, url, restarts, timer, failed, menu, window, retries>>

\* showMainWindow keeps a load error to itself; bootstrap that only loads the window does not
NotShown(s) ==
  /\ At(s, "unshown") /\ app # "exited"
  /\ \/ start[s].kind = "bootstrap" /\ minimized /\ BootstrapFails(s)
     \/ /\ ~(start[s].kind = "bootstrap" /\ minimized)
        /\ start' = [start EXCEPT ![s] = Idle]
        /\ UNCHANGED <<app, quit, child, handled, ref, url, restarts, timer, failed, menu,
                       window, retries>>

-----------------------------------------------------------------------------
(* The backend process *)

Boots(c) ==
  /\ child[c] = "booting" /\ child' = [child EXCEPT ![c] = "ready"]
  /\ UNCHANGED <<app, quit, start, handled, ref, url, restarts, timer, failed, menu, window, retries>>

\* It crashes, or the kill takes effect, or its heartbeat finds the supervisor gone.
Dies(c) ==
  /\ Alive(c) \/ child[c] = "killed"
  /\ child' = [child EXCEPT ![c] = IF c \in handled THEN "dead" ELSE "none"]
  /\ UNCHANGED <<app, quit, start, handled, ref, url, restarts, timer, failed, menu, window, retries>>

(* Mutant: restarts are not counted. *)
RescheduleUncounted == timer' = TRUE /\ UNCHANGED restarts

Reschedule ==
  IF restarts < MaxRestarts THEN restarts' = restarts + 1 /\ timer' = TRUE
                            ELSE UNCHANGED <<restarts, timer>>

\* The exit event and its listener, whatever child backendProcess names by now.
ExitEvent(c) ==
  /\ child[c] = "dead" /\ c \in handled /\ app # "exited"
  /\ child' = [child EXCEPT ![c] = "none"] /\ handled' = handled \ {c}
  /\ ref' = NoChild
  /\ IF app = "quitting" THEN UNCHANGED <<restarts, timer, menu>>
     ELSE menu' = "normal" /\ Reschedule
  /\ UNCHANGED <<app, quit, start, url, failed, window, retries>>

RestartDue ==
  /\ timer /\ app # "exited" /\ timer' = FALSE
  /\ \/ app = "quitting" /\ UNCHANGED start
     \/ /\ app = "up"
        /\ CanStart /\ start' = [start EXCEPT ![NewStart] = Starting("restart")]
  /\ UNCHANGED <<app, quit, child, handled, ref, url, restarts, failed, menu, window, retries>>

-----------------------------------------------------------------------------
(* The tray *)

\* A status or an order is answered, or fails: updateTrayFromStatus, or the catch of
\* refreshStatusOnce; both put the normal menu.  Every 15 seconds, after showMainWindow, after an
\* order, on tray:status.
Refresh ==
  /\ app # "exited" /\ menu # "normal" /\ menu' = "normal"
  /\ UNCHANGED <<app, quit, start, child, handled, ref, url, restarts, timer, failed, window, retries>>

-----------------------------------------------------------------------------
(* The user *)

\* Retry, which the tray offers after a failed bootstrap
RetryBootstrap ==
  /\ app # "exited" /\ menu = "retry" /\ retries < MaxRetries /\ retries' = retries + 1
  /\ restarts' = 0
  /\ KillBackend
  /\ CanStart /\ start' = [start EXCEPT ![NewStart] = Starting("bootstrap")]
  /\ UNCHANGED <<app, quit, url, failed, menu, window>>

-----------------------------------------------------------------------------
(* Quit *)

\* Exit, Ctrl+Q, before-quit, SIGINT: only the first one counts
QuitApplication ==
  /\ app = "up" /\ app' = "quitting" /\ quit' = "stop"
  /\ UNCHANGED <<start, child, handled, ref, url, restarts, timer, failed, menu, window, retries>>

(* Mutant: no return when there is no backend; the wait for its exit has no end. *)
StopAnsweredWaits ==
  /\ quit = "stop" /\ ref # NoChild /\ quit' = "kill" /\ timer' = FALSE
  /\ handled' = handled \ {ref}
  /\ child' = [child EXCEPT ![ref] = IF Alive(ref) THEN "killed" ELSE "none"]
  /\ UNCHANGED <<app, start, ref, url, restarts, failed, menu, window, retries>>

\* gracefulShutdownBackend: /api/stop has answered or failed; the kill follows
StopAnswered ==
  /\ quit = "stop"
  /\ IF ref = NoChild
       THEN quit' = "closing" /\ UNCHANGED <<child, handled, timer>>
       ELSE /\ quit' = "kill" /\ timer' = FALSE /\ handled' = handled \ {ref}
            /\ child' = [child EXCEPT ![ref] = IF Alive(ref) THEN "killed" ELSE "none"]
  /\ UNCHANGED <<app, start, ref, url, restarts, failed, menu, window, retries>>

\* the child's exit, or five seconds
ChildGone ==
  /\ quit = "kill" /\ quit' = "closing"
  /\ UNCHANGED <<app, start, child, handled, ref, url, restarts, timer, failed, menu, window, retries>>

\* app.quit() has closed everything; nothing of the event loop is left
Exit ==
  /\ quit = "closing" /\ app = "quitting" /\ app' = "exited"
  /\ start' = [s \in Starts |-> Idle] /\ timer' = FALSE /\ loading' = "no"
  /\ handled' = {}
  /\ child' = [c \in Children |-> IF child[c] = "dead" THEN "none" ELSE child[c]]
  /\ UNCHANGED <<quit, ref, url, restarts, failed, menu, page, minimized, retries>>

-----------------------------------------------------------------------------
StartStep(s) ==
  \/ PortFound(s) \/ LaunchFails(s) \/ Spawned(s) \/ Ready(s) \/ WaitEnds(s) \/ EngineAsked(s)
  \/ Shown(s) \/ NotShown(s)

SupervisorNext ==
  \/ \E s \in Starts : StartStep(s)
  \/ LoadEnds
  \/ \E c \in Children : Boots(c) \/ Dies(c) \/ ExitEvent(c)
  \/ RestartDue \/ Refresh
  \/ RetryBootstrap
  \/ QuitApplication \/ StopAnswered \/ ChildGone \/ Exit

(* The event loop goes on, waits and requests have time limits, a kill takes   *)
(* effect.  The user need not do anything, and a backend need not come up.     *)
SupervisorFairness ==
  /\ \A s \in Starts : WF_supervisorVars(StartStep(s))
  /\ WF_supervisorVars(LoadEnds) /\ WF_supervisorVars(RestartDue)
  /\ \A c \in Children :
       /\ WF_supervisorVars(ExitEvent(c))
       /\ WF_supervisorVars(child[c] = "killed" /\ Dies(c))
  /\ WF_supervisorVars(StopAnswered) /\ WF_supervisorVars(ChildGone) /\ WF_supervisorVars(Exit)

SupervisorSpec == SupervisorInit /\ [][SupervisorNext]_supervisorVars
FairSpec == SupervisorSpec /\ SupervisorFairness

-----------------------------------------------------------------------------
(* Properties *)

\* Until the user asks for a retry, however starts, restarts, exits and a quit interleave, a live
\* backend is the one backendProcess names: a quit finds it, and no second one runs beside it
\* (attachBackendHandlers, startBackend, killBackendProcess).
NoOrphan ==
  retries = 0 /\ app # "exited" => \A c \in Children : Alive(c) => ref = c

\* Once the user quits, the program ends, whatever is being started, stopped or hanging.
QuitEnds == app = "quitting" ~> app = "exited"

\* A backend that never stays up is restarted a bounded number of times (attachBackendHandlers:
\* "guard against loops"): the supervisor comes to rest.
ComesToRest == <>[](~timer /\ \A s \in Starts : At(s, "idle"))

\* The comment of the error menu: a failed bootstrap offers "a working Retry".
RetryWorks ==
  retries > 0 /\ ~failed /\ (\A s \in Starts : At(s, "idle")) => page # "diagnostic"
=============================================================================
