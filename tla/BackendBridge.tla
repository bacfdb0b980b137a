---------------------------- MODULE BackendBridge ----------------------------
(***************************************************************************)
(* The backend process of the desktop app: request threads that start,     *)
(* stop and recover through one bridge, the main thread that stops the     *)
(* engine when the parent is gone, Ctrl+C, atexit, and a kill at any       *)
(* point.  An engine is an object the bridge builds; several exist at a    *)
(* time, and the single-instance mutex and the bridge's lifecycle lock     *)
(* decide which of them may change the machine.                            *)
(*   server/bridge.py     start, stop, recover                             *)
(*   server/__main__.py   main, the parent heartbeat                       *)
(*   isolator/runtime.py  run and shutdown, in large steps                 *)
(* EngineLifecycle has run, shutdown and the monitor of one engine in      *)
(* small steps.  Every caller here has administrator rights.               *)
(***************************************************************************)
EXTENDS Naturals

CONSTANTS
  Workers,          \* threads that serve requests
  Main,             \* the main thread
  Engines,          \* engine objects; one that is of no use any more is used again
  Nobody,           \* no thread
  NoEngine,         \* no engine
  RecoveryMayFail   \* a start or a recovery may find records it cannot undo

Threads == Workers \cup {Main}

ASSUME BridgeAssumption ==
  /\ Main \notin Workers /\ Nobody \notin Threads /\ NoEngine \notin Engines
  /\ RecoveryMayFail \in BOOLEAN

VARIABLES
  server,      \* the process and its main thread
  lifecycle,   \* the thread that holds bridge._lifecycle_lock
  ref,         \* bridge._engine
  stage,       \* per engine: "new", "held" (in run, with the mutex), "up", "refused", "dead" (its
               \* monitor thread has ended of an exception), "lost" (and a start has dropped it)
  sd,          \* per engine: how far its shutdown is
  mutex,       \* the engine whose handle keeps the single-instance mutex
  tuned,       \* the machine: engines whose changes are in place
  left,        \* the machine: an earlier process left changes behind
  call,        \* per thread: its request, where it is, the engine it works on
  early        \* history: engines shut down before their run was over

vars == <<server, lifecycle, ref, stage, sd, mutex, tuned, left, call, early>>

Idle == [op |-> "none", pc |-> "idle", e |-> NoEngine]

Init ==
  /\ server = "exited" /\ lifecycle = Nobody /\ ref = NoEngine
  /\ stage = [e \in Engines |-> "new"] /\ sd = [e \in Engines |-> "none"]
  /\ mutex = NoEngine /\ tuned = {} /\ left = FALSE
  /\ call = [t \in Threads |-> Idle] /\ early = {}

At(t, pc) == call[t].pc = pc
Go(t, pc) == call' = [call EXCEPT ![t].pc = pc]

(* get_runtime_status()["running"]: the monitor thread lives, and nobody has shut down. *)
Running(e) == stage[e] = "up" /\ sd[e] = "none"

(* An engine that is through with run and that nobody has shut down, dropped or not. *)
Unstopped(e) == stage[e] \in {"up", "dead", "lost"} /\ sd[e] = "none"

(* Nothing refers to the object any more, or has need of it. *)
Free(e) ==
  /\ stage[e] = "new" \/ sd[e] = "over"
  /\ e \notin tuned /\ mutex # e /\ ref # e /\ \A t \in Threads : call[t].e # e

-----------------------------------------------------------------------------
(* Requests.  Once the server stops, no new one is accepted.               *)

FirstStep == [start |-> "lock", stop |-> "lock", recover |-> "recCheck"]

Request(t, op) ==
  /\ server = "serving" /\ t \in Workers /\ At(t, "idle")
  /\ call' = [call EXCEPT ![t] = [op |-> op, pc |-> FirstStep[op], e |-> NoEngine]]
  /\ UNCHANGED <<server, lifecycle, ref, stage, sd, mutex, tuned, left, early>>

(* Faulty variant: start and stop exclude only their own kind. *)
LockIfStart(t) ==
  /\ At(t, "lock")
  /\ IF call[t].op = "start" THEN lifecycle = Nobody /\ lifecycle' = t /\ Go(t, "check")
                             ELSE Go(t, "detach") /\ UNCHANGED lifecycle
  /\ UNCHANGED <<server, ref, stage, sd, mutex, tuned, left, early>>

Lock(t) ==
  /\ At(t, "lock") /\ lifecycle = Nobody
  /\ lifecycle' = t /\ Go(t, IF call[t].op = "start" THEN "check" ELSE "detach")
  /\ UNCHANGED <<server, ref, stage, sd, mutex, tuned, left, early>>

(* The method returns: its lock, if it has it, and its engine are given up. *)
Unlock(t) ==
  /\ At(t, "unlock")
  /\ lifecycle' = IF lifecycle = t THEN Nobody ELSE lifecycle
  /\ call' = [call EXCEPT ![t] = Idle]
  /\ UNCHANGED <<server, ref, stage, sd, mutex, tuned, left, early>>

(* A new object; an engine that is dropped for it, and that has no monitor, is lost. *)
Build(t, e, pc, dropped) ==
  /\ Free(e)
  /\ stage' = [d \in Engines |-> IF d = e THEN "new"
                                ELSE IF d = dropped /\ stage[d] = "dead" THEN "lost" ELSE stage[d]]
  /\ sd' = [sd EXCEPT ![e] = "none"]
  /\ early' = early \ {e}
  /\ call' = [call EXCEPT ![t] = [op |-> call[t].op, pc |-> pc, e |-> e]]

-----------------------------------------------------------------------------
(* start, with the steps of run.                                           *)

StartFindsRunning(t) ==
  /\ At(t, "check") /\ ref # NoEngine /\ Running(ref) /\ Go(t, "unlock")
  /\ UNCHANGED <<server, lifecycle, ref, stage, sd, mutex, tuned, left, early>>

(* An engine that is not running any more is dropped as it is: nobody shuts it down. *)
StartBuilds(t, e) ==
  /\ At(t, "check") /\ ~(ref # NoEngine /\ Running(ref))
  /\ ref' = NoEngine /\ Build(t, e, "mutex", ref)
  /\ UNCHANGED <<server, lifecycle, mutex, tuned, left>>

(* _ensure_single_instance, then atexit and the console handler. *)
RunMutex(t) ==
  LET e == call[t].e IN
  /\ At(t, "mutex")
  /\ IF mutex = NoEngine
     THEN mutex' = e /\ stage' = [stage EXCEPT ![e] = "held"] /\ Go(t, "recover")
     ELSE Go(t, "unlock") /\ UNCHANGED <<mutex, stage>>
  /\ UNCHANGED <<server, lifecycle, ref, sd, tuned, left, early>>

(* Recovery undoes whatever is on record, whoever changed it. *)
RunRecovers(t) ==
  /\ At(t, "recover") /\ tuned' = {} /\ left' = FALSE /\ Go(t, "apply")
  /\ UNCHANGED <<server, lifecycle, ref, stage, sd, mutex, early>>

(* Faulty variant: the refusal returns past the release of the lifecycle lock. *)
RunRefusedKeepsLock(t) ==
  /\ At(t, "recover") /\ RecoveryMayFail /\ (left \/ tuned # {})
  /\ stage' = [stage EXCEPT ![call[t].e] = "refused"] /\ call' = [call EXCEPT ![t] = Idle]
  /\ UNCHANGED <<server, lifecycle, ref, sd, mutex, tuned, left, early>>

(* Refused: the mutex stays with the engine, and the bridge forgets the engine. *)
RunRefused(t) ==
  /\ At(t, "recover") /\ RecoveryMayFail /\ (left \/ tuned # {})
  /\ stage' = [stage EXCEPT ![call[t].e] = "refused"] /\ Go(t, "unlock")
  /\ UNCHANGED <<server, lifecycle, ref, sd, mutex, tuned, left, early>>

RunApplies(t) ==
  /\ At(t, "apply") /\ tuned' = tuned \cup {call[t].e} /\ Go(t, "monitor")
  /\ UNCHANGED <<server, lifecycle, ref, stage, sd, mutex, left, early>>

(* Faulty variant: the lifecycle lock is given up before the engine is published. *)
RunMonitorUnlocks(t) ==
  /\ At(t, "monitor") /\ stage' = [stage EXCEPT ![call[t].e] = "up"] /\ Go(t, "publish")
  /\ lifecycle' = Nobody
  /\ UNCHANGED <<server, ref, sd, mutex, tuned, left, early>>

RunMonitor(t) ==
  /\ At(t, "monitor") /\ stage' = [stage EXCEPT ![call[t].e] = "up"] /\ Go(t, "publish")
  /\ UNCHANGED <<server, lifecycle, ref, sd, mutex, tuned, left, early>>

Publish(t) ==
  /\ At(t, "publish") /\ ref' = call[t].e /\ Go(t, "unlock")
  /\ UNCHANGED <<server, lifecycle, stage, sd, mutex, tuned, left, early>>

-----------------------------------------------------------------------------
(* stop: the engine is taken out of the bridge, then shut down.            *)

Detach(t) ==
  /\ At(t, "detach") /\ ref' = NoEngine
  /\ call' = [call EXCEPT ![t] = [op |-> call[t].op, pc |-> IF ref = NoEngine THEN "unlock" ELSE "shutdown",
                                  e |-> ref]]
  /\ UNCHANGED <<server, lifecycle, stage, sd, mutex, tuned, left, early>>

(* The compare-and-set of shutdown; the loser returns. *)
StopShutdown(t) ==
  LET e == call[t].e IN
  /\ At(t, "shutdown")
  /\ IF sd[e] = "none"
     THEN sd' = [sd EXCEPT ![e] = "restoring"] /\ Go(t, "wait")
     ELSE Go(t, "unlock") /\ UNCHANGED sd
  /\ UNCHANGED <<server, lifecycle, ref, stage, mutex, tuned, left, early>>

StopShutDown(t) ==
  /\ At(t, "wait") /\ sd[call[t].e] = "over" /\ Go(t, "unlock")
  /\ UNCHANGED <<server, lifecycle, ref, stage, sd, mutex, tuned, left, early>>

(* The steps of shutdown in the thread that won: restore, then the mutex. *)
SdRestore(e) ==
  /\ sd[e] = "restoring" /\ sd' = [sd EXCEPT ![e] = "releasing"] /\ tuned' = tuned \ {e}
  /\ UNCHANGED <<server, lifecycle, ref, stage, mutex, left, call, early>>

(* Faulty variant: the handle is closed, and a stale value is kept for it. *)
SdReleaseStale(e) ==
  /\ sd[e] = "releasing" /\ sd' = [sd EXCEPT ![e] = "over"]
  /\ mutex' = IF mutex = e THEN Nobody ELSE mutex
  /\ UNCHANGED <<server, lifecycle, ref, stage, tuned, left, call, early>>

SdRelease(e) ==
  /\ sd[e] = "releasing" /\ sd' = [sd EXCEPT ![e] = "over"]
  /\ mutex' = IF mutex = e THEN NoEngine ELSE mutex
  /\ UNCHANGED <<server, lifecycle, ref, stage, tuned, left, call, early>>

(* The loop of the monitor begins outside its try: an exception there ends the thread. *)
MonitorDies(e) ==
  /\ Running(e) /\ stage' = [stage EXCEPT ![e] = "dead"]
  /\ UNCHANGED <<server, lifecycle, ref, sd, mutex, tuned, left, call, early>>

(* Ctrl+C in the console of the process; Windows calls the handler of the engine that has   *)
(* started.  (Before its start is over: EngineLifecycle.)                                   *)
HandlerShutdown(e) ==
  /\ Unstopped(e) /\ sd' = [sd EXCEPT ![e] = "restoring"]
  /\ UNCHANGED <<server, lifecycle, ref, stage, mutex, tuned, left, call, early>>

-----------------------------------------------------------------------------
(* recover: an engine of its own, without the lifecycle lock.              *)

RecoverConflict(t) ==
  /\ At(t, "recCheck") /\ ref # NoEngine /\ Running(ref) /\ Go(t, "unlock")
  /\ UNCHANGED <<server, lifecycle, ref, stage, sd, mutex, tuned, left, early>>

RecoverBuilds(t, e) ==
  /\ At(t, "recCheck") /\ ~(ref # NoEngine /\ Running(ref)) /\ Build(t, e, "recMutex", NoEngine)
  /\ UNCHANGED <<server, lifecycle, ref, mutex, tuned, left>>

(* Faulty variant: the check for a running engine is thought to be enough. *)
RecoverNoMutex(t) ==
  /\ At(t, "recMutex") /\ Go(t, "recovering")
  /\ UNCHANGED <<server, lifecycle, ref, stage, sd, mutex, tuned, left, early>>

RecoverMutex(t) ==
  /\ At(t, "recMutex")
  /\ IF mutex = NoEngine
     THEN mutex' = call[t].e /\ Go(t, "recovering")
     ELSE Go(t, "unlock") /\ UNCHANGED mutex
  /\ UNCHANGED <<server, lifecycle, ref, stage, sd, tuned, left, early>>

Recovers(t) ==
  /\ At(t, "recovering") /\ Go(t, "recRelease")
  /\ \/ tuned' = {} /\ left' = FALSE
     \/ RecoveryMayFail /\ (left \/ tuned # {}) /\ UNCHANGED <<tuned, left>>
  /\ UNCHANGED <<server, lifecycle, ref, stage, sd, mutex, early>>

RecoverRelease(t) ==
  /\ At(t, "recRelease") /\ Go(t, "unlock")
  /\ mutex' = IF mutex = call[t].e THEN NoEngine ELSE mutex
  /\ UNCHANGED <<server, lifecycle, ref, stage, sd, tuned, left, early>>

-----------------------------------------------------------------------------
(* The process: main, its finally block, atexit, the end.                  *)

BackendStart ==
  /\ server \in {"exited", "killed"} /\ server' = "serving"
  /\ UNCHANGED <<lifecycle, ref, stage, sd, mutex, tuned, left, call, early>>

(* The parent is gone, or the server is interrupted: stop, in the main thread. *)
Terminate ==
  /\ server = "serving" /\ server' = "stopping"
  /\ call' = [call EXCEPT ![Main] = [op |-> "stop", pc |-> "lock", e |-> NoEngine]]
  /\ UNCHANGED <<lifecycle, ref, stage, sd, mutex, tuned, left, early>>

MainStopped ==
  /\ server = "stopping" /\ At(Main, "idle") /\ server' = "exiting"
  /\ UNCHANGED <<lifecycle, ref, stage, sd, mutex, tuned, left, call, early>>

(* Faulty variant: shutdown is not registered for the exit. *)
RegisteredNever(e) == e \notin Engines

Registered(e) == stage[e] # "new" /\ sd[e] = "none"

(* atexit: the shutdown of an engine that took the mutex, the bridge having forgotten it, or *)
(* of one that a request thread is still starting.                                           *)
AtExit(e) ==
  /\ server = "exiting" /\ At(Main, "idle") /\ Registered(e)
  /\ sd' = [sd EXCEPT ![e] = "restoring"]
  /\ call' = [call EXCEPT ![Main] = [op |-> "atexit", pc |-> "wait", e |-> e]]
  /\ early' = IF stage[e] = "held" THEN early \cup {e} ELSE early
  /\ UNCHANGED <<server, lifecycle, ref, stage, mutex, tuned, left>>

(* The threads that serve requests are daemons: the exit does not wait for them.  What the *)
(* engines of this process changed stays.                                                  *)
Gone(how) ==
  /\ server' = how /\ lifecycle' = Nobody /\ ref' = NoEngine
  /\ stage' = [e \in Engines |-> "new"] /\ sd' = [e \in Engines |-> "none"]
  /\ mutex' = NoEngine /\ left' = (left \/ tuned # {}) /\ tuned' = {}
  /\ call' = [t \in Threads |-> Idle] /\ early' = {}

ProcessExit ==
  /\ server = "exiting" /\ At(Main, "idle") /\ (\A e \in Engines : ~Registered(e)) /\ Gone("exited")

Kill == server \in {"serving", "stopping", "exiting"} /\ Gone("killed")

-----------------------------------------------------------------------------
Start(t)   == \/ StartFindsRunning(t) \/ RunMutex(t) \/ RunRecovers(t) \/ RunRefused(t) \/ RunApplies(t)
              \/ RunMonitor(t) \/ Publish(t) \/ (\E e \in Engines : StartBuilds(t, e))
Stop(t)    == Detach(t) \/ StopShutdown(t) \/ StopShutDown(t)
Recover(t) == \/ RecoverConflict(t) \/ RecoverMutex(t) \/ Recovers(t) \/ RecoverRelease(t)
              \/ (\E e \in Engines : RecoverBuilds(t, e))
Serve(t)   == Lock(t) \/ Unlock(t) \/ Start(t) \/ Stop(t) \/ Recover(t)
Restore(e) == SdRestore(e) \/ SdRelease(e)
Exit       == MainStopped \/ ProcessExit \/ (\E e \in Engines : AtExit(e))

Next ==
  \/ \E t \in Threads : Serve(t) \/ (\E op \in {"start", "stop", "recover"} : Request(t, op))
  \/ \E e \in Engines : Restore(e) \/ HandlerShutdown(e) \/ MonitorDies(e)
  \/ BackendStart \/ Terminate \/ Exit \/ Kill

(* Every thread is scheduled and every call it makes returns. *)
Fairness ==
  /\ \A t \in Threads : WF_vars(Serve(t))
  /\ \A e \in Engines : WF_vars(Restore(e))
  /\ WF_vars(Exit)

Spec == Init /\ [][Next]_vars /\ Fairness

-----------------------------------------------------------------------------
CallType ==
  [Threads -> [op : {"none", "start", "stop", "recover", "atexit"},
               pc : {"idle", "lock", "unlock", "check", "mutex", "recover", "apply", "monitor",
                     "publish", "detach", "shutdown", "wait", "recCheck", "recMutex", "recovering",
                     "recRelease"},
               e  : Engines \cup {NoEngine}]]

(* Every variable holds a value of its kind. *)
TypeOK ==
  /\ server \in {"serving", "stopping", "exiting", "exited", "killed"}
  /\ lifecycle \in Threads \cup {Nobody} /\ ref \in Engines \cup {NoEngine}
  /\ stage \in [Engines -> {"new", "held", "up", "refused", "dead", "lost"}]
  /\ sd \in [Engines -> {"none", "restoring", "releasing", "over"}]
  /\ mutex \in Engines \cup {NoEngine} /\ tuned \subseteq Engines /\ left \in BOOLEAN
  /\ call \in CallType
  /\ early \subseteq Engines

(* The engine changes the machine, or undoes what is on record. *)
AtWork(e) ==
  /\ e \notin early
  /\ \/ e \in tuned
     \/ stage[e] \in {"up", "dead", "lost"} /\ sd[e] # "over"
     \/ \E t \in Threads : /\ call[t].e = e
                           /\ call[t].pc \in {"recover", "apply", "monitor", "recovering"}

(* bridge.py:38-40, 418-472, runtime.py:453-464: whatever requests come together, no two   *)
(* engines of the process are at work at the same time; so no recovery undoes what a       *)
(* session, one that is starting or one that is stopping still needs.                      *)
OneAtWork == \A e1, e2 \in Engines : AtWork(e1) /\ AtWork(e2) => e1 = e2

(* bridge.py:419-423: an engine that is through with its start and not shut down is in the *)
(* bridge, or in the hands of the one start or stop that holds the lifecycle lock; no      *)
(* engine runs on that no stop can reach.  One that does not run any more can be lost.     *)
RunningIsKnown ==
  \A e \in Engines : Unstopped(e) /\ stage[e] # "lost" =>
    \/ ref = e
    \/ \E t \in Threads : lifecycle = t /\ call[t].e = e /\ call[t].pc \in {"publish", "shutdown"}

(* Changes that a shutdown is taking back at this moment. *)
BeingRestored == {e \in Engines : sd[e] = "restoring"}

(* Engines that lost their monitor and that a start has dropped: stop does not find them.  *)
Lost == {e \in Engines : stage[e] = "lost"}

(* bridge.py:449-459: when stop answers, the machine is restored, but for an engine whose  *)
(* shutdown the handler of Ctrl+C began and has not finished, and for a lost one.          *)
StopRestores ==
  \A t \in Threads : call[t].op = "stop" /\ call[t].pc = "unlock" =>
    tuned \subseteq early \cup BeingRestored \cup Lost

(* __main__.py:78-88, runtime.py:525: a backend that ends by itself leaves no changes      *)
(* behind, even when a start was waiting for the lifecycle lock of the last stop; but for  *)
(* a shutdown that another thread began, for which the exit does not wait.                 *)
ExitRestores ==
  [][server = "exiting" /\ server' = "exited" => tuned \subseteq early \cup BeingRestored]_vars

(* __main__.py:39-45, 82-88: once the parent is gone the backend ends, whatever requests   *)
(* are still being served.                                                                 *)
ParentGoneEnds == server = "stopping" ~> server \in {"exited", "killed"}

(* ui/src/locales/en.mjs:253: the protected state can be restored from the dashboard: a    *)
(* recovery that is alone, with no engine running, finds the mutex free.                   *)
RecoverIsPossible ==
  \A t \in Threads :
    /\ call[t].pc = "recMutex" /\ ref = NoEngine
    /\ \A u \in Threads \ {t} : call[u].pc = "idle"
    /\ \A e \in Engines : sd[e] \in {"none", "over"}
    => mutex = NoEngine
=============================================================================
