------------------------ MODULE BackendBridge_proofs ------------------------
(***************************************************************************)
(* Proofs about BackendBridge, for every set of request threads and engine *)
(* objects.  The argument: what a start or a stop does to the bridge is    *)
(* done under the lifecycle lock (Locked), an engine that changes the      *)
(* machine has the mutex (Holds), an engine in the hands of a start or a   *)
(* recovery is nobody else's (Fresh, Starting), and the engine that runs   *)
(* can be found (RunningIsKnown).                                          *)
(***************************************************************************)
EXTENDS BackendBridge, TLAPS

StartSteps   == {"check", "mutex", "recover", "apply", "monitor", "publish"}
RecoverSteps == {"recCheck", "recMutex", "recovering", "recRelease"}

(* The main thread has work only once the server stops. *)
MainIdle == server \in {"serving", "exited", "killed"} => call[Main] = Idle

(* Each step belongs to its request. *)
Ops == \A t \in Threads :
  /\ call[t].pc \in StartSteps   => call[t].op = "start"
  /\ call[t].pc \in RecoverSteps => call[t].op = "recover"

(* start and stop hold the lifecycle lock from beginning to end. *)
Locked == \A t \in Threads :
  \/ call[t].pc \in StartSteps \cup {"detach", "shutdown"}
  \/ call[t].pc \in {"wait", "unlock"} /\ call[t].op = "stop"
  => lifecycle = t

(* An engine without the mutex, or one that recovers, is untouched and known to one thread. *)
Fresh == \A t \in Threads : call[t].pc \in {"mutex", "recMutex", "recovering", "recRelease"} =>
  LET e == call[t].e IN
  /\ e \in Engines /\ stage[e] = "new" /\ sd[e] = "none" /\ e \notin tuned /\ ref # e
  /\ \A u \in Threads \ {t} : call[u].e # e

(* An engine that is starting has the mutex, unless the exit has shut it down. *)
Starting == \A t \in Threads :
  LET e == call[t].e IN
  /\ call[t].pc \in {"recover", "apply", "monitor"} =>
       /\ e \in Engines /\ stage[e] = "held"
       /\ e \notin early => mutex = e /\ sd[e] = "none"
  /\ call[t].pc \in {"recover", "apply"} /\ e \notin early => e \notin tuned
  /\ call[t].pc \in {"publish", "shutdown", "wait"} => e \in Engines

Recovering == \A t \in Threads : call[t].pc \in {"recovering", "recRelease"} => mutex = call[t].e

(* An engine that changed the machine, or that is through with run, has the mutex. *)
Holds == \A e \in Engines :
  /\ e \notin early
  /\ e \in tuned \/ (stage[e] \in {"up", "dead", "lost"} /\ sd[e] # "over")
  => mutex = e

(* No shutdown passes its restore with changes of the engine in place, *)
Unrestored == \A e \in Engines : e \in tuned /\ e \notin early =>
  sd[e] \in {"none", "restoring"} /\ stage[e] \in {"held", "up", "dead", "lost"}

(* and those of an engine that is starting are in the hands of its start. *)
TunedByStart == \A e \in Engines : e \in tuned /\ e \notin early /\ stage[e] = "held" =>
  \E t \in Threads : call[t].e = e /\ call[t].pc = "monitor"

(* The bridge has no engine while one is being started or stopped. *)
BridgeEmpty == \A t \in Threads :
  \/ call[t].pc \in StartSteps \ {"check"}
  \/ call[t].op = "stop" /\ call[t].pc \in {"shutdown", "wait", "unlock"}
  => ref = NoEngine

Places  == MainIdle /\ Ops /\ Locked /\ BridgeEmpty
Hands   == Fresh /\ Starting /\ Recovering
Changes == Holds /\ Unrestored /\ TunedByStart
Inv     == TypeOK /\ Places /\ Hands /\ Changes /\ RunningIsKnown

-----------------------------------------------------------------------------
(* The backend does not run yet. *)
LEMMA InitInv == Init => Inv
<1> SUFFICES ASSUME Init PROVE Inv  OBVIOUS
<1>1. TypeOK  BY DEF Init, TypeOK, CallType, Idle, Threads
<1>2. MainIdle /\ Ops /\ Locked /\ Fresh /\ Starting /\ Recovering /\ BridgeEmpty
  BY DEF Init, Idle, Threads, MainIdle, Ops, Locked, Fresh, Starting, Recovering, BridgeEmpty,
         StartSteps, RecoverSteps
<1>3. Holds /\ Unrestored /\ TunedByStart /\ RunningIsKnown
  BY DEF Init, Holds, Unrestored, TunedByStart, RunningIsKnown, Unstopped
<1> QED  BY <1>1, <1>2, <1>3 DEF Inv, Places, Hands, Changes

(* The process ends: every thread and object is gone with it. *)
LEMMA GoneInv == ASSUME Inv, NEW how \in {"exited", "killed"}, Gone(how) PROVE Inv'
<1>1. server' = how /\ lifecycle' = Nobody /\ ref' = NoEngine /\ mutex' = NoEngine
      /\ stage' = [e \in Engines |-> "new"] /\ sd' = [e \in Engines |-> "none"]
      /\ tuned' = {} /\ call' = [t \in Threads |-> Idle] /\ early' = {}
  BY DEF Gone
<1>2. left' \in BOOLEAN  BY DEF Gone
<1>3. TypeOK'
  <2>1. call' \in CallType
     BY <1>1 DEF Idle, CallType
  <2> QED BY <1>1, <1>2, <2>1 DEF TypeOK
<1>4. MainIdle' /\ Ops' /\ Locked' /\ Fresh' /\ Starting' /\ Recovering' /\ BridgeEmpty'
  BY <1>1 DEF Idle, Threads, MainIdle, Ops, Locked, Fresh, Starting, Recovering, BridgeEmpty,
              StartSteps, RecoverSteps
<1>5. Holds' /\ Unrestored' /\ TunedByStart' /\ RunningIsKnown'
  BY <1>1 DEF Holds, Unrestored, TunedByStart, RunningIsKnown, Unstopped
<1> QED  BY <1>3, <1>4, <1>5 DEF Inv, Places, Hands, Changes

(* Inv is about the variables only. *)
LEMMA Stutter == ASSUME Inv, UNCHANGED vars PROVE Inv'
  BY DEF vars, Inv, Places, Hands, Changes, TypeOK, CallType, MainIdle, Ops, Locked, Fresh,
         Starting, Recovering, Holds, Unrestored, TunedByStart, BridgeEmpty, RunningIsKnown, Unstopped

(* start, with the lifecycle lock in hand. *)
LEMMA StartKeepsInv ==
  ASSUME Inv, NEW t \in Threads, Start(t)
  PROVE  Inv'
<1>1. CASE StartFindsRunning(t)
  <2>1. TypeOK'
      BY <1>1 DEF Inv, StartFindsRunning, TypeOK, CallType, Go
  <2>2. Places' /\ Hands' /\ Changes' /\ RunningIsKnown'
      BY <1>1 DEF Inv, Places, Hands, Changes, StartFindsRunning, MainIdle, Ops, Locked,
          BridgeEmpty, Fresh, Starting, Recovering, Holds, Unrestored, TunedByStart,
          RunningIsKnown, Idle, StartSteps, RecoverSteps, At, Go, Unstopped
  <2> QED
      BY <2>1, <2>2 DEF Inv
<1>2. CASE RunMutex(t)
  <2>1. TypeOK'
      BY <1>2 DEF Inv, RunMutex, TypeOK, CallType, Go
  <2>2. Places'
      BY <1>2 DEF Inv, Places, RunMutex, MainIdle, Ops, Locked, BridgeEmpty, TypeOK, CallType,
          Idle, Threads, StartSteps, RecoverSteps, At, Go
  <2>3. Hands'
      BY <1>2, BridgeAssumption DEF Inv, Hands, RunMutex, Fresh, Starting, Recovering, TypeOK,
          CallType, At, Go
  <2>4. Changes'
      BY <1>2, BridgeAssumption DEF Inv, Changes, RunMutex, Holds, Unrestored, TunedByStart,
          TypeOK, CallType, At, Go
  <2>5. RunningIsKnown'
      BY <1>2 DEF Inv, RunMutex, RunningIsKnown, TypeOK, CallType, Unstopped, At, Go
  <2> QED
      BY <2>1, <2>2, <2>3, <2>4, <2>5 DEF Inv
<1>3. CASE RunRecovers(t)
  <2>1. TypeOK'
    <3>1. call' \in CallType /\ tuned' \subseteq Engines
      BY <1>3 DEF Inv, TypeOK, CallType, RunRecovers, At, Go
    <3>2. left' \in BOOLEAN
      BY <1>3 DEF Inv, TypeOK, RunRecovers
    <3> QED
      BY <1>3, <3>1, <3>2 DEF Inv, TypeOK, CallType, RunRecovers
  <2>2. Places'
      BY <1>3 DEF Inv, Places, RunRecovers, MainIdle, Ops, Locked, BridgeEmpty, Idle,
          StartSteps, RecoverSteps, At, Go
  <2>3. Hands'
      BY <1>3 DEF Inv, Hands, RunRecovers, Fresh, Starting, Recovering, At, Go
  <2>4. Changes'
      BY <1>3 DEF Inv, Changes, RunRecovers, Holds, Unrestored, TunedByStart
  <2>5. RunningIsKnown'
      BY <1>3 DEF Inv, RunRecovers, RunningIsKnown, Unstopped, At, Go
  <2> QED
      BY <2>1, <2>2, <2>3, <2>4, <2>5 DEF Inv
<1>4. CASE RunRefused(t)
  <2>1. TypeOK'
      BY <1>4 DEF Inv, Hands, RunRefused, TypeOK, CallType, Starting, At, Go
  <2>2. Places'
      BY <1>4 DEF Inv, Places, RunRefused, MainIdle, Ops, Locked, BridgeEmpty, Idle, StartSteps,
          RecoverSteps, At, Go
  <2>3. Hands'
      BY <1>4 DEF Inv, Hands, Places, RunRefused, Fresh, Starting, Recovering, TypeOK, CallType,
          Locked, StartSteps, At, Go
  <2>4. Changes'
      BY <1>4 DEF Inv, Changes, Hands, RunRefused, Holds, Unrestored, TunedByStart, Starting,
          At, Go
  <2>5. RunningIsKnown'
      BY <1>4 DEF Inv, RunRefused, RunningIsKnown, Unstopped, At, Go
  <2> QED
      BY <2>1, <2>2, <2>3, <2>4, <2>5 DEF Inv
<1>5. CASE RunApplies(t)
  <2>1. TypeOK'
      BY <1>5 DEF Inv, Hands, RunApplies, TypeOK, CallType, Starting, At, Go
  <2>2. Places'
      BY <1>5 DEF Inv, Places, RunApplies, MainIdle, Ops, Locked, BridgeEmpty, Idle, StartSteps,
          RecoverSteps, At, Go
  <2>3. Hands'
      BY <1>5 DEF Inv, Hands, Places, RunApplies, Fresh, Starting, Recovering, TypeOK, CallType,
          Locked, StartSteps, At, Go
  <2>4. Changes'
      BY <1>5 DEF Inv, Changes, Hands, RunApplies, Holds, Unrestored, TunedByStart, TypeOK,
          CallType, Starting, At, Go
  <2>5. RunningIsKnown'
      BY <1>5 DEF Inv, RunApplies, RunningIsKnown, Unstopped, At, Go
  <2> QED
      BY <2>1, <2>2, <2>3, <2>4, <2>5 DEF Inv
<1>6. CASE RunMonitor(t)
  <2>1. TypeOK'
      BY <1>6 DEF Inv, Hands, RunMonitor, TypeOK, CallType, Starting, At, Go
  <2>2. Places'
      BY <1>6 DEF Inv, Places, RunMonitor, MainIdle, Ops, Locked, BridgeEmpty, Idle, StartSteps,
          RecoverSteps, At, Go
  <2>3. Hands'
      BY <1>6 DEF Inv, Hands, Places, RunMonitor, Fresh, Starting, Recovering, TypeOK, CallType,
          Locked, StartSteps, At, Go
  <2>4. Changes'
      BY <1>6 DEF Inv, Changes, Hands, RunMonitor, Holds, Unrestored, TunedByStart, TypeOK,
          CallType, Starting, At, Go
  <2>5. RunningIsKnown'
      BY <1>6 DEF Inv, Places, RunMonitor, RunningIsKnown, TypeOK, CallType, Locked, Unstopped,
          StartSteps, At, Go
  <2> QED
      BY <2>1, <2>2, <2>3, <2>4, <2>5 DEF Inv
<1>7. CASE Publish(t)
  <2>1. TypeOK'
      BY <1>7 DEF Inv, Publish, TypeOK, CallType, Go
  <2>2. Places'
      BY <1>7 DEF Inv, Places, Publish, MainIdle, Ops, Locked, BridgeEmpty, TypeOK, CallType,
          Idle, StartSteps, RecoverSteps, At, Go
  <2>3. Hands'
      BY <1>7 DEF Inv, Hands, Publish, Fresh, Starting, Recovering, At, Go
  <2>4. Changes'
      BY <1>7 DEF Inv, Changes, Publish, Holds, Unrestored, TunedByStart, At, Go
  <2>5. RunningIsKnown'
      BY <1>7, BridgeAssumption DEF Inv, Places, Publish, RunningIsKnown, BridgeEmpty, Unstopped,
          StartSteps, At, Go
  <2> QED
      BY <2>1, <2>2, <2>3, <2>4, <2>5 DEF Inv
<1>8. ASSUME NEW e \in Engines, StartBuilds(t, e) PROVE Inv'
  <2>1. TypeOK'
      BY <1>8 DEF Inv, StartBuilds, TypeOK, CallType, Build, Free
  <2>2. Places'
      BY <1>8 DEF Inv, Places, StartBuilds, MainIdle, Ops, Locked, BridgeEmpty, Idle,
          StartSteps, RecoverSteps, At, Build
  <2>3. Hands'
      BY <1>8, BridgeAssumption DEF Inv, Hands, StartBuilds, Fresh, Starting, Recovering,
          TypeOK, CallType, Build, Free
  <2>4. Changes'
      BY <1>8 DEF Inv, Changes, StartBuilds, Holds, Unrestored, TunedByStart, TypeOK, CallType,
          At, Build, Free
  <2>5. RunningIsKnown'
    <3>1. /\ ref = NoEngine \/ ~Running(ref)
          /\ \A d \in Engines : d # e =>
               /\ sd'[d] = sd[d]
               /\ stage'[d] = IF d = ref /\ stage[d] = "dead" THEN "lost" ELSE stage[d]
          /\ stage'[e] = "new"
      BY <1>8 DEF Inv, TypeOK, StartBuilds, Build
    <3>2. ASSUME NEW d \in Engines, Unstopped(d)', stage'[d] # "lost"
          PROVE  Unstopped(d) /\ stage[d] # "lost" /\ ref # d
      BY <3>1, <3>2, BridgeAssumption DEF Unstopped, Running
    <3> QED
      BY <1>8, <3>2 DEF Inv, StartBuilds, RunningIsKnown, TypeOK, CallType, At, Build
  <2> QED
      BY <2>1, <2>2, <2>3, <2>4, <2>5 DEF Inv
<1> QED
  BY <1>1, <1>2, <1>3, <1>4, <1>5, <1>6, <1>7, <1>8 DEF Start

(* The lock itself, and stop. *)
LEMMA StopKeepsInv ==
  ASSUME Inv, NEW t \in Threads, Lock(t) \/ Unlock(t) \/ Stop(t)
  PROVE  Inv'
<1>1. CASE Lock(t)
  <2>1. TypeOK'
      BY <1>1 DEF Inv, Lock, TypeOK, CallType, Go
  <2>2. Places'
      BY <1>1, BridgeAssumption DEF Inv, Places, Lock, MainIdle, Ops, Locked, BridgeEmpty, Idle,
          StartSteps, RecoverSteps, At, Go
  <2>3. Hands'
      BY <1>1 DEF Inv, Hands, Lock, Fresh, Starting, Recovering, Go
  <2>4. Changes'
      BY <1>1 DEF Inv, Changes, Lock, Holds, Unrestored, TunedByStart, At, Go
  <2>5. RunningIsKnown'
      BY <1>1, BridgeAssumption DEF Inv, Lock, RunningIsKnown, Unstopped
  <2> QED
      BY <2>1, <2>2, <2>3, <2>4, <2>5 DEF Inv
<1>2. CASE Unlock(t)
  <2>1. TypeOK'
      BY <1>2 DEF Inv, Unlock, TypeOK, CallType, Idle
  <2>2. Places'
      BY <1>2 DEF Inv, Places, Unlock, MainIdle, Ops, Locked, BridgeEmpty, TypeOK, CallType,
          Idle, StartSteps, RecoverSteps
  <2>3. Hands'
      BY <1>2, BridgeAssumption DEF Inv, Hands, Unlock, Fresh, Starting, Recovering, Idle
  <2>4. Changes'
      BY <1>2 DEF Inv, Changes, Unlock, Holds, Unrestored, TunedByStart, At
  <2>5. RunningIsKnown'
      BY <1>2 DEF Inv, Unlock, RunningIsKnown, Unstopped, At
  <2> QED
      BY <2>1, <2>2, <2>3, <2>4, <2>5 DEF Inv
<1>3. CASE Detach(t)
  <2>1. TypeOK'
      BY <1>3 DEF Inv, Detach, TypeOK, CallType, At
  <2>2. Places'
      BY <1>3 DEF Inv, Places, Detach, MainIdle, Ops, Locked, BridgeEmpty, Idle, StartSteps,
          RecoverSteps, At
  <2>3. Hands'
      BY <1>3, BridgeAssumption DEF Inv, Hands, Detach, Fresh, Starting, Recovering, TypeOK,
          CallType
  <2>4. Changes'
      BY <1>3 DEF Inv, Changes, Detach, Holds, Unrestored, TunedByStart, At
  <2>5. RunningIsKnown'
      BY <1>3 DEF Inv, Places, Detach, RunningIsKnown, TypeOK, CallType, Locked, Unstopped, At
  <2> QED
      BY <2>1, <2>2, <2>3, <2>4, <2>5 DEF Inv
<1>4. CASE StopShutdown(t)
  <2>1. TypeOK'
      BY <1>4 DEF Inv, StopShutdown, TypeOK, CallType, Go
  <2>2. Places'
      BY <1>4 DEF Inv, Places, StopShutdown, MainIdle, Ops, Locked, BridgeEmpty, TypeOK,
          CallType, Idle, Threads, StartSteps, RecoverSteps, At, Go
  <2>3. Hands'
      BY <1>4 DEF Inv, Hands, Places, StopShutdown, Fresh, Starting, Recovering, TypeOK,
          CallType, Locked, StartSteps, At, Go
  <2>4. Changes'
      BY <1>4 DEF Inv, Changes, StopShutdown, Holds, Unrestored, TunedByStart, TypeOK, CallType,
          At, Go
  <2>5. RunningIsKnown'
      BY <1>4 DEF Inv, StopShutdown, RunningIsKnown, TypeOK, CallType, Unstopped, Go
  <2> QED
      BY <2>1, <2>2, <2>3, <2>4, <2>5 DEF Inv
<1>5. CASE StopShutDown(t)
  <2>1. TypeOK'
      BY <1>5 DEF Inv, StopShutDown, TypeOK, CallType, Go
  <2>2. Places' /\ Hands' /\ Changes' /\ RunningIsKnown'
      BY <1>5 DEF Inv, Places, Hands, Changes, StopShutDown, MainIdle, Ops, Locked, BridgeEmpty,
          Fresh, Starting, Recovering, Holds, Unrestored, TunedByStart, RunningIsKnown, Idle,
          StartSteps, RecoverSteps, At, Go, Unstopped
  <2> QED
      BY <2>1, <2>2 DEF Inv
<1> QED
  BY <1>1, <1>2, <1>3, <1>4, <1>5 DEF Stop

(* recover, which has no lock: it works on an engine of its own. *)
LEMMA RecoverKeepsInv ==
  ASSUME Inv, NEW t \in Threads, Recover(t)
  PROVE  Inv'
<1>1. CASE RecoverConflict(t)
  <2>1. TypeOK'
      BY <1>1 DEF Inv, RecoverConflict, TypeOK, CallType, Go
  <2>2. Places' /\ Hands' /\ Changes' /\ RunningIsKnown'
      BY <1>1 DEF Inv, Places, Hands, Changes, RecoverConflict, MainIdle, Ops, Locked,
          BridgeEmpty, Fresh, Starting, Recovering, Holds, Unrestored, TunedByStart,
          RunningIsKnown, Idle, StartSteps, RecoverSteps, At, Go, Unstopped
  <2> QED
      BY <2>1, <2>2 DEF Inv
<1>2. CASE RecoverMutex(t)
  <2>1. TypeOK'
      BY <1>2 DEF Inv, RecoverMutex, TypeOK, CallType, Go
  <2>2. Places'
      BY <1>2 DEF Inv, Places, RecoverMutex, MainIdle, Ops, Locked, BridgeEmpty, TypeOK,
          CallType, Idle, Threads, StartSteps, RecoverSteps, At, Go
  <2>3. Hands'
      BY <1>2, BridgeAssumption DEF Inv, Hands, RecoverMutex, Fresh, Starting, Recovering,
          TypeOK, CallType, At, Go
  <2>4. Changes'
      BY <1>2, BridgeAssumption DEF Inv, Changes, RecoverMutex, Holds, Unrestored, TunedByStart,
          TypeOK, CallType, At, Go
  <2>5. RunningIsKnown'
      BY <1>2 DEF Inv, RecoverMutex, RunningIsKnown, TypeOK, CallType, Unstopped, At, Go
  <2> QED
      BY <2>1, <2>2, <2>3, <2>4, <2>5 DEF Inv
<1>3. CASE Recovers(t)
  <2>1. TypeOK'
    <3>1. call' \in CallType /\ tuned' \subseteq Engines
      BY <1>3 DEF Inv, TypeOK, CallType, Recovers, At, Go
    <3>2. left' \in BOOLEAN
      BY <1>3 DEF Inv, TypeOK, Recovers
    <3> QED
      BY <1>3, <3>1, <3>2 DEF Inv, TypeOK, CallType, Recovers
  <2>2. Places'
      BY <1>3 DEF Inv, Places, Recovers, MainIdle, Ops, Locked, BridgeEmpty, Idle, StartSteps,
          RecoverSteps, At, Go
  <2>3. Hands'
      BY <1>3 DEF Inv, Hands, Recovers, Fresh, Starting, Recovering, At, Go
  <2>4. Changes'
      BY <1>3 DEF Inv, Changes, Recovers, Holds, Unrestored, TunedByStart, At, Go
  <2>5. RunningIsKnown'
      BY <1>3 DEF Inv, Recovers, RunningIsKnown, Unstopped, At, Go
  <2> QED
      BY <2>1, <2>2, <2>3, <2>4, <2>5 DEF Inv
<1>4. CASE RecoverRelease(t)
  <2>1. TypeOK'
      BY <1>4 DEF Inv, RecoverRelease, TypeOK, CallType, Go
  <2>2. Places'
      BY <1>4 DEF Inv, Places, RecoverRelease, MainIdle, Ops, Locked, BridgeEmpty, Idle,
          StartSteps, RecoverSteps, At, Go
  <2>3. Hands'
      BY <1>4 DEF Inv, Hands, RecoverRelease, Fresh, Starting, Recovering, TypeOK, CallType, At,
          Go
  <2>4. Changes'
      BY <1>4 DEF Inv, Changes, Hands, RecoverRelease, Holds, Unrestored, TunedByStart, Fresh,
          At, Go
  <2>5. RunningIsKnown'
      BY <1>4 DEF Inv, RecoverRelease, RunningIsKnown, Unstopped, At, Go
  <2> QED
      BY <2>1, <2>2, <2>3, <2>4, <2>5 DEF Inv
<1>5. ASSUME NEW e \in Engines, RecoverBuilds(t, e) PROVE Inv'
  <2>1. TypeOK'
      BY <1>5 DEF Inv, RecoverBuilds, TypeOK, CallType, Build, Free
  <2>2. Places'
      BY <1>5 DEF Inv, Places, RecoverBuilds, MainIdle, Ops, Locked, BridgeEmpty, Idle,
          StartSteps, RecoverSteps, At, Build
  <2>3. Hands'
      BY <1>5 DEF Inv, Hands, RecoverBuilds, Fresh, Starting, Recovering, TypeOK, CallType,
          Build, Free
  <2>4. Changes'
      BY <1>5 DEF Inv, Changes, RecoverBuilds, Holds, Unrestored, TunedByStart, TypeOK,
          CallType, At, Build, Free
  <2>5. RunningIsKnown'
      BY <1>5 DEF Inv, RecoverBuilds, RunningIsKnown, TypeOK, CallType, Unstopped, At, Build
  <2> QED
      BY <2>1, <2>2, <2>3, <2>4, <2>5 DEF Inv
<1> QED
  BY <1>1, <1>2, <1>3, <1>4, <1>5 DEF Recover

(* The steps of a shutdown, and those that begin one outside a request. *)
LEMMA ShutdownKeepsInv ==
  ASSUME Inv, NEW e \in Engines, Restore(e) \/ HandlerShutdown(e) \/ AtExit(e) \/ MonitorDies(e)
  PROVE  Inv'
<1>1. CASE SdRestore(e)
  <2>1. TypeOK'
      BY <1>1 DEF Inv, SdRestore, TypeOK, CallType
  <2>2. Places'
      BY <1>1 DEF Inv, Places, SdRestore, MainIdle, Ops, Locked, BridgeEmpty
  <2>3. Hands'
      BY <1>1 DEF Inv, Hands, SdRestore, Fresh, Starting, Recovering
  <2>4. Changes'
      BY <1>1 DEF Inv, Changes, SdRestore, Holds, Unrestored, TunedByStart
  <2>5. RunningIsKnown'
      BY <1>1 DEF Inv, SdRestore, RunningIsKnown, Unstopped
  <2> QED
      BY <2>1, <2>2, <2>3, <2>4, <2>5 DEF Inv
<1>2. CASE SdRelease(e)
  <2>1. TypeOK'
      BY <1>2 DEF Inv, SdRelease, TypeOK, CallType
  <2>2. Places'
      BY <1>2 DEF Inv, Places, SdRelease, MainIdle, Ops, Locked, BridgeEmpty
  <2>3. Hands'
      BY <1>2 DEF Inv, Hands, SdRelease, Fresh, Starting, Recovering
  <2>4. Changes'
      BY <1>2 DEF Inv, Changes, SdRelease, Holds, Unrestored, TunedByStart, TypeOK, CallType
  <2>5. RunningIsKnown'
      BY <1>2 DEF Inv, SdRelease, RunningIsKnown, Unstopped
  <2> QED
      BY <2>1, <2>2, <2>3, <2>4, <2>5 DEF Inv
<1>3. CASE HandlerShutdown(e)
  <2>1. TypeOK'
      BY <1>3 DEF Inv, HandlerShutdown, TypeOK, CallType
  <2>2. Places'
      BY <1>3 DEF Inv, Places, HandlerShutdown, MainIdle, Ops, Locked, BridgeEmpty
  <2>3. Hands'
      BY <1>3 DEF Inv, Hands, HandlerShutdown, Fresh, Starting, Recovering, Unstopped
  <2>4. Changes'
      BY <1>3 DEF Inv, Changes, HandlerShutdown, Holds, Unrestored, TunedByStart, Unstopped
  <2>5. RunningIsKnown'
      BY <1>3 DEF Inv, HandlerShutdown, RunningIsKnown, Unstopped
  <2> QED
      BY <2>1, <2>2, <2>3, <2>4, <2>5 DEF Inv
<1>4. CASE AtExit(e)
  <2>1. TypeOK'
      BY <1>4 DEF Inv, AtExit, TypeOK, CallType, Threads
  <2>2. Places'
      BY <1>4 DEF Inv, Places, AtExit, MainIdle, Ops, Locked, BridgeEmpty, StartSteps,
          RecoverSteps
  <2>3. Hands'
      BY <1>4 DEF Inv, Hands, AtExit, Fresh, Starting, Recovering, Registered
  <2>4. Changes'
      BY <1>4 DEF Inv, Changes, AtExit, Holds, Unrestored, TunedByStart, At, Registered
  <2>5. RunningIsKnown'
      BY <1>4 DEF Inv, AtExit, RunningIsKnown, Unstopped, At
  <2> QED
      BY <2>1, <2>2, <2>3, <2>4, <2>5 DEF Inv
<1>5. CASE MonitorDies(e)
  <2>1. TypeOK'
      BY <1>5 DEF Inv, MonitorDies, TypeOK, CallType
  <2>2. Places'
      BY <1>5 DEF Inv, Places, MonitorDies, MainIdle, Ops, Locked, BridgeEmpty
  <2>3. Hands'
      BY <1>5 DEF Inv, Hands, MonitorDies, Fresh, Starting, Recovering, Running
  <2>4. Changes'
      BY <1>5 DEF Inv, Changes, MonitorDies, Holds, Unrestored, TunedByStart, Running
  <2>5. RunningIsKnown'
      BY <1>5 DEF Inv, MonitorDies, RunningIsKnown, Unstopped, Running
  <2> QED
      BY <2>1, <2>2, <2>3, <2>4, <2>5 DEF Inv
<1> QED
  BY <1>1, <1>2, <1>3, <1>4, <1>5 DEF Restore

(* The main thread. *)
LEMMA ProcessKeepsInv ==
  ASSUME Inv, BackendStart \/ Terminate \/ MainStopped
  PROVE  Inv'
<1>1. CASE BackendStart
  <2>1. TypeOK'
      BY <1>1 DEF Inv, BackendStart, TypeOK, CallType
  <2>2. Places' /\ Hands' /\ Changes' /\ RunningIsKnown'
      BY <1>1 DEF Inv, Places, Hands, Changes, BackendStart, MainIdle, Ops, Locked, BridgeEmpty,
          Fresh, Starting, Recovering, Holds, Unrestored, TunedByStart, RunningIsKnown, Unstopped
  <2> QED
      BY <2>1, <2>2 DEF Inv
<1>2. CASE Terminate
  <2>1. TypeOK'
      BY <1>2 DEF Inv, Terminate, TypeOK, CallType, Threads
  <2>2. Places'
      BY <1>2 DEF Inv, Places, Terminate, MainIdle, Ops, Locked, BridgeEmpty, StartSteps,
          RecoverSteps
  <2>3. Hands'
      BY <1>2, BridgeAssumption DEF Inv, Hands, Terminate, Fresh, Starting, Recovering
  <2>4. Changes'
      BY <1>2 DEF Inv, Changes, Places, Terminate, Holds, Unrestored, TunedByStart, MainIdle,
          Idle
  <2>5. RunningIsKnown'
      BY <1>2 DEF Inv, Places, Terminate, RunningIsKnown, MainIdle, Unstopped, Idle
  <2> QED
      BY <2>1, <2>2, <2>3, <2>4, <2>5 DEF Inv
<1>3. CASE MainStopped
  <2>1. TypeOK'
      BY <1>3 DEF Inv, MainStopped, TypeOK, CallType
  <2>2. Places' /\ Hands' /\ Changes' /\ RunningIsKnown'
      BY <1>3 DEF Inv, Places, Hands, Changes, MainStopped, MainIdle, Ops, Locked, BridgeEmpty,
          Fresh, Starting, Recovering, Holds, Unrestored, TunedByStart, RunningIsKnown, Unstopped
  <2> QED
      BY <2>1, <2>2 DEF Inv
<1> QED
  BY <1>1, <1>2, <1>3

(* A request arrives at an idle thread. *)
LEMMA RequestKeepsInv ==
  ASSUME Inv, NEW t \in Threads, NEW op \in {"start", "stop", "recover"}, Request(t, op)
  PROVE  Inv'
<1>1. TypeOK'
  BY DEF Inv, Request, TypeOK, CallType, FirstStep
<1>2. Places'
  BY BridgeAssumption DEF Inv, Places, Request, MainIdle, Ops, Locked, BridgeEmpty,
      StartSteps, RecoverSteps, FirstStep
<1>3. Hands'
  BY BridgeAssumption DEF Inv, Hands, Request, Fresh, Starting, Recovering, FirstStep
<1>4. Changes'
  BY DEF Inv, Changes, Request, Holds, Unrestored, TunedByStart, At
<1>5. RunningIsKnown'
  BY DEF Inv, Request, RunningIsKnown, Unstopped, At
<1> QED
  BY <1>1, <1>2, <1>3, <1>4, <1>5 DEF Inv

(* Every step keeps the invariant. *)
LEMMA NextKeepsInv == ASSUME Inv, [Next]_vars PROVE Inv'
<1>1. ASSUME NEW t \in Threads, Serve(t) PROVE Inv'
  BY <1>1, StartKeepsInv, StopKeepsInv, RecoverKeepsInv DEF Serve
<1>2. ASSUME NEW t \in Threads, NEW op \in {"start", "stop", "recover"}, Request(t, op) PROVE Inv'
  BY <1>2, RequestKeepsInv
<1>3. ASSUME NEW e \in Engines, Restore(e) \/ HandlerShutdown(e) \/ MonitorDies(e) PROVE Inv'
  BY <1>3, ShutdownKeepsInv
<1>4. CASE BackendStart \/ Terminate
  BY <1>4, ProcessKeepsInv
<1>5. CASE Exit
  <2>1. CASE MainStopped
    BY <2>1, ProcessKeepsInv
  <2>2. CASE ProcessExit
    BY <2>2, GoneInv DEF ProcessExit
  <2>3. ASSUME NEW e \in Engines, AtExit(e) PROVE Inv'
    BY <2>3, ShutdownKeepsInv
  <2> QED
    BY <1>5, <2>1, <2>2, <2>3 DEF Exit
<1>6. CASE Kill
  BY <1>6, GoneInv DEF Kill
<1>7. CASE UNCHANGED vars
  BY <1>7, Stutter
<1> QED
  BY <1>1, <1>2, <1>3, <1>4, <1>5, <1>6, <1>7 DEF Next

-----------------------------------------------------------------------------
(* Whoever is at work has the mutex. *)
LEMMA OneFromInv == ASSUME Inv PROVE OneAtWork
<1> SUFFICES ASSUME NEW e \in Engines, AtWork(e) PROVE mutex = e
  BY DEF OneAtWork
<1>1. CASE e \in tuned \/ (stage[e] \in {"up", "dead", "lost"} /\ sd[e] # "over")
  BY <1>1 DEF AtWork, Inv, Changes, Holds
<1>2. CASE \E t \in Threads : call[t].e = e /\ call[t].pc \in {"recover", "apply", "monitor"}
  BY <1>2 DEF AtWork, Inv, Hands, Starting
<1>3. CASE \E t \in Threads : call[t].e = e /\ call[t].pc = "recovering"
  BY <1>3 DEF Inv, Hands, Recovering
<1> QED  BY <1>1, <1>2, <1>3 DEF AtWork

(* A stop that answers has the lock: nobody starts, and the engine that ran is shut down. *)
LEMMA StopFromInv == ASSUME Inv PROVE StopRestores
<1> SUFFICES ASSUME NEW t \in Threads, call[t].op = "stop", call[t].pc = "unlock",
                    NEW e \in tuned, e \notin early, stage[e] # "lost"
             PROVE  sd[e] = "restoring"
  BY DEF StopRestores, BeingRestored, Lost, Inv, TypeOK
<1>1. e \in Engines  BY DEF Inv, TypeOK
<1>2. lifecycle = t /\ ref = NoEngine /\ ref # e
  BY <1>1, BridgeAssumption DEF Inv, Places, Locked, BridgeEmpty
<1>3. \A u \in Threads : call[u].pc \in {"monitor", "publish", "shutdown"} => lifecycle = u
  BY DEF Inv, Places, Locked, StartSteps
<1>4. stage[e] # "held"  BY <1>1, <1>2, <1>3 DEF Inv, Changes, TunedByStart
<1>5. ~Unstopped(e)  BY <1>1, <1>2, <1>3 DEF Inv, RunningIsKnown
<1> QED  BY <1>1, <1>4, <1>5 DEF Inv, Changes, Unrestored, Unstopped

(* The exit has asked every engine that took the mutex to shut down. *)
LEMMA ExitStep ==
  ASSUME Inv, [Next]_vars, server = "exiting", server' = "exited"
  PROVE  tuned \subseteq early \cup BeingRestored
<1>1. ProcessExit
  <2>1. ~UNCHANGED server  OBVIOUS
  <2>2. Next  BY <2>1 DEF vars
  <2>3. ASSUME NEW t \in Threads, Serve(t) PROVE UNCHANGED server
    BY <2>3 DEF Serve, Lock, Unlock, Start, StartFindsRunning, RunMutex, RunRecovers, RunRefused,
      RunApplies, RunMonitor, Publish, StartBuilds, Stop, Detach, StopShutdown, StopShutDown,
      Recover, RecoverConflict, RecoverMutex, Recovers, RecoverRelease, RecoverBuilds
  <2>4. ASSUME NEW t \in Threads, NEW op, Request(t, op) PROVE UNCHANGED server
    BY <2>4 DEF Request
  <2>5. ASSUME NEW e \in Engines,
               Restore(e) \/ HandlerShutdown(e) \/ AtExit(e) \/ MonitorDies(e)
        PROVE UNCHANGED server
    BY <2>5 DEF Restore, SdRestore, SdRelease, HandlerShutdown, AtExit, MonitorDies
  <2>6. ~BackendStart /\ ~Terminate /\ ~MainStopped /\ ~Kill
    BY DEF BackendStart, Terminate, MainStopped, Kill, Gone
  <2> QED  BY <2>1, <2>2, <2>3, <2>4, <2>5, <2>6 DEF Next, Exit
<1>2. ASSUME NEW e \in tuned, e \notin early PROVE e \in BeingRestored
  <2>1. e \in Engines  BY DEF Inv, TypeOK
  <2>2. ~Registered(e)  BY <1>1, <2>1 DEF ProcessExit
  <2> QED  BY <1>2, <2>1, <2>2 DEF Inv, Changes, Unrestored, Registered, BeingRestored
<1> QED  BY <1>2

-----------------------------------------------------------------------------
(* The inductive invariant of the requests, the locks and the engines. *)
THEOREM BridgeInvariant == Spec => []Inv
<1> QED
  BY InitInv, NextKeepsInv, PTL DEF Spec

(* Type correctness, whatever the number of threads and engines. *)
THEOREM TypeCorrect == Spec => []TypeOK
<1>1. Inv => TypeOK
  BY DEF Inv
<1> QED
  BY <1>1, BridgeInvariant, PTL

(* bridge.py:38-40, 418-472, runtime.py:453-464: no two engines are ever at work together. *)
THEOREM EngineAtWorkIsOne == Spec => []OneAtWork
<1> QED
  BY OneFromInv, BridgeInvariant, PTL

(* bridge.py:419-423: an engine that runs, or has run and was not dropped, is in the bridge *)
(* or in the hands of the request that holds the lifecycle lock.                            *)
THEOREM RunningEngineIsKnown == Spec => []RunningIsKnown
<1>1. Inv => RunningIsKnown
  BY DEF Inv
<1> QED
  BY <1>1, BridgeInvariant, PTL

(* bridge.py:449-459: a stop that answers has left nothing changed, but for an engine     *)
(* whose shutdown another thread began, and one that a start has dropped.                 *)
THEOREM StopLeavesNothing == Spec => []StopRestores
<1> QED
  BY StopFromInv, BridgeInvariant, PTL

(* __main__.py:78-88, runtime.py:525: the same of a backend that ends by itself. *)
THEOREM ExitLeavesNothing == Spec => ExitRestores
<1>1. Inv /\ [Next]_vars =>
        [server = "exiting" /\ server' = "exited" => tuned \subseteq early \cup BeingRestored]_vars
  BY ExitStep
<1> QED
  BY <1>1, BridgeInvariant, PTL DEF Spec, ExitRestores
=============================================================================
