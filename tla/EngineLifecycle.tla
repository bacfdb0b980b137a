--------------------------- MODULE EngineLifecycle ---------------------------
(***************************************************************************)
(* One engine process from run to its end: the thread that calls run and   *)
(* finally shutdown, the console control handler that may call shutdown at *)
(* any moment, the monitor thread, a second instance started meanwhile,    *)
(* and a crash anywhere.  The five things the engine changes on the        *)
(* machine are single resources here; PowerScheme and ProcessTuning have   *)
(* two of them in full.                                                    *)
(*   isolator/runtime.py  run, shutdown, the console handler, the gate     *)
(*   isolator/cli.py      main: run, then shutdown in its finally block    *)
(***************************************************************************)
EXTENDS Naturals

CONSTANTS
  MaxBoot,          \* bound: engine processes, one after the other
  RecoveryMayFail   \* recovery at the start may be incomplete

ASSUME LifecycleAssumption == MaxBoot \in Nat /\ RecoveryMayFail \in BOOLEAN

VARIABLES
  main,        \* the thread of run: where it is
  installed,   \* the console handler is in place
  holder,      \* this process holds the single-instance mutex
  done,        \* _shutdown_done and _shutting_down, set together
  sd,          \* the shutdown step that is next, and the thread that runs it
  mon,         \* the monitor thread
  active,      \* self._active_mutations
  changed,     \* resources of the machine the engine has changed
  logged,      \* those with a recovery record on disk
  mine,        \* those this session remembers having changed
  incomplete,  \* self._persistent_recovery_incomplete
  own,         \* history: the resources this session has changed at some time
  early,       \* history: shutdown began before the start was over
  raced,       \* history: the monitor thread outlived the join of shutdown
  boots        \* bound used up

vars == <<main, installed, holder, done, sd, mon, active, changed, logged, mine,
          incomplete, own, early, raced, boots>>

Resources == {"power", "timer", "ifeo", "procs", "critical"}
OnRecord  == {"power", "ifeo", "procs"}
NotYet    == [by |-> "nobody", step |-> "none"]

Init ==
  /\ main = "down" /\ installed = FALSE /\ holder = FALSE
  /\ done = FALSE /\ sd = NotYet /\ mon = "off" /\ active = 0
  /\ changed = {} /\ logged = {} /\ mine = {} /\ own = {}
  /\ incomplete = FALSE /\ early = FALSE /\ raced = FALSE /\ boots = 0

-----------------------------------------------------------------------------
(* run, in the thread that will also call shutdown.                        *)

Start ==
  /\ main = "down" /\ boots < MaxBoot
  /\ boots' = boots + 1 /\ main' = "mutex"
  /\ UNCHANGED <<installed, holder, done, sd, mon, active, changed, logged, mine, incomplete, own, early, raced>>

(* _ensure_single_instance, then the handler, before anything is changed. *)
RunEnter ==
  /\ main = "mutex" /\ main' = "recover"
  /\ holder' = TRUE /\ installed' = TRUE
  /\ UNCHANGED <<done, sd, mon, active, changed, logged, mine, incomplete, own, early, raced, boots>>

(* _recover_persistent_state and _recover_jail_state_from_crash. *)
RunRecover ==
  /\ main = "recover" /\ main' = "timer"
  /\ changed' = changed \ logged /\ logged' = {}
  /\ UNCHANGED <<installed, holder, done, sd, mon, active, mine, incomplete, own, early, raced, boots>>

RunRefuses ==
  /\ main = "recover" /\ RecoveryMayFail /\ logged # {}
  /\ main' = "finally" /\ incomplete' = TRUE
  /\ UNCHANGED <<installed, holder, done, sd, mon, active, changed, logged, mine, own, early, raced, boots>>

(* A step of run that changes resource r and remembers it, and goes on at next. *)
RunChanges(at, r, next) ==
  /\ main = at /\ main' = next
  /\ changed' = changed \cup {r} /\ mine' = mine \cup {r} /\ own' = own \cup {r}
  /\ UNCHANGED <<installed, holder, done, sd, mon, active, logged, incomplete, early, raced, boots>>

RunTimer    == RunChanges("timer", "timer", "ifeo")
RunIfeo     == RunChanges("ifeo", "ifeo", "backup")
RunCritical == RunChanges("critical", "critical", "monitor")

(* The IFEO backup is written after the registry. *)
RunBackup ==
  /\ main = "backup" /\ main' = "critical"
  /\ logged' = logged \cup {"ifeo"}
  /\ UNCHANGED <<installed, holder, done, sd, mon, active, changed, mine, incomplete, own, early, raced, boots>>

RunMonitor ==
  /\ main = "monitor" /\ main' = "up" /\ mon' = "top"
  /\ UNCHANGED <<installed, holder, done, sd, active, changed, logged, mine, incomplete, own, early, raced, boots>>

(* The benchmark time is over, the server stops, or an interrupt reaches the main thread. *)
MainStops ==
  /\ main = "up" /\ main' = "finally"
  /\ UNCHANGED <<installed, holder, done, sd, mon, active, changed, logged, mine, incomplete, own, early, raced, boots>>

-----------------------------------------------------------------------------
(* shutdown: the compare-and-set, and one step after the other.            *)

Begins(caller) ==
  /\ done' = TRUE /\ sd' = [by |-> caller, step |-> "drain"]
  /\ early' = (main \notin {"up", "finally"})

(* The loser of the compare-and-set returns at once, and main leaves the process. *)
MainShutdown ==
  /\ main = "finally"
  /\ IF done
     THEN main' = "exited" /\ UNCHANGED <<done, sd, early>>
     ELSE main' = "shutdown" /\ Begins("main")
  /\ UNCHANGED <<installed, holder, mon, active, changed, logged, mine, incomplete, own, raced, boots>>

HandlerShutdown ==
  /\ installed /\ ~done /\ main # "exited" /\ Begins("handler")
  /\ UNCHANGED <<main, installed, holder, mon, active, changed, logged, mine, incomplete, own, raced, boots>>

MainReturns ==
  /\ main = "shutdown" /\ sd.step = "over" /\ main' = "exited"
  /\ UNCHANGED <<installed, holder, done, sd, mon, active, changed, logged, mine, incomplete, own, early, raced, boots>>

SdGo(step) == sd' = [sd EXCEPT !.step = step]

(* Faulty variant: the active mutations are not waited for. *)
SdDrainsNothing ==
  /\ sd.step = "drain" /\ SdGo("power") /\ raced' = (mon # "off")
  /\ UNCHANGED <<main, installed, holder, done, mon, active, changed, logged, mine, incomplete, own, early, boots>>

(* Step 1.  The join is skipped in fast mode and else gives up after 3 s; the mutations are *)
(* waited for without a limit.                                                              *)
SdDrain ==
  /\ sd.step = "drain" /\ active = 0 /\ SdGo("power") /\ raced' = (mon # "off")
  /\ UNCHANGED <<main, installed, holder, done, mon, active, changed, logged, mine, incomplete, own, early, boots>>

(* _restore_power_scheme: with nothing of its own to restore it clears the record, *)
(* unless recovery was incomplete.                                                 *)
SdPower ==
  /\ sd.step = "power" /\ SdGo("timer")
  /\ changed' = IF "power" \in mine THEN changed \ {"power"} ELSE changed
  /\ logged' = IF "power" \in mine \/ ~incomplete THEN logged \ {"power"} ELSE logged
  /\ mine' = mine \ {"power"}
  /\ UNCHANGED <<main, installed, holder, done, mon, active, incomplete, own, early, raced, boots>>

(* Restore r, and drop its record, if the session remembers having changed it. *)
SdRestores(r, next) ==
  /\ sd.step = r /\ SdGo(next)
  /\ changed' = IF r \in mine THEN changed \ {r} ELSE changed
  /\ logged' = IF r \in mine THEN logged \ {r} ELSE logged
  /\ mine' = mine \ {r}
  /\ UNCHANGED <<main, installed, holder, done, mon, active, incomplete, own, early, raced, boots>>

SdTimer    == SdRestores("timer", "ifeo")
SdIfeo     == SdRestores("ifeo", "procs")

(* Faulty variant: with no entry to restore the step raises and shutdown ends there. *)
SdCriticalRaises == "critical" \in mine /\ SdRestores("critical", "release")

SdCritical == SdRestores("critical", "release")

(* _restore_all_processes removes the jail file whether or not it restored anything. *)
SdProcs ==
  /\ sd.step = "procs" /\ SdGo("critical")
  /\ changed' = IF "procs" \in mine THEN changed \ {"procs"} ELSE changed
  /\ logged' = logged \ {"procs"} /\ mine' = mine \ {"procs"}
  /\ UNCHANGED <<main, installed, holder, done, mon, active, incomplete, own, early, raced, boots>>

SdRelease ==
  /\ sd.step = "release" /\ SdGo("over") /\ holder' = FALSE
  /\ UNCHANGED <<main, installed, done, mon, active, changed, logged, mine, incomplete, own, early, raced, boots>>

-----------------------------------------------------------------------------
(* The monitor thread.                                                     *)

MonGo(pc) == mon' = pc

MonCycle ==
  /\ mon = "top" /\ ~done /\ MonGo("in")
  /\ UNCHANGED <<main, installed, holder, done, sd, active, changed, logged, mine, incomplete, own, early, raced, boots>>

MonStop ==
  /\ mon = "top" /\ done /\ MonGo("off")
  /\ UNCHANGED <<main, installed, holder, done, sd, active, changed, logged, mine, incomplete, own, early, raced, boots>>

MonCycleEnd ==
  /\ mon = "in" /\ MonGo("top")
  /\ UNCHANGED <<main, installed, holder, done, sd, active, changed, logged, mine, incomplete, own, early, raced, boots>>

(* Faulty variant: the gate is not asked. *)
TuneBeginUngated ==
  /\ mon = "in" /\ MonGo("tune") /\ active' = active + 1
  /\ UNCHANGED <<main, installed, holder, done, sd, changed, logged, mine, incomplete, own, early, raced, boots>>

(* _begin_process_mutation *)
TuneBegin ==
  /\ mon = "in" /\ ~done /\ MonGo("tune") /\ active' = active + 1
  /\ UNCHANGED <<main, installed, holder, done, sd, changed, logged, mine, incomplete, own, early, raced, boots>>

(* Faulty variant: the mutation is left by a path that does not end it. *)
TuneLeaks ==
  /\ mon = "tune" /\ MonGo("record")
  /\ changed' = changed \cup {"procs"} /\ mine' = mine \cup {"procs"}
  /\ own' = own \cup {"procs"}
  /\ UNCHANGED <<main, installed, holder, done, sd, active, logged, incomplete, early, raced, boots>>

(* The setters, with the IFEO fallback (backed up in the same mutation) where one is refused. *)
Tune ==
  /\ mon = "tune" /\ MonGo("record") /\ active' = active - 1
  /\ \E fallback \in SUBSET {"ifeo"} :
        /\ changed' = changed \cup {"procs"} \cup fallback
        /\ mine' = mine \cup {"procs"} \cup fallback
        /\ logged' = logged \cup fallback
        /\ own' = own \cup {"procs"} \cup fallback
  /\ UNCHANGED <<main, installed, holder, done, sd, incomplete, early, raced, boots>>

TuneRecord ==
  /\ mon = "record" /\ MonGo("in") /\ logged' = logged \cup {"procs"}
  /\ UNCHANGED <<main, installed, holder, done, sd, active, changed, mine, incomplete, own, early, raced, boots>>

(* _set_preferred_power_scheme does not ask the gate. *)
SwitchRecord ==
  /\ mon = "in" /\ "power" \notin mine /\ MonGo("switch") /\ logged' = logged \cup {"power"}
  /\ UNCHANGED <<main, installed, holder, done, sd, active, changed, mine, incomplete, own, early, raced, boots>>

Switch ==
  /\ mon = "switch" /\ MonGo("in")
  /\ changed' = changed \cup {"power"} /\ mine' = mine \cup {"power"}
  /\ own' = own \cup {"power"}
  /\ UNCHANGED <<main, installed, holder, done, sd, active, logged, incomplete, early, raced, boots>>

(* The games are over: processes and power plan are restored. *)
LeaveGameMode ==
  /\ mon = "in" /\ MonGo("top")
  /\ changed' = changed \ (mine \cap {"procs", "power"})
  /\ logged' = logged \ ({"procs"} \cup (mine \cap {"power"}))
  /\ mine' = mine \ {"procs", "power"}
  /\ UNCHANGED <<main, installed, holder, done, sd, active, incomplete, own, early, raced, boots>>

-----------------------------------------------------------------------------
(* Windows takes the timer request back when the process is gone. *)
ProcessGone ==
  /\ main' = "down" /\ installed' = FALSE /\ holder' = FALSE /\ done' = FALSE /\ sd' = NotYet
  /\ mon' = "off" /\ active' = 0 /\ mine' = {} /\ incomplete' = FALSE
  /\ own' = {} /\ early' = FALSE /\ raced' = FALSE
  /\ changed' = changed \ {"timer"}
  /\ UNCHANGED <<logged, boots>>

Crash  == main \notin {"down", "exited"} /\ ProcessGone
Exited == main = "exited" /\ ProcessGone

(* A second instance finds the mutex taken, run returns False, and the finally block of *)
(* cli.py shuts it down: SdPower and SdProcs of an engine that remembers nothing.       *)
SecondStart ==
  /\ holder /\ logged' = logged \ {"power", "procs"}
  /\ UNCHANGED <<main, installed, holder, done, sd, mon, active, changed, mine, incomplete, own, early, raced, boots>>

-----------------------------------------------------------------------------
Run      == RunEnter \/ RunRecover \/ RunRefuses \/ RunTimer \/ RunIfeo \/ RunBackup
            \/ RunCritical \/ RunMonitor
Stopping == MainShutdown \/ MainReturns
Restore  == SdDrain \/ SdPower \/ SdTimer \/ SdIfeo \/ SdProcs \/ SdCritical \/ SdRelease
Monitor  == MonCycle \/ MonStop \/ MonCycleEnd \/ TuneBegin \/ Tune \/ TuneRecord
            \/ SwitchRecord \/ Switch \/ LeaveGameMode

Next == \/ Start \/ Run \/ MainStops \/ Stopping \/ HandlerShutdown \/ Restore \/ Monitor
        \/ Crash \/ Exited \/ SecondStart

(* Threads are scheduled and Windows calls return: no thread inside run, shutdown or a    *)
(* monitor cycle stays there for ever.  Nobody has to stop the engine or press Ctrl+C.    *)
Fairness == WF_vars(Run) /\ WF_vars(Stopping) /\ WF_vars(Restore) /\ WF_vars(Monitor)

Spec == Init /\ [][Next]_vars /\ Fairness

-----------------------------------------------------------------------------
(* Every variable holds a value of its kind; at most one mutation is under way. *)
TypeOK ==
  /\ main \in {"down", "mutex", "recover", "timer", "ifeo", "backup", "critical", "monitor",
               "up", "finally", "shutdown", "exited"}
  /\ installed \in BOOLEAN /\ holder \in BOOLEAN /\ done \in BOOLEAN
  /\ sd \in [by : {"nobody", "main", "handler"},
             step : {"none", "drain", "power", "timer", "ifeo", "procs", "critical", "release", "over"}]
  /\ mon \in {"off", "top", "in", "tune", "record", "switch"} /\ active \in 0..1
  /\ changed \subseteq Resources /\ logged \subseteq OnRecord /\ mine \subseteq own /\ own \subseteq Resources
  /\ incomplete \in BOOLEAN /\ early \in BOOLEAN /\ raced \in BOOLEAN
  /\ boots \in 0..MaxBoot

(* runtime.py:561-674: when a shutdown that began after the start is over, nothing this    *)
(* session changed is left changed, even while the monitor thread still runs; except that  *)
(* a monitor thread that outlived the join may switch the power plan once more.            *)
RestoredWhenOver ==
  sd.step = "over" /\ ~early => own \cap changed \subseteq IF raced THEN {"power"} ELSE {}

(* The shutdown gate as the contract states it, for all callers of shutdown together: it *)
(* is reopened by no step of the process that has closed it.                              *)
Phase == CASE sd.step = "none" -> "open" [] sd.step = "drain" -> "closing"
           [] sd.step = "over" -> "restored" [] OTHER -> "drained"
Busy  == active > 0
Contract == INSTANCE ShutdownContract WITH alive <- main # "down", phase <- Phase, busy <- Busy
GateContract == Contract!Spec

(* runtime.py:604, 665-674: whoever calls it, shutdown gets through the wait for mutations *)
(* and all its steps, and gives the mutex back.                                            *)
ShutdownTerminates == done ~> ~holder

(* cli.py:50-51: the thread that stops the engine gets out of shutdown. *)
StopReturns == main = "finally" ~> main \in {"exited", "down"}

(* docs/index.html:336-340: while the engine's power plan is active its record is on disk. *)
PowerIsRecorded == "power" \in changed => "power" \in logged

(* README.md:50: after a session that ended normally nothing is left changed. *)
NormalEndIsRestored == main = "exited" => changed = {}
=============================================================================
