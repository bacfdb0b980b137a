---------------------------- MODULE ProcessTuning ----------------------------
(***************************************************************************)
(* Throttling ("jailing") and boosting of other processes by the engine:   *)
(* isolator/tuning.py driven by the monitor thread of isolator/runtime.py, *)
(* the jail record on disk of isolator/recovery.py, shutdown, a crash at   *)
(* any point, and the recovery at the next start.                          *)
(*                                                                         *)
(* A process is <<pid, n>>, the n-th process Windows gave that pid to (its *)
(* creation time).  Its scheduling attributes are one value: n itself for  *)
(* the settings process n started with, or Jailed or Boosted.  A saved      *)
(* snapshot is such a value too, so settings that end up on the wrong      *)
(* process, or a snapshot taken of the engine's own tuning, are visible.   *)
(***************************************************************************)
EXTENDS Naturals, FiniteSets

CONSTANTS
  Pids,         \* process ids that come and go
  MaxBirth,     \* bound: processes per pid
  Processes,    \* bound: the processes that may start, as <<pid, n>>
  MaxGen,       \* bound: _touched entries created per session (_entry_gen)
  MaxBoot,      \* bound: engine sessions
  FaultKinds,   \* Windows or file calls that may fail: subset of "open", "set", "save", "aged"
  MaxFault,     \* bound: how many of them fail
  NamedGames,   \* processes whose exe name is a known game
  PathGames,    \* processes that only their install path shows to be games
  Focusable,    \* processes that own a window and can take the foreground
  BatchSize     \* maintenance_jail_batch_size

ASSUME TuningAssumption ==
  /\ "none" \notin Pids   \* None is not a pid
  /\ MaxBirth \in Nat \ {0} /\ Processes \subseteq Pids \X (1..MaxBirth) /\ MaxGen \in Nat /\ MaxBoot \in Nat
  /\ MaxFault \in Nat /\ BatchSize \in Nat \ {0}
  /\ FaultKinds \subseteq {"open", "set", "save", "aged"}
  /\ NamedGames \subseteq Processes /\ PathGames \subseteq Processes
  /\ Focusable \subseteq Processes

VARIABLES
  born, live, attr,  \* Windows: processes so far per pid, is the last one alive, its attributes
  jailFile,          \* jail_state.json: a record per pid, or NoRec
  engine,            \* stage of the session (run, shutdown)
  touched,           \* self._touched
  gen,               \* self._entry_gen
  active,            \* self._active_mutations
  games,             \* self._active_games
  mon,               \* the monitor thread: where it is, and its locals
  rst,               \* per thread, the _restore_process call it is in
  rec,               \* locals of _recover_jail_state_from_crash
  boots, faults,     \* bounds used up
  excused            \* history: processes a failed call, or a crash before they were recorded, gave up

os      == <<born, live, attr>>
session == <<engine, touched, gen, active, games, mon, rst, rec>>
vars    == <<os, jailFile, session, boots, faults, excused>>

NoRec   == [ct |-> 0, saved |-> 0]
NoEntry == [ct |-> 0, saved |-> 0, source |-> "none", gen |-> 0]
None    == "none"

Jailed  == MaxBirth + 1
Boosted == MaxBirth + 2
Attrs   == 1..Boosted
Sources == {"jail", "foreground", "optimize_game"}
Recs    == [ct : 1..MaxBirth, saved : Attrs] \cup {NoRec}
Entries == [ct : 1..MaxBirth, saved : Attrs, source : Sources, gen : 1..MaxGen] \cup {NoEntry}
Threads == {"mon", "main"}   \* main runs recovery at the start and shutdown at the end

EmptyFile == [p \in Pids |-> NoRec]
NoSnap    == [p \in Pids |-> 0]
MonOff == [pc |-> "off", snap |-> NoSnap, todo |-> {}, closed |-> {}, batch |-> {},
           recs |-> EmptyFile, pid |-> None, next |-> "off", mode |-> FALSE, fg |-> None]
RstIdle == [pc |-> "idle", pid |-> None, entry |-> NoEntry, todo |-> {}, all |-> FALSE,
            file |-> EmptyFile, ok |-> FALSE]
RecIdle == [pids |-> EmptyFile, todo |-> {}, pid |-> None, unresolved |-> FALSE]

Proc(p)      == <<p, born[p]>>
IsNamed(p,n) == <<p, n>> \in NamedGames
IsGame(p,n)  == <<p, n>> \in NamedGames \cup PathGames
Tuned(p)     == live[p] /\ attr[p] \in {Jailed, Boosted}
Recorded(p)  == jailFile[p].ct = born[p]

(* A handle the monitor holds keeps Windows from giving the pid away again. *)
Pinned(p) == mon.pid = p /\ mon.pc \in {"apply", "boost", "undo"}

(* The next call of this kind fails, within the budget of faults. *)
Fails(kind) == kind \in FaultKinds /\ faults < MaxFault /\ faults' = faults + 1

Init ==
  /\ born = [p \in Pids |-> 0] /\ live = [p \in Pids |-> FALSE] /\ attr = [p \in Pids |-> 1]
  /\ jailFile = EmptyFile
  /\ engine = "down" /\ touched = [p \in Pids |-> NoEntry] /\ gen = 0 /\ active = 0
  /\ games = {} /\ mon = MonOff /\ rst = [t \in Threads |-> RstIdle] /\ rec = RecIdle
  /\ boots = 0 /\ faults = 0 /\ excused = {}

-----------------------------------------------------------------------------
(* Windows: processes start, possibly under a pid used before, and exit.   *)

Spawn(p) ==
  /\ ~live[p] /\ <<p, born[p] + 1>> \in Processes /\ ~Pinned(p)
  /\ born' = [born EXCEPT ![p] = @ + 1]
  /\ live' = [live EXCEPT ![p] = TRUE]
  /\ attr' = [attr EXCEPT ![p] = born[p] + 1]
  /\ UNCHANGED <<jailFile, session, boots, faults, excused>>

Exit(p) ==
  /\ live[p]
  /\ live' = [live EXCEPT ![p] = FALSE]
  /\ attr' = [attr EXCEPT ![p] = 1]
  /\ UNCHANGED <<born, jailFile, session, boots, faults, excused>>

-----------------------------------------------------------------------------
(* _restore_process, called by thread t for each pid of rst[t].todo.       *)

(* The entry is read under the lock together with its generation. *)
RestoreRead(t, p) ==
  /\ rst[t].pc = "next" /\ p \in rst[t].todo
  /\ rst' = [rst EXCEPT ![t] =
        IF touched[p] = NoEntry
        THEN [rst[t] EXCEPT !.todo = @ \ {p}]
        ELSE [rst[t] EXCEPT !.pc = "open", !.pid = p, !.entry = touched[p], !.todo = @ \ {p}]]
  /\ UNCHANGED <<os, jailFile, engine, touched, gen, active, games, mon, rec, boots, faults, excused>>

SameGen(t) == touched[rst[t].pid].gen = rst[t].entry.gen

(* Drop the entry unless another call replaced it meanwhile. *)
PopSame(t) ==
  touched' = IF SameGen(t) THEN [touched EXCEPT ![rst[t].pid] = NoEntry] ELSE touched

(* The pid cannot be opened, or another process has it now: forget it. *)
RestoreGone(t) ==
  LET p == rst[t].pid IN
  /\ rst[t].pc = "open"
  /\ \/ (~live[p] \/ born[p] # rst[t].entry.ct) /\ UNCHANGED <<faults, excused>>
     \/ live[p] /\ Fails("open") /\ excused' = excused \cup {Proc(p)}
  /\ PopSame(t)
  /\ rst' = [rst EXCEPT ![t] = [rst[t] EXCEPT !.pc = "next", !.pid = None, !.entry = NoEntry]]
  /\ UNCHANGED <<os, jailFile, engine, gen, active, games, mon, rec, boots>>

(* Faulty variant: the creation time of the process behind the pid is not compared. *)
RestoreAttrsAnyProcess(t) ==
  LET p == rst[t].pid IN
  /\ rst[t].pc = "open" /\ live[p]
  /\ attr' = [attr EXCEPT ![p] = rst[t].entry.saved]
  /\ rst' = [rst EXCEPT ![t].pc = "drop"]
  /\ UNCHANGED <<born, live, jailFile, engine, touched, gen, active, games, mon, rec, boots, faults, excused>>

(* The process the entry is about is open: write the saved settings back. *)
RestoreAttrs(t) ==
  LET p == rst[t].pid IN
  /\ rst[t].pc = "open" /\ live[p] /\ born[p] = rst[t].entry.ct
  /\ attr' = [attr EXCEPT ![p] = rst[t].entry.saved]
  /\ rst' = [rst EXCEPT ![t].pc = "drop"]
  /\ UNCHANGED <<born, live, jailFile, engine, touched, gen, active, games, mon, rec, boots, faults, excused>>

(* A setter fails.  A jail entry stays for a later try; any other is dropped. *)
RestoreAttrsFails(t) ==
  LET p == rst[t].pid IN
  /\ rst[t].pc = "open" /\ live[p] /\ born[p] = rst[t].entry.ct
  /\ Fails("set") /\ excused' = excused \cup {Proc(p)}
  /\ IF rst[t].entry.source = "jail" THEN UNCHANGED touched ELSE PopSame(t)
  /\ rst' = [rst EXCEPT ![t] = [rst[t] EXCEPT !.pc = "next", !.pid = None, !.entry = NoEntry]]
  /\ UNCHANGED <<os, jailFile, engine, gen, active, games, mon, rec, boots>>

(* The finally block: drop the entry, and then its record if it was a jail entry. *)
RestoreDrop(t) ==
  LET p == rst[t].pid IN
  /\ rst[t].pc = "drop"
  /\ PopSame(t)
  /\ rst' = [rst EXCEPT ![t] =
        IF SameGen(t) /\ touched[p].source = "jail"
        THEN [rst[t] EXCEPT !.pc = "load", !.ok = TRUE, !.entry = NoEntry]
        ELSE [rst[t] EXCEPT !.pc = "next", !.ok = TRUE, !.entry = NoEntry, !.pid = None]]
  /\ UNCHANGED <<os, jailFile, engine, gen, active, games, mon, rec, boots, faults, excused>>

(* _remove_jail_state: read the whole file, and write it back without the pid. *)
RemoveLoad(t) ==
  LET p == rst[t].pid IN
  /\ rst[t].pc = "load"
  /\ rst' = [rst EXCEPT ![t] =
        IF jailFile[p] = NoRec
        THEN [rst[t] EXCEPT !.pc = "next", !.pid = None]
        ELSE [rst[t] EXCEPT !.pc = "save", !.file = [jailFile EXCEPT ![p] = NoRec]]]
  /\ UNCHANGED <<os, jailFile, engine, touched, gen, active, games, mon, rec, boots, faults, excused>>

RemoveSave(t) ==
  /\ rst[t].pc = "save"
  /\ \/ jailFile' = rst[t].file /\ UNCHANGED faults
     \/ Fails("save") /\ UNCHANGED jailFile
  /\ rst' = [rst EXCEPT ![t] = [rst[t] EXCEPT !.pc = "next", !.pid = None, !.file = EmptyFile]]
  /\ UNCHANGED <<os, engine, touched, gen, active, games, mon, rec, boots, excused>>

(* _restore_all_processes ends by deleting the jail file, whatever happened. *)
RestoreEnd(t) ==
  /\ rst[t].pc = "next" /\ rst[t].todo = {}
  /\ jailFile' = IF rst[t].all THEN EmptyFile ELSE jailFile
  /\ rst' = [rst EXCEPT ![t] = [RstIdle EXCEPT !.ok = rst[t].ok]]
  /\ UNCHANGED <<os, engine, touched, gen, active, games, mon, rec, boots, faults, excused>>

RestoreStep(t) ==
  \/ \E p \in Pids : RestoreRead(t, p)
  \/ RestoreGone(t) \/ RestoreAttrs(t) \/ RestoreAttrsFails(t) \/ RestoreDrop(t)
  \/ RemoveLoad(t) \/ RemoveSave(t) \/ RestoreEnd(t)

RestoreCall(ps)  == [RstIdle EXCEPT !.pc = "next", !.todo = ps]
RestoreAllCall   == [RstIdle EXCEPT !.pc = "next", !.all = TRUE,
                                    !.todo = {p \in Pids : touched[p] # NoEntry}]

-----------------------------------------------------------------------------
(* Entering a mutation: the gate, and the snapshot taken before tuning.    *)

GateOpen == engine = "running"   \* neither _shutting_down nor _shutdown_done

(* _remember_process_state of the process the open handle holds. *)
Remember(p, source) ==
  IF touched[p].ct = born[p]
  THEN UNCHANGED <<touched, gen>>
  ELSE /\ gen' = gen + 1
       /\ touched' = [touched EXCEPT ![p] =
             [ct |-> born[p], saved |-> attr[p], source |-> source, gen |-> gen + 1]]

-----------------------------------------------------------------------------
(* _monitor_loop.  One cycle: snapshot, observe, clean up, optimize new    *)
(* games, restore closed ones, enter or leave Game Mode, foreground.       *)

MonGo(pc) == mon' = [mon EXCEPT !.pc = pc]

(* What the loop keeps from one cycle to the next. *)
NextCycle(fg) == [MonOff EXCEPT !.pc = "loop", !.mode = mon.mode, !.fg = fg]

MonExit ==
  /\ mon.pc = "loop" /\ engine \notin {"running", "down"}
  /\ mon' = MonOff
  /\ UNCHANGED <<os, jailFile, engine, touched, gen, active, games, rst, rec, boots, faults, excused>>

MonSnapshot ==
  /\ mon.pc = "loop" /\ engine = "running"
  /\ mon' = [mon EXCEPT !.pc = "observe", !.snap = [p \in Pids |-> IF live[p] THEN born[p] ELSE 0]]
  /\ UNCHANGED <<os, jailFile, engine, touched, gen, active, games, rst, rec, boots, faults, excused>>

SeenGames == {p \in Pids : mon.snap[p] # 0 /\ IsGame(p, mon.snap[p])}

(* _update_active_game_observations: the debounce confirms some missing games as closed. *)
MonObserve ==
  /\ mon.pc = "observe"
  /\ \E closed \in SUBSET (games \ SeenGames) :
        /\ games' = (games \cup SeenGames) \ closed
        /\ mon' = [mon EXCEPT !.pc = "cleanup", !.todo = SeenGames \ games, !.closed = closed]
  /\ UNCHANGED <<os, jailFile, engine, touched, gen, active, rst, rec, boots, faults, excused>>

(* _cleanup_dead_processes, when its 60 s are up: entries of pids not in the snapshot go. *)
MonCleanup ==
  /\ mon.pc = "cleanup"
  /\ touched' = [p \in Pids |->
        IF mon.snap[p] = 0 /\ p \notin games THEN NoEntry ELSE touched[p]]
  /\ MonGo("optimize")
  /\ UNCHANGED <<os, jailFile, engine, gen, active, games, rst, rec, boots, faults, excused>>

MonCleanupNotDue ==
  /\ mon.pc = "cleanup" /\ MonGo("optimize")
  /\ UNCHANGED <<os, jailFile, engine, touched, gen, active, games, rst, rec, boots, faults, excused>>

(* _optimize_game: inside a mutation, if it is still the process the snapshot saw. *)
OptimizeEnter(p) ==
  /\ mon.pc = "optimize" /\ p \in mon.todo
  /\ IF GateOpen /\ live[p] /\ born[p] = mon.snap[p]
     THEN /\ gen < MaxGen /\ Remember(p, "optimize_game") /\ active' = active + 1
          /\ mon' = [mon EXCEPT !.pc = "boost", !.pid = p, !.next = "optimize", !.todo = @ \ {p}]
     ELSE /\ mon' = [mon EXCEPT !.todo = @ \ {p}] /\ UNCHANGED <<touched, gen, active>>
  /\ UNCHANGED <<os, jailFile, engine, games, rst, rec, boots, faults, excused>>

(* Faulty variant: a path of the mutation returns without ending it. *)
BoostLeaks ==
  LET p == mon.pid IN
  /\ mon.pc = "boost"
  /\ attr' = IF live[p] THEN [attr EXCEPT ![p] = Boosted] ELSE attr
  /\ mon' = IF mon.next = "loop" THEN NextCycle(mon.fg) ELSE [mon EXCEPT !.pc = mon.next, !.pid = None]
  /\ UNCHANGED <<born, live, jailFile, engine, touched, gen, active, games, rst, rec, boots, faults, excused>>

(* The setters of _optimize_game_impl and _boost_foreground_impl, and the end of the mutation. *)
Boost ==
  LET p == mon.pid IN
  /\ mon.pc = "boost"
  /\ attr' = IF live[p] THEN [attr EXCEPT ![p] = Boosted] ELSE attr
  /\ active' = active - 1
  /\ mon' = IF mon.next = "loop" THEN NextCycle(mon.fg) ELSE [mon EXCEPT !.pc = mon.next, !.pid = None]
  /\ UNCHANGED <<born, live, jailFile, engine, touched, gen, games, rst, rec, boots, faults, excused>>

(* New games are done: restore the games confirmed closed, if any. *)
MonNoneClosed ==
  /\ mon.pc = "optimize" /\ mon.todo = {} /\ mon.closed = {} /\ MonGo("mode")
  /\ UNCHANGED <<os, jailFile, engine, touched, gen, active, games, rst, rec, boots, faults, excused>>

MonRestoreClosed ==
  /\ mon.pc = "optimize" /\ mon.todo = {} /\ mon.closed # {}
  /\ rst' = [rst EXCEPT !["mon"] = RestoreCall(mon.closed)]
  /\ mon' = [mon EXCEPT !.pc = "closing", !.closed = {}]
  /\ UNCHANGED <<os, jailFile, engine, touched, gen, active, games, rec, boots, faults, excused>>

MonClosedRestored ==
  /\ mon.pc = "closing" /\ rst["mon"].pc = "idle" /\ MonGo("mode")
  /\ UNCHANGED <<os, jailFile, engine, touched, gen, active, games, rst, rec, boots, faults, excused>>

(* What _isolate_background picks from the snapshot: no game by NAME, not jailed already. *)
Eligible == {p \in Pids : /\ mon.snap[p] # 0 /\ ~IsNamed(p, mon.snap[p])
                          /\ touched[p].source # "jail"}

(* Game Mode: entry or a maintenance round start a batch; exit restores everything. *)
MonJailBatch ==
  /\ mon.pc = "mode" /\ SeenGames # {}
  /\ mon' = [mon EXCEPT !.pc = "batch", !.mode = TRUE, !.todo = Eligible]
  /\ UNCHANGED <<os, jailFile, engine, touched, gen, active, games, rst, rec, boots, faults, excused>>

(* While a close is pending the exit delay is counted from time 0, and so is over at once. *)
MonLeaveGameMode ==
  /\ mon.pc = "mode" /\ SeenGames = {} /\ mon.mode
  /\ rst' = [rst EXCEPT !["mon"] = RestoreAllCall]
  /\ mon' = [mon EXCEPT !.pc = "leaving", !.mode = FALSE]
  /\ UNCHANGED <<os, jailFile, engine, touched, gen, active, games, rec, boots, faults, excused>>

MonLeft ==
  /\ mon.pc = "leaving" /\ rst["mon"].pc = "idle" /\ MonGo("fg")
  /\ UNCHANGED <<os, jailFile, engine, touched, gen, active, games, rst, rec, boots, faults, excused>>

(* No game to react to, the exit delay is running, or no maintenance is due. *)
MonModeIdle ==
  /\ mon.pc = "mode" /\ (SeenGames # {} => mon.mode) /\ MonGo("fg")
  /\ UNCHANGED <<os, jailFile, engine, touched, gen, active, games, rst, rec, boots, faults, excused>>

(* Faulty variant: the snapshot's creation time is not passed on. *)
BatchJailAnyProcess(p) ==
  /\ mon.pc = "batch" /\ p \in mon.todo /\ Cardinality(mon.batch) < BatchSize
  /\ IF GateOpen /\ live[p]
     THEN /\ gen < MaxGen /\ Remember(p, "jail") /\ active' = active + 1
          /\ mon' = [mon EXCEPT !.pc = "apply", !.pid = p, !.next = "batch", !.todo = @ \ {p}]
     ELSE /\ mon' = [mon EXCEPT !.todo = @ \ {p}] /\ UNCHANGED <<touched, gen, active>>
  /\ UNCHANGED <<os, jailFile, engine, games, rst, rec, boots, faults, excused>>

(* _jail_process of the batch: gate, open, and the create time the snapshot reported. *)
BatchJail(p) ==
  /\ mon.pc = "batch" /\ p \in mon.todo /\ Cardinality(mon.batch) < BatchSize
  /\ IF GateOpen /\ live[p] /\ born[p] = mon.snap[p]
     THEN /\ gen < MaxGen /\ Remember(p, "jail") /\ active' = active + 1
          /\ mon' = [mon EXCEPT !.pc = "apply", !.pid = p, !.next = "batch", !.todo = @ \ {p}]
     ELSE /\ mon' = [mon EXCEPT !.todo = @ \ {p}] /\ UNCHANGED <<touched, gen, active>>
  /\ UNCHANGED <<os, jailFile, engine, games, rst, rec, boots, faults, excused>>

(* CPU sets, EcoQoS and the idle class.  A batch leaves the mutation before it records. *)
JailApply ==
  LET p == mon.pid IN
  /\ mon.pc = "apply" /\ live[p]
  /\ attr' = [attr EXCEPT ![p] = Jailed]
  /\ IF mon.next = "batch"
     THEN /\ mon' = [mon EXCEPT !.pc = "batch", !.pid = None, !.batch = @ \cup {p}]
          /\ active' = active - 1
     ELSE /\ mon' = [mon EXCEPT !.pc = "capture", !.pid = None, !.batch = {p}]
          /\ UNCHANGED active
  /\ UNCHANGED <<born, live, jailFile, engine, touched, gen, games, rst, rec, boots, faults, excused>>

(* Faulty variant: the refusal drops the entry and undoes nothing. *)
JailApplyFailsForgetting ==
  LET p == mon.pid IN
  /\ mon.pc = "apply"
  /\ \/ ~live[p] /\ UNCHANGED <<attr, faults>>
     \/ live[p] /\ Fails("set") /\ attr' = [attr EXCEPT ![p] = Jailed]
  /\ touched' = [touched EXCEPT ![p] = NoEntry]
  /\ MonGo("undo")
  /\ UNCHANGED <<born, live, jailFile, engine, gen, active, games, rst, rec, boots, excused>>

(* SetPriorityClass fails after the CPU sets and EcoQoS went on: undo, still in the mutation. *)
JailApplyFails ==
  LET p == mon.pid IN
  /\ mon.pc = "apply"
  /\ \/ ~live[p] /\ UNCHANGED <<attr, faults>>
     \/ live[p] /\ Fails("set") /\ attr' = [attr EXCEPT ![p] = Jailed]
  /\ rst' = [rst EXCEPT !["mon"] = RestoreCall({p})]
  /\ MonGo("undo")
  /\ UNCHANGED <<born, live, jailFile, engine, touched, gen, active, games, rec, boots, excused>>

JailUndone ==
  /\ mon.pc = "undo" /\ rst["mon"].pc = "idle"
  /\ mon' = [mon EXCEPT !.pc = mon.next, !.pid = None]
  /\ active' = active - 1
  /\ UNCHANGED <<os, jailFile, engine, touched, gen, games, rst, rec, boots, faults, excused>>

(* The batch is over, or full and the rest deferred: record it, if anything, in one go. *)
BatchEnd ==
  /\ mon.pc = "batch" /\ (mon.todo = {} \/ Cardinality(mon.batch) >= BatchSize)
  /\ mon' = [mon EXCEPT !.pc = IF mon.batch = {} THEN "fg" ELSE "capture", !.todo = {}, !.next = "fg"]
  /\ UNCHANGED <<os, jailFile, engine, touched, gen, active, games, rst, rec, boots, faults, excused>>

-----------------------------------------------------------------------------
(* _record_jail_states: entries under the lock, then read, merge and write *)
(* the file without it.                                                    *)

(* The foreground jail records inside its mutation and leaves it afterwards. *)
RecordDone ==
  /\ mon' = [mon EXCEPT !.pc = mon.next, !.batch = {}, !.recs = EmptyFile]
  /\ active' = IF mon.next = "fgBoost" THEN active - 1 ELSE active

RecordCapture ==
  LET jailed == {p \in mon.batch : touched[p].source = "jail"} IN
  /\ mon.pc = "capture"
  /\ IF jailed = {}
     THEN RecordDone
     ELSE /\ mon' = [mon EXCEPT !.pc = "load", !.batch = {}, !.recs =
                [p \in Pids |-> IF p \in jailed
                                THEN [ct |-> touched[p].ct, saved |-> touched[p].saved]
                                ELSE NoRec]]
          /\ UNCHANGED active
  /\ UNCHANGED <<os, jailFile, engine, touched, gen, games, rst, rec, boots, faults, excused>>

(* Faulty variant: the batch replaces the file instead of merging into it. *)
RecordLoadReplaces ==
  /\ mon.pc = "load" /\ mon' = [mon EXCEPT !.pc = "save"]
  /\ UNCHANGED <<os, jailFile, engine, touched, gen, active, games, rst, rec, boots, faults, excused>>

RecordLoad ==
  /\ mon.pc = "load"
  /\ mon' = [mon EXCEPT !.pc = "save", !.recs =
        [p \in Pids |-> IF mon.recs[p] # NoRec THEN mon.recs[p] ELSE jailFile[p]]]
  /\ UNCHANGED <<os, jailFile, engine, touched, gen, active, games, rst, rec, boots, faults, excused>>

RecordSave ==
  /\ mon.pc = "save"
  /\ \/ jailFile' = mon.recs /\ UNCHANGED <<faults, excused>>
     \/ /\ Fails("save") /\ UNCHANGED jailFile
        /\ excused' = excused \cup {Proc(p) : p \in {q \in Pids : mon.recs[q] # NoRec /\ mon.recs[q].ct = born[q]}}
  /\ RecordDone
  /\ UNCHANGED <<os, engine, touched, gen, games, rst, rec, boots>>

-----------------------------------------------------------------------------
(* The foreground window changed: _handle_foreground_transition.           *)

(* No change, or no window. *)
FgSame ==
  /\ mon.pc = "fg" /\ mon' = NextCycle(mon.fg)
  /\ UNCHANGED <<os, jailFile, engine, touched, gen, active, games, rst, rec, boots, faults, excused>>

(* A new foreground pid f; inside the debounce it is remembered but not acted on. *)
FgChange(f) ==
  /\ mon.pc = "fg" /\ live[f] /\ Proc(f) \in Focusable /\ f # mon.fg
  /\ \/ mon' = [mon EXCEPT !.pc = "fgJail", !.todo = {f}]
     \/ mon' = NextCycle(f)
  /\ UNCHANGED <<os, jailFile, engine, touched, gen, active, games, rst, rec, boots, faults, excused>>

FgNameOk == live[mon.fg] /\ ~IsNamed(mon.fg, born[mon.fg])

(* _jail_process(last_fg_pid): the gate, and the name behind the pid at this moment. *)
FgJailName ==
  /\ mon.pc = "fgJail"
  /\ IF mon.fg # None /\ mon.mode /\ GateOpen /\ FgNameOk
     THEN active' = active + 1 /\ MonGo("fgOpen")
     ELSE UNCHANGED active /\ MonGo("fgBoost")
  /\ UNCHANGED <<os, jailFile, engine, touched, gen, games, rst, rec, boots, faults, excused>>

(* The open that follows takes whatever process has the pid by then. *)
FgJailOpen ==
  LET p == mon.fg IN
  /\ mon.pc = "fgOpen"
  /\ IF live[p] /\ gen < MaxGen
     THEN /\ Remember(p, "jail")
          /\ mon' = [mon EXCEPT !.pc = "apply", !.pid = p, !.next = "fgBoost"]
          /\ UNCHANGED active
     ELSE /\ active' = active - 1 /\ MonGo("fgBoost") /\ UNCHANGED <<touched, gen>>
  /\ UNCHANGED <<os, jailFile, engine, games, rst, rec, boots, faults, excused>>

(* _boost_foreground: games always, anything else in Game Mode. *)
FgBoost(f) ==
  /\ mon.pc = "fgBoost" /\ f \in mon.todo
  /\ IF /\ GateOpen /\ live[f] /\ (mon.mode \/ IsNamed(f, born[f]))
        /\ mon.snap[f] \in {0, born[f]}
     THEN /\ gen < MaxGen /\ Remember(f, "foreground") /\ active' = active + 1
          /\ mon' = [mon EXCEPT !.pc = "boost", !.pid = f, !.next = "loop", !.fg = f]
     ELSE /\ mon' = NextCycle(f)
          /\ UNCHANGED <<touched, gen, active>>
  /\ UNCHANGED <<os, jailFile, engine, games, rst, rec, boots, faults, excused>>

-----------------------------------------------------------------------------
(* Start: _recover_jail_state_from_crash, then the monitor.                *)

Boot ==
  /\ engine = "down" /\ boots < MaxBoot
  /\ boots' = boots + 1 /\ engine' = "recovering"
  /\ rec' = [RecIdle EXCEPT !.pids = jailFile, !.todo = {p \in Pids : jailFile[p] # NoRec}]
  /\ UNCHANGED <<os, jailFile, touched, gen, active, games, mon, rst, faults, excused>>

Recovering(p) == engine = "recovering" /\ rec.pid = None /\ p \in rec.todo
RecoverDrop(p) == rec' = [rec EXCEPT !.todo = @ \ {p}, !.pids = [@ EXCEPT ![p] = NoRec]]

(* The record is too old, or another process has the pid: discard it. *)
RecoverDiscard(p) ==
  /\ Recovering(p) /\ RecoverDrop(p)
  /\ \/ live[p] /\ ~Recorded(p) /\ UNCHANGED <<faults, excused>>
     \/ Fails("aged") /\ excused' = IF Recorded(p) THEN excused \cup {Proc(p)} ELSE excused
  /\ UNCHANGED <<os, jailFile, engine, touched, gen, active, games, mon, rst, boots>>

(* Faulty variant: a pid that cannot be opened is taken for gone and its record dropped. *)
RecoverForgets(p) ==
  /\ Recovering(p) /\ RecoverDrop(p)
  /\ (~live[p] /\ UNCHANGED faults) \/ (live[p] /\ Fails("open"))
  /\ UNCHANGED <<os, jailFile, engine, touched, gen, active, games, mon, rst, boots, excused>>

(* The pid cannot be opened: its record stays, and the start will be refused. *)
RecoverUnresolved(p) ==
  /\ Recovering(p)
  /\ (~live[p] /\ UNCHANGED faults) \/ (live[p] /\ Fails("open"))
  /\ rec' = [rec EXCEPT !.todo = @ \ {p}, !.unresolved = TRUE]
  /\ UNCHANGED <<os, jailFile, engine, touched, gen, active, games, mon, rst, boots, excused>>

(* The recorded process is still there: reinstate its entry and restore it. *)
RecoverRestore(p) ==
  /\ Recovering(p) /\ live[p] /\ Recorded(p) /\ gen < MaxGen
  /\ gen' = gen + 1
  /\ touched' = [touched EXCEPT ![p] =
        [ct |-> born[p], saved |-> rec.pids[p].saved, source |-> "jail", gen |-> gen + 1]]
  /\ rst' = [rst EXCEPT !["main"] = RestoreCall({p})]
  /\ rec' = [rec EXCEPT !.pid = p, !.todo = @ \ {p}]
  /\ UNCHANGED <<os, jailFile, engine, active, games, mon, boots, faults, excused>>

RecoverResult ==
  /\ rec.pid # None /\ rst["main"].pc = "idle"
  /\ rec' = [rec EXCEPT !.pid = None,
        !.pids       = IF rst["main"].ok THEN [@ EXCEPT ![rec.pid] = NoRec] ELSE @,
        !.unresolved = @ \/ ~rst["main"].ok]
  /\ rst' = [rst EXCEPT !["main"] = RstIdle]
  /\ UNCHANGED <<os, jailFile, engine, touched, gen, active, games, mon, boots, faults, excused>>

(* Write back what is left; start the monitor, or refuse to start over unresolved records. *)
RecoverFinish ==
  /\ engine = "recovering" /\ rec.pid = None /\ rec.todo = {}
  /\ \/ jailFile' = rec.pids /\ UNCHANGED faults
     \/ rec.pids # jailFile /\ Fails("save") /\ UNCHANGED jailFile
  /\ IF rec.unresolved \/ jailFile' # EmptyFile
     THEN engine' = "refused" /\ rec' = [RecIdle EXCEPT !.unresolved = TRUE] /\ UNCHANGED mon
     ELSE engine' = "running" /\ rec' = RecIdle /\ mon' = [MonOff EXCEPT !.pc = "loop"]
  /\ UNCHANGED <<os, touched, gen, active, games, rst, boots, excused>>

-----------------------------------------------------------------------------
(* Shutdown, by the one caller that wins the compare-and-set, and crashes. *)
(* cli.py and atexit shut down an engine whose start was refused as well.  *)

ShutdownClose ==
  /\ engine \in {"running", "refused"} /\ engine' = "closing"
  /\ UNCHANGED <<os, jailFile, touched, gen, active, games, mon, rst, rec, boots, faults, excused>>

(* Step 1 and the start of step 5.  The monitor thread may still be running:   *)
(* its join is skipped in fast mode and gives up after 3 s.                    *)
ShutdownDrain ==
  /\ engine = "closing" /\ active = 0
  /\ engine' = "restoring" /\ games' = {}
  /\ rst' = [rst EXCEPT !["main"] = RestoreAllCall]
  /\ UNCHANGED <<os, jailFile, touched, gen, active, mon, rec, boots, faults, excused>>

(* Faulty variant: the flags are taken back once the restore is over. *)
ShutdownDoneReopens ==
  /\ engine = "restoring" /\ rst["main"].pc = "idle" /\ engine' = "running"
  /\ UNCHANGED <<os, jailFile, touched, gen, active, games, mon, rst, rec, boots, faults, excused>>

ShutdownDone ==
  /\ engine = "restoring" /\ rst["main"].pc = "idle" /\ engine' = "stopped"
  /\ UNCHANGED <<os, jailFile, touched, gen, active, games, mon, rst, rec, boots, faults, excused>>

(* Everything a session keeps in memory is gone. *)
ForgetSession ==
  /\ engine' = "down" /\ touched' = [p \in Pids |-> NoEntry] /\ gen' = 0 /\ active' = 0
  /\ games' = {} /\ mon' = MonOff /\ rst' = [t \in Threads |-> RstIdle] /\ rec' = RecIdle

(* The process ends: a crash, a kill, or its exit once stopped. *)
ProcessEnd ==
  /\ engine # "down" /\ ForgetSession
  /\ excused' = excused \cup {Proc(p) : p \in {q \in Pids : Tuned(q) /\ ~Recorded(q)}}
  /\ UNCHANGED <<os, jailFile, boots, faults>>

-----------------------------------------------------------------------------
Windows == \E p \in Pids : Spawn(p) \/ Exit(p)
Restoring == \E t \in Threads : RestoreStep(t)
Monitor ==
  \/ MonExit \/ MonSnapshot \/ MonObserve \/ MonCleanup \/ MonCleanupNotDue
  \/ MonNoneClosed \/ MonRestoreClosed \/ MonClosedRestored \/ MonJailBatch \/ MonLeaveGameMode \/ MonLeft
  \/ MonModeIdle \/ Boost \/ JailApply \/ JailApplyFails \/ JailUndone \/ BatchEnd
  \/ RecordCapture \/ RecordLoad \/ RecordSave \/ FgSame \/ FgJailName \/ FgJailOpen
  \/ \E p \in Pids : OptimizeEnter(p) \/ BatchJail(p) \/ FgChange(p) \/ FgBoost(p)
Recovery ==
  \/ Boot \/ RecoverResult \/ RecoverFinish
  \/ \E p \in Pids : RecoverDiscard(p) \/ RecoverUnresolved(p) \/ RecoverRestore(p)
Shutdown == ShutdownClose \/ ShutdownDrain \/ ShutdownDone

Next == Windows \/ Restoring \/ Monitor \/ Recovery \/ Shutdown \/ ProcessEnd

Spec == Init /\ [][Next]_vars

-----------------------------------------------------------------------------
(* Every variable holds a value of its kind, and bounds are respected. *)
TypeOK ==
  /\ born \in [Pids -> 0..MaxBirth] /\ live \in [Pids -> BOOLEAN] /\ attr \in [Pids -> Attrs]
  /\ jailFile \in [Pids -> Recs]
  /\ engine \in {"down", "recovering", "refused", "running", "closing", "restoring", "stopped"}
  /\ touched \in [Pids -> Entries] /\ gen \in 0..MaxGen /\ active \in 0..1
  /\ games \subseteq Pids /\ excused \subseteq Processes
  /\ boots \in 0..MaxBoot /\ faults \in 0..MaxFault

Own(p, saved) == saved = born[p] \/ Proc(p) \in excused

(* tuning.py:52-97, 437-586, recovery.py:397-406: no process ever runs with settings that *)
(* belonged to another process of the same pid, and the settings kept for it, in memory   *)
(* and on disk, are the ones it started with and never the engine's own tuning - across   *)
(* pid reuse, a re-jail after a boost, crashes and recovery.                              *)
SettingsAreOwn ==
  \A p \in Pids : live[p] =>
    /\ attr[p] \in {Jailed, Boosted} \/ attr[p] = born[p]
    /\ touched[p].ct = born[p] => Own(p, touched[p].saved)
    /\ jailFile[p].ct = born[p] => Own(p, jailFile[p].saved)

(* While a session is up, a process that runs with tuned settings has an entry that says  *)
(* so; while none is up (and no call failed on it), it has a record on disk.              *)
TunedIsTracked ==
  \A p \in Pids : Tuned(p) /\ Proc(p) \notin excused =>
    \/ engine \in {"down", "recovering", "refused"} /\ Recorded(p)
    \/ engine \notin {"down", "recovering", "refused"} /\ touched[p].ct = born[p]
    \/ rec.unresolved

(* runtime.py:630-635: once shutdown has restored the processes, none is tuned, and the   *)
(* monitor thread that may still be running tunes none again.  (After a refused start see *)
(* RefusedStartKeepsRecords.)                                                             *)
StoppedIsRestored ==
  engine = "stopped" /\ ~rec.unresolved => \A p \in Pids : ~Tuned(p) \/ Proc(p) \in excused

(* The taking back as a whole (tuning.py, recovery.py, runtime.py as above): at every      *)
(* moment the settings at hand are the process's own, whoever is tuned can be found, and   *)
(* a stopped engine has left nobody tuned.                                                 *)
Restorable == SettingsAreOwn /\ TunedIsTracked /\ StoppedIsRestored

(* tuning.py:711-712, 888-889: between two monitor cycles every process throttled as      *)
(* background is on disk, so that only a crash inside a cycle can lose one.               *)
RecordedBetweenCycles ==
  engine = "running" /\ mon.pc = "loop" =>
    \A p \in Pids : /\ Tuned(p) /\ touched[p].ct = born[p] /\ touched[p].source = "jail"
                    => Recorded(p) \/ Proc(p) \in excused

(* recovery.py:327-426: a start that goes through leaves no process tuned by an earlier   *)
(* session and no record behind.                                                          *)
RecoveryLeavesNothing ==
  [][engine = "recovering" /\ engine' = "running" =>
       /\ jailFile' = EmptyFile
       /\ \A p \in Pids : ~Tuned(p) \/ Proc(p) \in excused]_vars

(* tuning.py:556-586, recovery.py:309-426: until shutdown, a record leaves the disk only   *)
(* when its process has been restored or has exited, whatever restore, batch or recovery   *)
(* rewrites the file.                                                                      *)
RecordOutlivesThrottle ==
  [][\A p \in Pids : engine \in {"recovering", "running"} /\ Tuned(p) /\ Recorded(p)
                      /\ Tuned(p)' /\ Proc(p)' = Proc(p)
        => Recorded(p)' \/ Proc(p) \in excused']_vars

(* tuning.py:655, 666-684: a background batch throttles no game it knows by name, not even *)
(* one that took over the pid of a process the snapshot listed.                            *)
NamedGamesRunFree ==
  \A p \in Pids : live[p] /\ IsNamed(p, born[p]) => attr[p] # Jailed

(* The shutdown gate (runtime.py:161-177, 569-604) as the contract states it. *)
Contract == INSTANCE ShutdownContract WITH
  alive <- engine # "down",
  phase <- CASE engine = "closing" -> "closing" [] engine = "restoring" -> "drained"
             [] engine = "stopped" -> "restored" [] OTHER -> "open",
  busy  <- active > 0
GateContract == Contract!Spec

(* docs/index.html:336-340: process state is captured so that an interrupted run can be    *)
(* recovered: between two monitor cycles every throttled process is on disk.               *)
ThrottledIsRecorded ==
  engine = "running" /\ mon.pc = "loop" =>
    \A p \in Pids : live[p] /\ attr[p] = Jailed => Recorded(p)

(* recovery.py:372-377: a process that recovery could not open keeps its record "in place  *)
(* for retry"; the shutdown that follows the refused start must leave it there.            *)
RefusedStartKeepsRecords ==
  engine = "stopped" /\ rec.unresolved =>
    \A p \in Pids : Tuned(p) /\ Proc(p) \notin excused => Recorded(p)

(* README.md:134 and runtime.py:24: a game's exit is confirmed before the session is       *)
(* restored, a single missed poll does not do it.                                          *)
ExitIsConfirmed == [][mon.pc = "mode" /\ mon'.pc = "leaving" => games = {}]_vars

(* tuning.py:1004-1005: games are never moved to the background cores. *)
GamesAreNotThrottled ==
  \A p \in Pids : live[p] /\ IsGame(p, born[p]) => attr[p] # Jailed
=============================================================================
