------------------------- MODULE ProcessTuning_proofs -------------------------
(***************************************************************************)
(* Proofs about ProcessTuning, for any pids, any processes, any number of  *)
(* sessions, of entries and of failed calls, and any size of the batch.    *)
(*                                                                         *)
(* None of the properties is inductive.  That settings come back           *)
(* (Restorable) needs: every snapshot anywhere - in memory, on disk, in    *)
(* the local copies the two threads work on - was taken of the process it  *)
(* names and before it was tuned (Snapshots, Settings); a restore call     *)
(* holds the entry it read, or one that was replaced by a newer generation *)
(* (Calls, Gens); whoever is tuned and not excused is still ahead of the   *)
(* restore at every stage (Tracked), is not dropped before its settings    *)
(* are back (Released), not cleaned up as gone (Fresh) and has an entry    *)
(* before it is tuned (Mine); and only one of the two threads works on the *)
(* entries at a time where that matters (Stages, CallArgs).  That the      *)
(* records are on disk between two cycles needs where a throttled process  *)
(* is while it is not there yet: in the batch, in the copy that is being   *)
(* merged, or waiting to be undone (RecordedInv, Batch).                   *)
(*                                                                         *)
(* Invariant is all of this; the last part is about games, and needs the   *)
(* plans the monitor made from its snapshot (Plans, Tamed) as well.        *)
(***************************************************************************)
EXTENDS ProcessTuning, TLAPS

(* Where the monitor thread can be. *)
Points == {"off", "loop", "observe", "cleanup", "optimize", "boost", "mode", "closing", "leaving",
           "batch", "apply", "undo", "capture", "load", "save", "fg", "fgJail", "fgOpen", "fgBoost"}

(* The monitor's locals. *)
MonType == [pc : Points, snap : [Pids -> 0..MaxBirth], todo : SUBSET Pids, closed : SUBSET Pids,
            batch : SUBSET Pids, recs : [Pids -> Recs], pid : Pids \cup {None},
            next : {"off", "optimize", "loop", "batch", "fg", "fgBoost"}, mode : BOOLEAN, fg : Pids \cup {None}]

(* One restore call. *)
RstType == [pc : {"idle", "next", "open", "drop", "load", "save"}, pid : Pids \cup {None}, entry : Entries,
            todo : SUBSET Pids, all : BOOLEAN, file : [Pids -> Recs], ok : BOOLEAN]

(* The locals of recovery. *)
RecType == [pids : [Pids -> Recs], todo : SUBSET Pids, pid : Pids \cup {None}, unresolved : BOOLEAN]

(* The part of TypeOK that is inductive by itself, with the threads' locals; active follows *)
(* from MonShape and excused from Excuses.                                                  *)
Types ==
  /\ born \in [Pids -> 0..MaxBirth] /\ live \in [Pids -> BOOLEAN] /\ attr \in [Pids -> Attrs]
  /\ jailFile \in [Pids -> Recs]
  /\ engine \in {"down", "recovering", "refused", "running", "closing", "restoring", "stopped"}
  /\ touched \in [Pids -> Entries] /\ gen \in 0..MaxGen
  /\ games \subseteq Pids /\ mon \in MonType /\ rst \in [Threads -> RstType] /\ rec \in RecType
  /\ boots \in 0..MaxBoot /\ faults \in 0..MaxFault

(* No monitor runs yet in this session. *)
Before == engine \in {"down", "recovering", "refused"}

(* The restore call of t holds an entry. *)
Held(t) == rst[t].pc \in {"open", "drop"}

(* The restore call of t is taking a record off the disk. *)
Removing(t) == rst[t].pc \in {"load", "save"}

(* Thread t is the only one that works on entries and records. *)
Alone(t) == (t = "mon" /\ engine = "running") \/ (t = "main" /\ engine = "recovering")

(* The monitor is inside a mutation. *)
Mutating == mon.pc \in {"boost", "apply", "fgOpen", "undo"}
            \/ (mon.pc \in {"capture", "load", "save"} /\ mon.next = "fgBoost")

(* The monitor by itself: a mutation is counted while it lasts, and the locals are those of the *)
(* place it is in.                                                                              *)
MonShape ==
  /\ active = IF Mutating THEN 1 ELSE 0
  /\ mon.pc \in {"apply", "boost", "undo"} => mon.pid \in Pids
  /\ mon.pc = "boost" => mon.next \in {"optimize", "loop"}
  /\ mon.pc \in {"apply", "undo"} => mon.next \in {"batch", "fgBoost"}
  /\ mon.pc \in {"capture", "load", "save"} => mon.next \in {"fg", "fgBoost"}
  /\ mon.pc = "fgOpen" => mon.fg \in Pids
  /\ mon.batch # {} => mon.pc \in {"batch", "capture"} \/ (mon.pc \in {"apply", "undo"} /\ mon.next = "batch")

(* Who runs at which stage of a session. *)
Stages ==
  /\ Before \/ rec.unresolved => mon.pc = "off"
  /\ engine \in {"restoring", "stopped"} => ~Mutating
  /\ rst["mon"].pc # "idle" => mon.pc \in {"closing", "leaving", "undo"}
  /\ rst["main"].pc # "idle" => engine \in {"recovering", "restoring"}
  /\ rec.pid # None => engine = "recovering"
  /\ engine = "recovering" /\ rst["main"].pc # "idle" => rec.pid # None
  /\ rec.unresolved => engine \in {"recovering", "refused", "closing", "restoring", "stopped"}
  /\ engine = "refused" => rec.unresolved

(* A restore call holds the entry it read, or one that a newer generation replaced; where *)
(* nobody else works on the table and the file they are as it left them.                  *)
CallOk(t) ==
  /\ Held(t) => rst[t].entry # NoEntry /\ rst[t].entry.gen <= gen
                /\ (touched[rst[t].pid].gen = rst[t].entry.gen => touched[rst[t].pid] = rst[t].entry)
  /\ Held(t) \/ Removing(t) => rst[t].pid \in Pids
  /\ ~Held(t) => rst[t].entry = NoEntry
  /\ rst[t].pc = "idle" => rst[t].todo = {}
  /\ t = "main" /\ engine = "restoring" /\ Held(t) => touched[rst[t].pid] \in {rst[t].entry, NoEntry}
  /\ Alone(t) /\ Held(t) => touched[rst[t].pid] = rst[t].entry
  /\ Alone(t) /\ Removing(t) => touched[rst[t].pid] = NoEntry
  /\ Alone(t) /\ rst[t].pc = "save" => rst[t].file = [jailFile EXCEPT ![rst[t].pid] = NoRec]

(* Every restore call is in order. *)
Calls == \A t \in Threads : CallOk(t)

(* No entry is newer than the generation counter. *)
Gens == \A p \in Pids : touched[p].gen <= gen

(* What recovery has still to do is on disk, and it restores one process at a time; the monitor *)
(* restores everybody only when it leaves Game Mode.                                            *)
CallArgs ==
  /\ \A p \in rec.todo : engine = "recovering" /\ rec.pids[p] # NoRec /\ rec.pids[p] = jailFile[p]
  /\ rec.pid # None => rec.pid \notin rec.todo
  /\ rec.pid # None => ~rst["main"].all /\ rst["main"].todo \subseteq {rec.pid}
                       /\ (Held("main") \/ Removing("main") => rst["main"].pid = rec.pid)
  /\ rst["mon"].pc # "idle" /\ rst["mon"].all => mon.pc = "leaving"

(* Snapshot r, kept for pid p, was taken of the process it names before that was tuned, or the  *)
(* process is excused. (b and x stand for born and excused, so that the same can be said of the *)
(* next state.)                                                                                 *)
Sound(p, r, b, x) == r.ct = 0 \/ /\ r.ct <= b[p]
                                 /\ r.saved = r.ct \/ (<<p, r.ct>> \in x /\ r.saved \in {Jailed, Boosted})

(* A sound snapshot in the present state. *)
Genuine(p, r) == Sound(p, r, born, excused)

(* Every snapshot is genuine: entries, records, and what the threads hold. *)
Snapshots ==
  /\ \A p \in Pids : Genuine(p, touched[p]) /\ Genuine(p, jailFile[p]) /\ Genuine(p, mon.recs[p])
     /\ Genuine(p, rec.pids[p])
  /\ \A t \in Threads : \A p \in Pids : Genuine(p, rst[t].file[p])
  /\ \A t \in Threads : Held(t) => Genuine(rst[t].pid, rst[t].entry)
  /\ \A p \in Pids : mon.snap[p] <= born[p]

(* A live process runs with its own settings or with the engine's tuning. *)
Settings == \A p \in Pids :
   /\ born[p] # 0 => Proc(p) \in Processes
   /\ live[p] => born[p] # 0 /\ (attr[p] = born[p] \/ attr[p] \in {Jailed, Boosted})

(* Only processes are excused. *)
Excuses == excused \subseteq Processes

(* Tuned, and nothing excuses losing it. *)
Astray(p) == Tuned(p) /\ Proc(p) \notin excused

(* The process of a mutation has its entry before it is tuned. *)
Mine == mon.pc \in {"apply", "boost"} /\ live[mon.pid] => touched[mon.pid].ct = born[mon.pid]

(* A pid the snapshot did not hold has not been tuned since the snapshot. *)
Fresh == mon.pc \in {"observe", "cleanup"} => \A p \in Pids : mon.snap[p] = 0 => ~Astray(p)

(* Nobody is dropped from the table, or reported restored, who is still tuned. *)
Released ==
  /\ \A t \in Threads : rst[t].pc = "drop" \/ Removing(t) => ~Astray(rst[t].pid)
  /\ rec.pid # None /\ rst["main"].ok => ~Astray(rec.pid)

(* Whoever is tuned can be found: in the record before the engine runs, in the table while it *)
(* runs, and ahead of the restore at the end.                                                 *)
Tracked == \A p \in Pids : Astray(p) =>
  /\ Before => Recorded(p)
  /\ engine = "recovering" => rec.pids[p].ct = born[p]
  /\ ~Before /\ ~rec.unresolved => touched[p].ct = born[p]
  /\ engine = "restoring" /\ ~rec.unresolved =>
        p \in rst["main"].todo \/ (rst["main"].pc = "open" /\ rst["main"].pid = p)
  /\ engine = "stopped" => rec.unresolved

(* The process behind p is the one its entry names, and is not excused. *)
Owned(p) == live[p] /\ touched[p].ct = born[p] /\ Proc(p) \notin excused

(* The same, of a process throttled as background. *)
Bound(p) == Owned(p) /\ touched[p].source = "jail"

(* The restore call of t will come to p, or is at it. *)
Under(t, p) == p \in rst[t].todo \/ (Held(t) /\ rst[t].pid = p)

(* p is throttled and its record is on the way to the disk, or its throttling on the way back. *)
InFlight(p) ==
  \/ mon.pc = "apply" /\ mon.pid = p
  \/ p \in mon.batch
  \/ mon.pc \in {"load", "save"} /\ mon.recs[p].ct = born[p]
  \/ mon.pc = "undo" /\ rst["mon"].pc # "idle" /\ Under("mon", p)

(* Whoever is throttled has a record or is in flight. *)
RecordedInv ==
  /\ engine = "running" => \A p \in Pids : Bound(p) => Recorded(p) \/ InFlight(p)
  /\ engine = "down" => \A p \in Pids : touched[p] = NoEntry
  /\ engine = "recovering" => \A p \in Pids : Bound(p) => rec.pid # None /\ rst["main"].pc # "idle"
     /\ Under("main", p)
  /\ engine = "running" /\ mon.pc = "leaving" /\ rst["mon"].pc # "idle" =>
        \A p \in Pids : Owned(p) => Under("mon", p)

(* The records being written are of the processes that have an entry now, and miss none that is *)
(* on disk.                                                                                     *)
Batch ==
  /\ engine = "running" /\ mon.pc = "load" =>
        \A p \in Pids : mon.recs[p] # NoRec => mon.recs[p].ct = touched[p].ct
  /\ engine = "running" /\ mon.pc = "save" =>
        \A p \in Pids : live[p] /\ touched[p].ct = born[p] /\ Recorded(p) => mon.recs[p].ct = born[p]

(* No game known by name takes over the pid of a process that had a window.  Without this the   *)
(* jail of the process the foreground left (tuning.py:650) can hit a game: it looks at the name *)
(* behind the pid and then opens the pid, and no creation time is compared in between.          *)
NoGameAfterWindow == \A x \in Focusable : \A n \in 1..MaxBirth : n > x[2] => <<x[1], n>> \notin NamedGames

(* Snapshot r would not throttle a game if it was written back. *)
Tame(p, r) == r.saved = Jailed => <<p, r.ct>> \notin NamedGames

(* The initial values are well formed. *)
LEMMA Nulls ==
  /\ NoRec \in Recs /\ NoEntry \in Entries /\ EmptyFile \in [Pids -> Recs]
  /\ MonOff \in MonType /\ RstIdle \in RstType /\ RecIdle \in RecType
<1>1. NoRec \in Recs /\ NoEntry \in Entries /\ EmptyFile \in [Pids -> Recs]
  BY DEF Recs, Entries, NoRec, NoEntry, EmptyFile
<1>2. MonOff \in MonType
  BY <1>1, TuningAssumption DEF MonOff, MonType, Points, NoSnap
<1>3. RstIdle \in RstType /\ RecIdle \in RecType
  BY <1>1 DEF RstIdle, RecIdle, RstType, RecType
<1> QED BY <1>1, <1>2, <1>3

(* The monitor's locals stay well formed in the updates that its steps make. *)
LEMMA MonTypes ==
  ASSUME NEW m \in MonType, NEW pc \in Points, NEW todo \in SUBSET Pids, NEW batch \in SUBSET Pids,
         NEW pid \in Pids \cup {None}, NEW next \in {"off", "optimize", "loop", "batch", "fg", "fgBoost"}
  PROVE  /\ [m EXCEPT !.todo = todo] \in MonType
         /\ [m EXCEPT !.pc = pc, !.todo = todo] \in MonType
         /\ [m EXCEPT !.pc = pc, !.pid = pid, !.batch = batch] \in MonType
         /\ [m EXCEPT !.pc = pc, !.pid = pid, !.next = next, !.todo = todo] \in MonType
  BY Zenon DEF MonType

(* A restore call stays well formed in the updates that its steps make. *)
LEMMA RstTypes ==
  ASSUME NEW r \in RstType, NEW pc \in {"idle", "next", "open", "drop", "load", "save"},
         NEW pid \in Pids \cup {None}, NEW entry \in Entries, NEW todo \in SUBSET Pids,
         NEW file \in [Pids -> Recs], NEW ok \in BOOLEAN, NEW all \in BOOLEAN
  PROVE  /\ [r EXCEPT !.pc = pc] \in RstType
         /\ [r EXCEPT !.todo = todo] \in RstType
         /\ [r EXCEPT !.ok = ok] \in RstType
         /\ [r EXCEPT !.pc = pc, !.pid = pid] \in RstType
         /\ [r EXCEPT !.pc = pc, !.file = file] \in RstType
         /\ [r EXCEPT !.pc = pc, !.todo = todo] \in RstType
         /\ [r EXCEPT !.pc = pc, !.all = all, !.todo = todo] \in RstType
         /\ [r EXCEPT !.pc = pc, !.pid = pid, !.file = file] \in RstType
         /\ [r EXCEPT !.pc = pc, !.pid = pid, !.entry = entry] \in RstType
         /\ [r EXCEPT !.pc = pc, !.ok = ok, !.entry = entry] \in RstType
         /\ [r EXCEPT !.pc = pc, !.pid = pid, !.entry = entry, !.todo = todo] \in RstType
         /\ [r EXCEPT !.pc = pc, !.ok = ok, !.entry = entry, !.pid = pid] \in RstType
  BY Zenon DEF RstType

(* The locals of recovery stay well formed in the updates that its steps make. *)
LEMMA RecTypes ==
  ASSUME NEW r \in RecType, NEW pids \in [Pids -> Recs], NEW todo \in SUBSET Pids,
         NEW pid \in Pids \cup {None}, NEW unresolved \in BOOLEAN
  PROVE  /\ [r EXCEPT !.unresolved = unresolved] \in RecType
         /\ [r EXCEPT !.pids = pids, !.todo = todo] \in RecType
         /\ [r EXCEPT !.todo = todo, !.pids = pids] \in RecType
         /\ [r EXCEPT !.todo = todo, !.unresolved = unresolved] \in RecType
         /\ [r EXCEPT !.pid = pid, !.todo = todo] \in RecType
         /\ [r EXCEPT !.pid = pid, !.pids = pids, !.unresolved = unresolved] \in RecType
  BY DEF RecType

(* The entry _remember_process_state creates is well formed. *)
LEMMA NewEntry ==
  ASSUME Types, NEW p \in Pids, born[p] # 0, NEW source \in Sources, NEW saved \in Attrs, gen < MaxGen
  PROVE  [ct |-> born[p], saved |-> saved, source |-> source, gen |-> gen + 1] \in Entries
         /\ gen + 1 \in 0..MaxGen
  BY TuningAssumption DEF Types, Entries

(* The numbers in entries and records. *)
LEMMA Numbers ==
  ASSUME Types
  PROVE  /\ \A e \in Entries : e.gen \in Nat /\ e.ct \in 0..MaxBirth /\ e.saved \in 0..Boosted
                               /\ (e # NoEntry => e.ct # 0 /\ e.saved \in Attrs)
                               /\ (e.source = "jail" => e.ct # 0 /\ e # NoEntry)
         /\ \A r \in Recs : r.ct \in 0..MaxBirth /\ r.saved \in 0..Boosted /\ (r # NoRec => r.ct # 0)
         /\ NoEntry.ct = 0 /\ NoRec.ct = 0 /\ NoEntry.gen = 0 /\ NoEntry.source = "none" /\ NoEntry.saved = 0
         /\ \A p \in Pids : touched[p] \in Entries /\ jailFile[p] \in Recs /\ mon.recs[p] \in Recs
                            /\ rec.pids[p] \in Recs /\ born[p] \in 0..MaxBirth /\ mon.snap[p] \in 0..MaxBirth
                            /\ attr[p] \in Attrs /\ EmptyFile[p] = NoRec /\ NoSnap[p] = 0
         /\ \A t \in Threads : /\ rst[t].entry \in Entries /\ rst[t].pid \in Pids \cup {None}
                               /\ rst[t].todo \in SUBSET Pids
                               /\ \A p \in Pids : rst[t].file[p] \in Recs
         /\ gen \in Nat /\ rec.pid \in Pids \cup {None} /\ None \notin Pids /\ rec.todo \in SUBSET Pids
         /\ "mon" \in Threads /\ "main" \in Threads /\ \A t \in Threads : t \in {"mon", "main"}
<1>1. /\ \A e \in Entries : e.gen \in Nat /\ e.ct \in 0..MaxBirth /\ e.saved \in 0..Boosted
                               /\ (e # NoEntry => e.ct # 0 /\ e.saved \in Attrs)
                               /\ (e.source = "jail" => e.ct # 0 /\ e # NoEntry)
      /\ NoEntry.ct = 0 /\ NoEntry.gen = 0 /\ NoEntry.source = "none" /\ NoEntry.saved = 0
  BY TuningAssumption DEF Entries, NoEntry, Attrs, Boosted
<1>2. /\ \A r \in Recs : r.ct \in 0..MaxBirth /\ r.saved \in 0..Boosted /\ (r # NoRec => r.ct # 0)
      /\ NoRec.ct = 0
  BY TuningAssumption DEF Recs, NoRec, Attrs, Boosted
<1>3. \A p \in Pids : touched[p] \in Entries /\ jailFile[p] \in Recs /\ mon.recs[p] \in Recs
                            /\ rec.pids[p] \in Recs /\ born[p] \in 0..MaxBirth /\ mon.snap[p] \in 0..MaxBirth
                            /\ attr[p] \in Attrs /\ EmptyFile[p] = NoRec /\ NoSnap[p] = 0
  BY DEF Types, MonType, RecType, EmptyFile, NoSnap
<1>4. \A t \in Threads : /\ rst[t].entry \in Entries /\ rst[t].pid \in Pids \cup {None}
                         /\ rst[t].todo \in SUBSET Pids
                         /\ \A p \in Pids : rst[t].file[p] \in Recs
  BY DEF Types, RstType
<1> QED BY <1>1, <1>2, <1>3, <1>4, TuningAssumption DEF Types, RecType, Threads, None

(* What a restore call does to its own record. *)
LEMMA RstSteps ==
  ASSUME Types, NEW t \in Threads, RestoreStep(t)
  PROVE  \E r \in RstType : rst' = [rst EXCEPT ![t] = r]
<1>x. rst \in [Threads -> RstType] /\ rst[t] \in RstType /\ touched \in [Pids -> Entries]
      /\ jailFile \in [Pids -> Recs]
  BY DEF Types
<1>t. rst[t].todo \in SUBSET Pids
  BY <1>x DEF RstType
<1> USE Nulls, <1>x, RstTypes
<1>1. ASSUME NEW p \in Pids, RestoreRead(t, p) PROVE \E r \in RstType : rst' = [rst EXCEPT ![t] = r]
  <2> DEFINE r == IF touched[p] = NoEntry
                  THEN [rst[t] EXCEPT !.todo = rst[t].todo \ {p}]
                  ELSE [rst[t] EXCEPT !.pc = "open", !.pid = p, !.entry = touched[p], !.todo = rst[t].todo \ {p}]
  <2>1. rst[t].todo \ {p} \in SUBSET Pids BY <1>t
  <2>2. r \in RstType BY <2>1
  <2>3. rst' = [rst EXCEPT ![t] = r] BY <1>1 DEF RestoreRead
  <2> QED BY <2>2, <2>3
<1>2. CASE RestoreGone(t)
  BY <1>2 DEF RestoreGone
<1>3. CASE RestoreAttrs(t)
  BY <1>3 DEF RestoreAttrs
<1>4. CASE RestoreAttrsFails(t)
  BY <1>4 DEF RestoreAttrsFails
<1>5. CASE RestoreDrop(t)
  BY <1>5 DEF RestoreDrop
<1>6. CASE RemoveLoad(t)
  BY <1>6 DEF RemoveLoad
<1>7. CASE RemoveSave(t)
  BY <1>7 DEF RemoveSave
<1>8. CASE RestoreEnd(t)
  <2>1. rst[t].ok \in BOOLEAN BY DEF RstType
  <2>2. [RstIdle EXCEPT !.ok = rst[t].ok] \in RstType BY <2>1
  <2> QED BY <1>8, <2>2 DEF RestoreEnd
<1> QED BY <1>1, <1>2, <1>3, <1>4, <1>5, <1>6, <1>7, <1>8 DEF RestoreStep

(* Dropping an entry, or leaving it, keeps the table well formed. *)
LEMMA PopTypes ==
  ASSUME Types, NEW t \in Threads, PopSame(t) PROVE touched' \in [Pids -> Entries]
  BY Nulls DEF Types, PopSame

(* A step of _restore_process keeps the types. *)
LEMMA RestoreTypes ==
  ASSUME Types, Calls, NEW t \in Threads, RestoreStep(t) PROVE Types'
<1>r. rst' \in [Threads -> RstType]
  BY RstSteps DEF Types
<1>x. rst[t] \in RstType
  BY DEF Types
<1> USE <1>r DEF Types, os
<1>1. ASSUME NEW p \in Pids, RestoreRead(t, p) PROVE Types'
  BY <1>1 DEF RestoreRead
<1>2. CASE RestoreGone(t)
  BY <1>2, PopTypes, TuningAssumption DEF RestoreGone, Fails
<1>3. CASE RestoreAttrs(t)
  <2>1. rst[t].pid \in Pids /\ rst[t].entry.saved \in Attrs
    BY <1>3, <1>x DEF RestoreAttrs, Calls, CallOk, Held, RstType, Entries
  <2> QED BY <1>3, <2>1 DEF RestoreAttrs
<1>4. CASE RestoreAttrsFails(t)
  BY <1>4, PopTypes, TuningAssumption DEF RestoreAttrsFails, Fails
<1>5. CASE RestoreDrop(t)
  BY <1>5, PopTypes DEF RestoreDrop
<1>6. CASE RemoveLoad(t)
  BY <1>6 DEF RemoveLoad
<1>7. CASE RemoveSave(t)
  BY <1>7, <1>x, TuningAssumption DEF RemoveSave, RstType, Fails
<1>8. CASE RestoreEnd(t)
  BY <1>8, Nulls DEF RestoreEnd
<1> QED BY <1>1, <1>2, <1>3, <1>4, <1>5, <1>6, <1>7, <1>8 DEF RestoreStep

(* _remember_process_state keeps the table well formed. *)
LEMMA RememberTypes ==
  ASSUME Types, Settings, NEW p \in Pids, live[p], NEW source \in Sources, gen < MaxGen, Remember(p, source)
  PROVE  touched' \in [Pids -> Entries] /\ gen' \in 0..MaxGen
  BY NewEntry DEF Types, Settings, Remember

(* A step of the monitor keeps the types. *)
LEMMA MonitorTypes ==
  ASSUME Types, MonShape, Settings, Monitor PROVE Types'
<1>x. mon \in MonType /\ rst \in [Threads -> RstType] /\ touched \in [Pids -> Entries] /\ "mon" \in Threads
  BY DEF Types, Threads
<1>y. mon.recs \in [Pids -> Recs] /\ mon.todo \in SUBSET Pids /\ mon.batch \in SUBSET Pids
      /\ mon.closed \in SUBSET Pids /\ mon.fg \in Pids \cup {None} /\ mon.next \in Points /\ mon.mode \in BOOLEAN
  BY <1>x DEF MonType, Points
<1>p. {"off", "loop", "observe", "cleanup", "optimize", "boost", "mode", "closing", "leaving",
                            "batch", "apply", "undo", "capture", "load", "save", "fg", "fgJail", "fgOpen",
                            "fgBoost"} \subseteq Points
  BY DEF Points
<1> USE <1>p
<1>n. ASSUME NEW fg \in Pids \cup {None} PROVE NextCycle(fg) \in MonType
  BY <1>n, <1>y, Nulls DEF NextCycle, MonType
<1>c. ASSUME NEW todo \in SUBSET Pids PROVE RestoreCall(todo) \in RstType
  BY <1>c, Nulls, RstTypes DEF RestoreCall
<1>a. RestoreAllCall \in RstType
  BY Nulls, RstTypes DEF RestoreAllCall
<1>1. CASE MonExit \/ MonCleanupNotDue \/ MonNoneClosed \/ MonClosedRestored \/ MonLeft \/ MonModeIdle \/ FgSame
  BY <1>1, <1>n, <1>x, <1>y, Nulls DEF MonExit, MonCleanupNotDue, MonNoneClosed, MonClosedRestored, MonLeft,
     MonModeIdle, FgSame, MonGo, MonType, Types, os
<1>2. CASE MonSnapshot
  <2>1. [p \in Pids |-> IF live[p] THEN born[p] ELSE 0] \in [Pids -> 0..MaxBirth]
    BY TuningAssumption DEF Types
  <2>2. mon' \in MonType
    BY <1>2, <1>x, <2>1 DEF MonSnapshot, MonType
  <2> QED BY <1>2, <2>2 DEF MonSnapshot, Types, os
<1>3. CASE MonObserve
  <2>1. PICK closed \in SUBSET (games \ SeenGames) :
           /\ games' = (games \cup SeenGames) \ closed
           /\ mon' = [mon EXCEPT !.pc = "cleanup", !.todo = SeenGames \ games, !.closed = closed]
    BY <1>3 DEF MonObserve
  <2>2. SeenGames \subseteq Pids /\ closed \in SUBSET Pids /\ SeenGames \ games \in SUBSET Pids
    BY DEF SeenGames, Types
  <2>3. mon' \in MonType
    BY <2>1, <2>2, <1>x DEF MonType
  <2> QED BY <1>3, <2>1, <2>2, <2>3 DEF MonObserve, Types, os
<1>4. CASE MonCleanup
  BY <1>4, <1>x, Nulls DEF MonCleanup, MonGo, MonType, Types, os
<1>5. CASE MonRestoreClosed \/ MonLeaveGameMode
  <2>1. mon' \in MonType
    BY <1>5, <1>x DEF MonRestoreClosed, MonLeaveGameMode, MonType
  <2>2. rst' \in [Threads -> RstType]
    BY <1>5, <1>a, <1>c, <1>x, <1>y DEF MonRestoreClosed, MonLeaveGameMode
  <2> QED BY <1>5, <2>1, <2>2 DEF MonRestoreClosed, MonLeaveGameMode, Types, os
<1>6. CASE MonJailBatch
  <2>1. Eligible \in SUBSET Pids
    BY DEF Eligible
  <2> QED BY <1>6, <2>1, <1>x DEF MonJailBatch, MonType, Types, os
<1>7. CASE Boost \/ JailApply
  <2>1. mon.pid \in Pids /\ Boosted \in Attrs /\ Jailed \in Attrs
    BY <1>7, TuningAssumption DEF Boost, JailApply, MonShape, Attrs, Boosted, Jailed
  <2>2. None \in Pids \cup {None} /\ mon.batch \cup {mon.pid} \in SUBSET Pids /\ {mon.pid} \in SUBSET Pids
    BY <1>y, <2>1
  <2>3. mon' \in MonType
    <3>1. CASE Boost /\ mon.next = "loop" BY <3>1, <1>n, <1>y DEF Boost
    <3>2. CASE Boost /\ mon.next # "loop" BY <3>2, <1>x, <1>y DEF Boost, MonType
    <3>3. CASE JailApply
      <4>1. \/ mon' = [mon EXCEPT !.pc = "batch", !.pid = None, !.batch = mon.batch \cup {mon.pid}]
            \/ mon' = [mon EXCEPT !.pc = "capture", !.pid = None, !.batch = {mon.pid}]
        BY <3>3 DEF JailApply
      <4>2. /\ [mon EXCEPT !.pc = "batch", !.pid = None, !.batch = mon.batch \cup {mon.pid}] \in MonType
            /\ [mon EXCEPT !.pc = "capture", !.pid = None, !.batch = {mon.pid}] \in MonType
        BY <1>x, <2>2, MonTypes
      <4> QED BY <4>1, <4>2
    <3> QED BY <1>7, <3>1, <3>2, <3>3
  <2> QED BY <1>7, <2>1, <2>3 DEF Boost, JailApply, Types, os
<1>8. CASE JailApplyFails
  <2>1. mon.pid \in Pids /\ {mon.pid} \in SUBSET Pids /\ Jailed \in Attrs
    BY <1>8, TuningAssumption DEF JailApplyFails, MonShape, Attrs, Boosted, Jailed
  <2>2. mon' \in MonType /\ rst' \in [Threads -> RstType]
    BY <1>8, <1>c, <1>x, <2>1 DEF JailApplyFails, MonGo, MonType
  <2> QED BY <1>8, <2>1, <2>2, TuningAssumption DEF JailApplyFails, Fails, Types, os
<1>9. CASE JailUndone \/ BatchEnd
  <2>1. mon' \in MonType
    BY <1>9, <1>x, <1>y DEF JailUndone, BatchEnd, MonType
  <2> QED BY <1>9, <2>1 DEF JailUndone, BatchEnd, Types, os
<1>10. CASE RecordCapture \/ RecordSave
  <2>0. mon.next \in Points /\ {} \in SUBSET Pids
    BY <1>y
  <2>1. RecordDone => mon' \in MonType
    BY <1>x, <2>0, Nulls DEF RecordDone, MonType
  <2> DEFINE recs == [p \in Pids |-> IF p \in {q \in mon.batch : touched[q].source = "jail"}
                                     THEN [ct |-> touched[p].ct, saved |-> touched[p].saved] ELSE NoRec]
  <2>2. ASSUME NEW p \in Pids, touched[p].source = "jail"
        PROVE  [ct |-> touched[p].ct, saved |-> touched[p].saved] \in Recs
    BY <2>2, <1>x DEF Entries, NoEntry, Recs
  <2>3. recs \in [Pids -> Recs]
    BY <2>2, Nulls
  <2>4. mon' \in MonType
    <3>1. CASE RecordCapture /\ ~RecordDone
      <4>1. mon' = [mon EXCEPT !.pc = "load", !.batch = {}, !.recs = recs]
        BY <3>1 DEF RecordCapture
      <4> HIDE DEF recs
      <4> QED BY <4>1, <2>0, <2>3, <1>x DEF MonType
    <3> QED BY <1>10, <2>1, <3>1 DEF RecordSave
  <2> QED BY <1>10, <1>y, <2>4, TuningAssumption DEF RecordCapture, RecordSave, Fails, Types, os
<1>11. CASE RecordLoad
  <2>1. [p \in Pids |-> IF mon.recs[p] # NoRec THEN mon.recs[p] ELSE jailFile[p]] \in [Pids -> Recs]
    BY <1>y DEF Types
  <2> QED BY <1>11, <2>1, <1>x DEF RecordLoad, MonType, Types, os
<1>12. CASE FgJailName
  BY <1>12, <1>x DEF FgJailName, MonGo, MonType, Types, os
<1>13. CASE FgJailOpen
  <2>1. mon.fg \in Pids /\ "jail" \in Sources
    BY <1>13 DEF FgJailOpen, MonShape, Sources
  <2>2. mon' \in MonType
    BY <1>13, <1>x, <2>1 DEF FgJailOpen, MonGo, MonType
  <2> QED BY <1>13, <2>1, <2>2, RememberTypes DEF FgJailOpen, Types, os
<1>14. ASSUME NEW p \in Pids, OptimizeEnter(p) \/ BatchJail(p) \/ FgChange(p) \/ FgBoost(p) PROVE Types'
  <2>1. {"jail", "optimize_game", "foreground"} \subseteq Sources /\ mon.todo \ {p} \in SUBSET Pids
        /\ {p} \in SUBSET Pids
    BY <1>y DEF Sources
  <2>2. mon' \in MonType
    <3>1. CASE OptimizeEnter(p)
      <4>1. CASE GateOpen /\ live[p] /\ born[p] = mon.snap[p]
        <5>1. mon' = [mon EXCEPT !.pc = "boost", !.pid = p, !.next = "optimize", !.todo = mon.todo \ {p}]
          BY <3>1, <4>1 DEF OptimizeEnter
        <5> QED BY <5>1, <1>x, <2>1, MonTypes
      <4>2. CASE ~(GateOpen /\ live[p] /\ born[p] = mon.snap[p])
        BY <3>1, <4>2, <1>x, <2>1, MonTypes DEF OptimizeEnter
      <4> QED BY <4>1, <4>2
    <3>2. CASE BatchJail(p)
      <4>1. CASE GateOpen /\ live[p] /\ born[p] = mon.snap[p]
        <5>1. mon' = [mon EXCEPT !.pc = "apply", !.pid = p, !.next = "batch", !.todo = mon.todo \ {p}]
          BY <3>2, <4>1 DEF BatchJail
        <5> QED BY <5>1, <1>x, <2>1, MonTypes
      <4>2. CASE ~(GateOpen /\ live[p] /\ born[p] = mon.snap[p])
        BY <3>2, <4>2, <1>x, <2>1, MonTypes DEF BatchJail
      <4> QED BY <4>1, <4>2
    <3>3. CASE FgChange(p)
      <4>1. mon' = [mon EXCEPT !.pc = "fgJail", !.todo = {p}] \/ mon' = NextCycle(p)
        BY <3>3 DEF FgChange
      <4>2. [mon EXCEPT !.pc = "fgJail", !.todo = {p}] \in MonType
        BY <1>x, <2>1, MonTypes
      <4> QED BY <4>1, <4>2, <1>n
    <3>4. CASE FgBoost(p)
      <4>1. \/ mon' = [mon EXCEPT !.pc = "boost", !.pid = p, !.next = "loop", !.fg = p]
            \/ mon' = NextCycle(p)
        BY <3>4 DEF FgBoost
      <4>2. [mon EXCEPT !.pc = "boost", !.pid = p, !.next = "loop", !.fg = p] \in MonType
        BY <1>x DEF MonType
      <4> QED BY <4>1, <4>2, <1>n
    <3> QED BY <1>14, <3>1, <3>2, <3>3, <3>4
  <2>3. touched' \in [Pids -> Entries] /\ gen' \in 0..MaxGen
    BY <1>14, <1>x, <2>1, RememberTypes DEF OptimizeEnter, BatchJail, FgChange, FgBoost, Types
  <2> QED BY <1>14, <2>2, <2>3 DEF OptimizeEnter, BatchJail, FgChange, FgBoost, Types, os
<1> QED
  BY <1>1, <1>2, <1>3, <1>4, <1>5, <1>6, <1>7, <1>8, <1>9, <1>10, <1>11, <1>12, <1>13, <1>14 DEF Monitor

(* Windows, recovery, shutdown and the end of the process keep the types. *)
LEMMA OtherTypes ==
  ASSUME Types, Settings, Snapshots, CallArgs, Windows \/ Recovery \/ Shutdown \/ ProcessEnd PROVE Types'
<1>x. rec \in RecType /\ rst \in [Threads -> RstType] /\ touched \in [Pids -> Entries] /\ jailFile \in [Pids -> Recs]
  BY DEF Types
<1>y. /\ rec.pids \in [Pids -> Recs] /\ rec.todo \in SUBSET Pids /\ rec.pid \in Pids \cup {None}
      /\ rec.unresolved \in BOOLEAN /\ rst["main"].ok \in BOOLEAN
  BY <1>x DEF RecType, RstType, Threads
<1>1. CASE Windows
  <2>1. PICK p \in Pids : Spawn(p) \/ Exit(p)
    BY <1>1 DEF Windows
  <2>2. CASE Spawn(p)
    <3>1. born[p] + 1 \in 1..MaxBirth /\ born[p] + 1 \in Attrs
      BY <2>2, TuningAssumption DEF Spawn, Attrs, Boosted
    <3>2. /\ born' \in [Pids -> 0..MaxBirth] /\ live' \in [Pids -> BOOLEAN] /\ attr' \in [Pids -> Attrs]
      BY <2>2, <3>1, TuningAssumption DEF Spawn, Types
    <3> QED BY <2>2, <3>2 DEF Spawn, Types, session
  <2>3. CASE Exit(p)
    <3>1. 1 \in Attrs
      BY TuningAssumption DEF Attrs, Boosted
    <3> QED BY <2>3, <3>1 DEF Exit, Types, session
  <2> QED BY <2>1, <2>2, <2>3
<1>2. CASE Boot
  <2>1. rec' \in RecType
    BY <1>2, <1>x, Nulls DEF Boot, RecType
  <2> QED BY <1>2, <2>1, TuningAssumption DEF Boot, Types, os
<1>3. CASE RecoverResult
  <2>1. rec' \in RecType
    BY <1>3, <1>x, <1>y, Nulls DEF RecoverResult, RecType
  <2> QED BY <1>3, <2>1, Nulls DEF RecoverResult, Types, os
<1>4. CASE RecoverFinish
  <2>1. rec' \in RecType
    BY <1>4, Nulls DEF RecoverFinish, RecType
  <2>2. [MonOff EXCEPT !.pc = "loop"] \in MonType
    BY Nulls DEF MonType, Points
  <2> QED BY <1>4, <1>y, <2>1, <2>2, TuningAssumption DEF RecoverFinish, Fails, Types, os
<1>5. ASSUME NEW p \in Pids, RecoverDiscard(p) \/ RecoverUnresolved(p) PROVE Types'
  <2>1. rec' \in RecType
    <3>1. CASE RecoverDiscard(p) BY <3>1, <1>x, <1>y, Nulls DEF RecoverDiscard, RecoverDrop, RecType
    <3>2. CASE RecoverUnresolved(p) BY <3>2, <1>x, <1>y DEF RecoverUnresolved, RecType
    <3> QED BY <1>5, <3>1, <3>2
  <2> QED BY <1>5, <2>1, TuningAssumption DEF RecoverDiscard, RecoverUnresolved, Fails, Types, os
<1>6. ASSUME NEW p \in Pids, RecoverRestore(p) PROVE Types'
  <2>1. rec' \in RecType
    BY <1>6, <1>x, <1>y DEF RecoverRestore, RecType
  <2>2. RestoreCall({p}) \in RstType
    BY Nulls DEF RestoreCall, RstType
  <2>3. rec.pids[p].saved \in Attrs /\ born[p] # 0 /\ "jail" \in Sources
    BY <1>6, <1>y DEF RecoverRestore, Recovering, CallArgs, Settings, Recs, Sources
  <2>4. touched' \in [Pids -> Entries] /\ gen' \in 0..MaxGen
    BY <1>6, <2>3, NewEntry DEF RecoverRestore, Types
  <2> QED BY <1>6, <2>1, <2>2, <2>4 DEF RecoverRestore, Types, os
<1>7. CASE Shutdown
  <2>1. RestoreAllCall \in RstType
    BY Nulls, RstTypes DEF RestoreAllCall
  <2> QED BY <1>7, <1>x, <2>1 DEF Shutdown, ShutdownClose, ShutdownDrain, ShutdownDone, Types, os
<1>8. CASE ProcessEnd
  <2>1. UNCHANGED <<born, live, attr, jailFile, boots, faults>> /\ ForgetSession
    BY <1>8 DEF ProcessEnd, os
  <2>2. 0 \in 0..MaxGen
    BY TuningAssumption
  <2> QED BY <2>1, <2>2, Nulls DEF ForgetSession, Types
<1> QED BY <1>1, <1>2, <1>3, <1>4, <1>5, <1>6, <1>7, <1>8 DEF Recovery

-----------------------------------------------------------------------------
(* What the steps of the monitor do to its record *)

(* The fields of the monitor's locals after the updates of several fields at once. *)
LEMMA MonFields ==
  ASSUME NEW m \in MonType, NEW pc, NEW todo, NEW batch, NEW pid, NEW next, NEW fg, NEW recs
  PROVE  /\ LET n == [m EXCEPT !.pc = pc, !.todo = todo]
            IN  n.pc = pc /\ n.todo = todo /\ n.pid = m.pid /\ n.next = m.next /\ n.fg = m.fg /\ n.batch = m.batch
                /\ n.recs = m.recs /\ n.snap = m.snap
         /\ LET n == [m EXCEPT !.pc = pc, !.pid = pid, !.batch = batch]
            IN  n.pc = pc /\ n.todo = m.todo /\ n.pid = pid /\ n.next = m.next /\ n.fg = m.fg /\ n.batch = batch
                /\ n.recs = m.recs /\ n.snap = m.snap
         /\ LET n == [m EXCEPT !.pc = pc, !.pid = pid, !.next = next, !.todo = todo]
            IN  n.pc = pc /\ n.todo = todo /\ n.pid = pid /\ n.next = next /\ n.fg = m.fg /\ n.batch = m.batch
                /\ n.recs = m.recs /\ n.snap = m.snap
         /\ LET n == [m EXCEPT !.pc = pc, !.pid = pid, !.next = next, !.fg = fg]
            IN  n.pc = pc /\ n.todo = m.todo /\ n.pid = pid /\ n.next = next /\ n.fg = fg /\ n.batch = m.batch
                /\ n.recs = m.recs /\ n.snap = m.snap
         /\ LET n == [m EXCEPT !.pc = pc, !.batch = batch, !.recs = recs]
            IN  n.pc = pc /\ n.todo = m.todo /\ n.pid = m.pid /\ n.next = m.next /\ n.fg = m.fg /\ n.batch = batch
                /\ n.recs = recs /\ n.snap = m.snap
  BY DEF MonType

(* The monitor's locals at the start of a cycle. *)
LEMMA CycleFields ==
  /\ \A fg : LET n == NextCycle(fg)
             IN n.pc = "loop" /\ n.batch = {} /\ n.recs = EmptyFile /\ n.snap = NoSnap /\ n.fg = fg /\ n.pid = None
  /\ MonOff.pc = "off" /\ MonOff.batch = {} /\ MonOff.recs = EmptyFile /\ MonOff.snap = NoSnap /\ MonOff.fg = None
  BY DEF NextCycle, MonOff

(* The monitor enters a mutation of the process it has just opened. *)
Enters(p) ==
  /\ mon.pc \in {"optimize", "batch", "fgOpen", "fgBoost"} /\ live[p] /\ active' = 1 /\ gen < MaxGen
  /\ GateOpen \/ mon.pc = "fgOpen"
  /\ \/ mon.pc = "optimize" /\ mon'.pc = "boost" /\ mon'.next = "optimize" /\ Remember(p, "optimize_game")
     \/ mon.pc = "fgBoost" /\ mon'.pc = "boost" /\ mon'.next = "loop" /\ Remember(p, "foreground")
     \/ mon.pc = "batch" /\ mon'.pc = "apply" /\ mon'.next = "batch" /\ Remember(p, "jail")
     \/ mon.pc = "fgOpen" /\ mon'.pc = "apply" /\ mon'.next = "fgBoost" /\ Remember(p, "jail")
  /\ mon'.pid = p /\ mon'.batch = mon.batch /\ mon'.recs = mon.recs /\ mon'.snap = mon.snap
  /\ mon.pc # "fgBoost" => mon'.fg = mon.fg
  /\ UNCHANGED <<born, live, attr, jailFile, engine, games, rst, rec, boots, faults, excused>>

(* The four ways into a mutation are Enters. *)
LEMMA Entering ==
  ASSUME Types, MonShape, NEW p \in Pids
  PROVE  /\ OptimizeEnter(p) /\ GateOpen /\ live[p] /\ born[p] = mon.snap[p] => Enters(p)
         /\ BatchJail(p) /\ GateOpen /\ live[p] /\ born[p] = mon.snap[p] => Enters(p)
         /\ FgBoost(p) /\ mon'.pc # "loop" => Enters(p)
         /\ FgJailOpen /\ live[mon.fg] /\ gen < MaxGen => mon.fg \in Pids /\ Enters(mon.fg)
<1> USE DEF os
<1>x. mon \in MonType
  BY DEF Types
<1>1. OptimizeEnter(p) /\ GateOpen /\ live[p] /\ born[p] = mon.snap[p] => Enters(p)
  <2> SUFFICES ASSUME OptimizeEnter(p), GateOpen, live[p], born[p] = mon.snap[p] PROVE Enters(p)
    OBVIOUS
  <2>1. mon' = [mon EXCEPT !.pc = "boost", !.pid = p, !.next = "optimize", !.todo = mon.todo \ {p}]
    BY DEF OptimizeEnter
  <2> QED BY <2>1, <1>x, MonFields DEF OptimizeEnter, Enters, MonShape, Mutating
<1>2. BatchJail(p) /\ GateOpen /\ live[p] /\ born[p] = mon.snap[p] => Enters(p)
  <2> SUFFICES ASSUME BatchJail(p), GateOpen, live[p], born[p] = mon.snap[p] PROVE Enters(p)
    OBVIOUS
  <2>1. mon' = [mon EXCEPT !.pc = "apply", !.pid = p, !.next = "batch", !.todo = mon.todo \ {p}]
    BY DEF BatchJail
  <2> QED BY <2>1, <1>x, MonFields DEF BatchJail, Enters, MonShape, Mutating
<1>3. FgBoost(p) /\ mon'.pc # "loop" => Enters(p)
  <2> SUFFICES ASSUME FgBoost(p), mon'.pc # "loop" PROVE Enters(p)
    OBVIOUS
  <2>1. /\ mon' = [mon EXCEPT !.pc = "boost", !.pid = p, !.next = "loop", !.fg = p]
        /\ GateOpen /\ live[p] /\ gen < MaxGen /\ Remember(p, "foreground") /\ active' = active + 1
    BY CycleFields DEF FgBoost
  <2> QED BY <2>1, <1>x, MonFields DEF FgBoost, Enters, MonShape, Mutating
<1>4. FgJailOpen /\ live[mon.fg] /\ gen < MaxGen => mon.fg \in Pids /\ Enters(mon.fg)
  <2> SUFFICES ASSUME FgJailOpen, live[mon.fg], gen < MaxGen PROVE mon.fg \in Pids /\ Enters(mon.fg)
    OBVIOUS
  <2>1. mon' = [mon EXCEPT !.pc = "apply", !.pid = mon.fg, !.next = "fgBoost"]
    BY DEF FgJailOpen
  <2>2. /\ mon'.pc = "apply" /\ mon'.pid = mon.fg /\ mon'.next = "fgBoost" /\ mon'.batch = mon.batch
        /\ mon'.recs = mon.recs /\ mon'.snap = mon.snap /\ mon'.fg = mon.fg
    BY <2>1, <1>x DEF MonType
  <2> QED BY <2>2 DEF FgJailOpen, Enters, MonShape, Mutating
<1> QED BY <1>1, <1>2, <1>3, <1>4

(* A step of the monitor that leaves the processes, their entries and their records alone. *)
Aside ==
  /\ UNCHANGED <<born, live, attr, jailFile, engine, touched, gen, rst, rec, boots, faults, excused>>
  /\ mon'.recs \in {mon.recs, EmptyFile}
  /\ mon'.pc \notin {"boost", "apply", "undo", "load", "save", "closing", "leaving"}
  /\ mon'.pc = "capture" => mon.pc = "batch" /\ mon'.next = "fg" /\ mon'.batch = mon.batch
  /\ mon'.pc = "fgOpen" => mon.pc = "fgJail" /\ GateOpen /\ mon'.fg = mon.fg /\ mon.fg # None /\ FgNameOk
  /\ mon'.pc # "off" => mon.pc # "off"
  /\ mon'.pc \in {"observe", "cleanup"} => mon.pc \in {"loop", "observe"}
  /\ mon.pc \notin {"boost", "apply", "load", "save"}
  /\ mon.pc \in {"closing", "leaving", "undo"} => rst["mon"].pc = "idle"
  /\ mon'.batch \in {{}, mon.batch}
  /\ mon'.batch # mon.batch => mon.pc = "capture" /\ \A p \in mon.batch : touched[p].source # "jail"
  /\ mon'.batch # {} => mon'.pc \in {"batch", "capture"}
  /\ active' = IF mon'.pc = "fgOpen" THEN 1 ELSE 0

(* The steps that Aside describes. *)
LEMMA AsideSteps ==
  ASSUME Types, MonShape, Stages
  PROVE  /\ MonExit \/ MonSnapshot \/ MonObserve \/ MonCleanupNotDue \/ MonNoneClosed \/ MonClosedRestored => Aside
         /\ MonJailBatch \/ MonLeft \/ MonModeIdle \/ JailUndone \/ BatchEnd \/ FgSame \/ FgJailName => Aside
         /\ FgJailOpen /\ ~(live[mon.fg] /\ gen < MaxGen) => Aside
         /\ RecordCapture /\ mon'.pc # "load" => Aside
         /\ \A p \in Pids : /\ OptimizeEnter(p) => Aside \/ Enters(p)
                            /\ BatchJail(p) => Aside \/ Enters(p)
                            /\ FgBoost(p) => Aside \/ Enters(p)
                            /\ FgChange(p) => Aside
<1> USE CycleFields DEF os, Aside, MonShape, Mutating, MonGo
<1>x. mon \in MonType
  BY DEF Types
<1>1. CASE MonExit
  BY <1>1, <1>x DEF MonExit, Stages
<1>2. CASE MonSnapshot
  BY <1>2, <1>x DEF MonSnapshot, MonType
<1>3. CASE MonObserve
  BY <1>3, <1>x DEF MonObserve, MonType
<1>4. CASE MonCleanupNotDue \/ MonNoneClosed \/ MonClosedRestored \/ MonLeft \/ MonModeIdle \/ FgJailName
  BY <1>4, <1>x DEF MonCleanupNotDue, MonNoneClosed, MonClosedRestored, MonLeft, MonModeIdle, FgJailName, MonType
<1>5. CASE MonJailBatch
  BY <1>5, <1>x DEF MonJailBatch, MonType
<1>6. CASE JailUndone
  BY <1>6, <1>x DEF JailUndone, MonType
<1>7. CASE BatchEnd
  BY <1>7, <1>x DEF BatchEnd, MonType
<1>8. CASE FgSame
  BY <1>8, <1>x DEF FgSame, MonType
<1>9. CASE FgJailOpen /\ ~(live[mon.fg] /\ gen < MaxGen)
  BY <1>9, <1>x DEF FgJailOpen, MonType
<1>10. CASE RecordCapture /\ mon'.pc # "load"
  <2> DEFINE recs == [p \in Pids |-> IF p \in {q \in mon.batch : touched[q].source = "jail"}
                                     THEN [ct |-> touched[p].ct, saved |-> touched[p].saved] ELSE NoRec]
             new == [mon EXCEPT !.pc = "load", !.batch = {}, !.recs = recs]
  <2>0. new.pc = "load"
    <3> HIDE DEF recs
    <3> QED BY <1>x, MonFields
  <2>1. {p \in mon.batch : touched[p].source = "jail"} = {}
    <3>1. \/ {p \in mon.batch : touched[p].source = "jail"} = {}
          \/ mon' = new
      BY <1>10 DEF RecordCapture
    <3> HIDE DEF new
    <3> QED BY <3>1, <2>0, <1>10
  <2>2. mon' = [mon EXCEPT !.pc = mon.next, !.batch = {}, !.recs = EmptyFile]
        /\ active' = IF mon.next = "fgBoost" THEN active - 1 ELSE active
    BY <1>10, <2>1 DEF RecordCapture, RecordDone
  <2>3. mon'.pc = mon.next /\ mon'.batch = {} /\ mon'.recs = EmptyFile
    BY <2>2, <1>x, MonFields
  <2> QED BY <1>10, <2>1, <2>2, <2>3 DEF RecordCapture
<1>11. ASSUME NEW p \in Pids, OptimizeEnter(p) PROVE Aside \/ Enters(p)
  <2>1. CASE ~(GateOpen /\ live[p] /\ born[p] = mon.snap[p])
    BY <1>11, <2>1, <1>x DEF OptimizeEnter, MonType
  <2> QED BY <1>11, <2>1, Entering
<1>12. ASSUME NEW p \in Pids, BatchJail(p) PROVE Aside \/ Enters(p)
  <2>1. CASE ~(GateOpen /\ live[p] /\ born[p] = mon.snap[p])
    BY <1>12, <2>1, <1>x DEF BatchJail, MonType
  <2> QED BY <1>12, <2>1, Entering
<1>13. ASSUME NEW p \in Pids, FgBoost(p) PROVE Aside \/ Enters(p)
  <2>1. CASE mon'.pc = "loop"
    <3>1. [mon EXCEPT !.pc = "boost", !.pid = p, !.next = "loop", !.fg = p].pc = "boost"
      BY <1>x, MonFields
    <3>2. mon' = NextCycle(p) /\ UNCHANGED <<touched, gen, active>>
      BY <1>13, <2>1, <3>1 DEF FgBoost
    <3> QED BY <1>13, <3>2 DEF FgBoost
  <2> QED BY <1>13, <2>1, Entering
<1>14. ASSUME NEW p \in Pids, FgChange(p) PROVE Aside
  <2>1. CASE mon' = [mon EXCEPT !.pc = "fgJail", !.todo = {p}]
    BY <1>14, <2>1, <1>x, MonFields DEF FgChange
  <2>2. CASE mon' = NextCycle(p)
    BY <1>14, <2>2 DEF FgChange
  <2> QED BY <1>14, <2>1, <2>2 DEF FgChange
<1> QED BY <1>1, <1>2, <1>3, <1>4, <1>5, <1>6, <1>7, <1>8, <1>9, <1>10, <1>11, <1>12, <1>13, <1>14

(* The batch, or the process the foreground left, is handed over to be recorded. *)
Captured ==
  /\ mon.pc = "capture" /\ mon'.pc = "load" /\ mon'.batch = {} /\ mon'.next = mon.next /\ mon'.snap = mon.snap
  /\ mon'.fg = mon.fg
  /\ mon'.recs = [p \in Pids |-> IF p \in mon.batch /\ touched[p].source = "jail"
                                 THEN [ct |-> touched[p].ct, saved |-> touched[p].saved] ELSE NoRec]
  /\ UNCHANGED <<born, live, attr, jailFile, engine, touched, gen, active, games, rst, rec, boots, faults, excused>>

(* Handing over a batch that has something to record is Captured. *)
LEMMA Capturing == ASSUME mon \in MonType, RecordCapture, mon'.pc = "load", mon.next # "load" PROVE Captured
<1> DEFINE recs == [p \in Pids |-> IF p \in {q \in mon.batch : touched[q].source = "jail"}
                                   THEN [ct |-> touched[p].ct, saved |-> touched[p].saved] ELSE NoRec]
<1>1. \/ mon' = [mon EXCEPT !.pc = "load", !.batch = {}, !.recs = recs] /\ UNCHANGED active
      \/ mon' = [mon EXCEPT !.pc = mon.next, !.batch = {}, !.recs = EmptyFile]
  BY DEF RecordCapture, RecordDone
<1>2. recs = [p \in Pids |-> IF p \in mon.batch /\ touched[p].source = "jail"
                             THEN [ct |-> touched[p].ct, saved |-> touched[p].saved] ELSE NoRec]
  OBVIOUS
<1> HIDE DEF recs
<1>3. /\ mon' = [mon EXCEPT !.pc = "load", !.batch = {}, !.recs = recs] /\ UNCHANGED active
  <2>1. [mon EXCEPT !.pc = mon.next, !.batch = {}, !.recs = EmptyFile].pc = mon.next
    BY MonFields
  <2> QED BY <1>1, <2>1
<1>4. mon'.pc = "load" /\ mon'.batch = {} /\ mon'.recs = recs /\ mon'.next = mon.next /\ mon'.snap = mon.snap
      /\ mon'.fg = mon.fg
  BY <1>3, MonFields
<1> QED BY <1>2, <1>3, <1>4 DEF RecordCapture, Captured, os

(* The process of the mutation is tuned: boosted, throttled, or throttled in part. *)
Tunes ==
  LET p == mon.pid IN
  /\ mon.pc \in {"boost", "apply"}
  /\ attr' \in {attr, [attr EXCEPT ![p] = Jailed], [attr EXCEPT ![p] = Boosted]}
  /\ attr' # attr => live[p]
  /\ attr'[p] = Jailed => attr[p] = Jailed \/ mon.pc = "apply"
  /\ \/ /\ mon.pc = "boost" /\ mon'.pc = mon.next /\ active' = 0 /\ mon'.batch \in {{}, mon.batch} /\ UNCHANGED rst
     \/ /\ mon.pc = "apply" /\ mon.next = "batch" /\ mon'.pc = "batch" /\ active' = 0
        /\ mon'.batch = mon.batch \cup {p} /\ UNCHANGED rst
     \/ /\ mon.pc = "apply" /\ mon.next # "batch" /\ mon'.pc = "capture" /\ active' = active
        /\ mon'.batch = {p} /\ mon'.next = mon.next /\ UNCHANGED rst
     \/ /\ mon.pc = "apply" /\ mon'.pc = "undo" /\ active' = active /\ mon'.pid = p
        /\ mon'.batch = mon.batch /\ mon'.next = mon.next /\ rst' = [rst EXCEPT !["mon"] = RestoreCall({p})]
  /\ mon'.recs \in {mon.recs, EmptyFile} /\ (mon'.fg = mon.fg)
  /\ UNCHANGED <<born, live, jailFile, engine, touched, gen, games, rec, boots, excused>>

(* The setters of a boost and of a jail are Tunes. *)
LEMMA Tuning ==
  ASSUME Types, MonShape, Boost \/ JailApply \/ JailApplyFails
  PROVE  Tunes
<1>x. mon \in MonType /\ mon.pid \in Pids /\ mon.next # "boost" /\ Jailed # Boosted /\ attr \in [Pids -> Attrs]
  BY TuningAssumption DEF Types, MonShape, Boost, JailApply, JailApplyFails, Jailed, Boosted
<1> USE DEF Tunes
<1>1. CASE Boost
  <2>1. attr' # attr => live[mon.pid]
    BY <1>1 DEF Boost
  <2>2. attr' \in {attr, [attr EXCEPT ![mon.pid] = Boosted]}
    BY <1>1 DEF Boost
  <2>3. attr'[mon.pid] = Jailed => attr[mon.pid] = Jailed
    BY <2>2, <1>x
  <2>4. /\ mon'.pc = mon.next /\ mon'.batch \in {{}, mon.batch} /\ mon'.recs \in {mon.recs, EmptyFile}
        /\ mon'.fg = mon.fg
    BY <1>1, <1>x, CycleFields DEF Boost, MonShape, MonType
  <2> QED BY <1>1, <2>1, <2>2, <2>3, <2>4 DEF Boost, MonShape, Mutating
<1>2. CASE JailApply
  <2>1. attr' = [attr EXCEPT ![mon.pid] = Jailed] /\ live[mon.pid]
    BY <1>2 DEF JailApply
  <2>2. CASE mon.next = "batch"
    <3>1. mon' = [mon EXCEPT !.pc = "batch", !.pid = None, !.batch = mon.batch \cup {mon.pid}]
      BY <1>2, <2>2 DEF JailApply
    <3>2. mon'.pc = "batch" /\ mon'.batch = mon.batch \cup {mon.pid} /\ mon'.recs = mon.recs /\ mon'.fg = mon.fg
      BY <3>1, <1>x, MonFields
    <3> QED BY <1>2, <2>1, <2>2, <3>2 DEF JailApply, MonShape, Mutating
  <2>3. CASE mon.next # "batch"
    <3>1. mon' = [mon EXCEPT !.pc = "capture", !.pid = None, !.batch = {mon.pid}]
      BY <1>2, <2>3 DEF JailApply
    <3>2. mon'.pc = "capture" /\ mon'.batch = {mon.pid} /\ mon'.recs = mon.recs /\ mon'.next = mon.next
          /\ mon'.fg = mon.fg
      BY <3>1, <1>x, MonFields
    <3> QED BY <1>2, <2>1, <2>3, <3>2 DEF JailApply, MonShape, Mutating
  <2> QED BY <2>2, <2>3
<1>3. CASE JailApplyFails
  <2>1. mon'.pc = "undo" /\ mon'.batch = mon.batch /\ mon'.recs = mon.recs /\ mon'.next = mon.next
        /\ mon'.pid = mon.pid
        /\ mon'.fg = mon.fg
    BY <1>3, <1>x DEF JailApplyFails, MonGo, MonType
  <2> QED BY <1>3, <2>1 DEF JailApplyFails
<1> QED BY <1>1, <1>2, <1>3

(* The merged records go to disk, or do not. *)
Records ==
  /\ mon.pc = "save" /\ mon'.pc = mon.next /\ mon'.batch = {} /\ mon'.recs = EmptyFile /\ mon'.fg = mon.fg
  /\ active' = 0
  /\ \/ jailFile' = mon.recs /\ UNCHANGED excused
     \/ /\ jailFile' = jailFile
        /\ excused' = excused \cup {Proc(p) : p \in {q \in Pids : mon.recs[q] # NoRec /\ mon.recs[q].ct = born[q]}}
  /\ UNCHANGED <<born, live, attr, engine, touched, gen, games, rst, rec, boots>>

(* Writing the merged records is Records. *)
LEMMA Recording == ASSUME Types, MonShape, RecordSave PROVE Records
<1>1. mon'.pc = mon.next /\ mon'.batch = {} /\ mon'.recs = EmptyFile /\ mon'.fg = mon.fg
  BY MonFields DEF Types, RecordSave, RecordDone
<1> QED BY <1>1 DEF RecordSave, RecordDone, Records, MonShape, Mutating, os

(* The records of the batch are merged with what the file holds. *)
Merges ==
  /\ mon.pc = "load" /\ mon'.pc = "save" /\ mon'.batch = mon.batch /\ mon'.next = mon.next /\ mon'.fg = mon.fg
  /\ mon'.recs = [p \in Pids |-> IF mon.recs[p] # NoRec THEN mon.recs[p] ELSE jailFile[p]]
  /\ UNCHANGED <<born, live, attr, jailFile, engine, touched, gen, active, games, rst, rec, boots, faults, excused>>

(* A restore of closed games, or of everybody, is called. *)
Calling ==
  /\ mon.pc \in {"optimize", "mode"} /\ mon'.recs = mon.recs /\ mon'.batch = mon.batch /\ mon'.fg = mon.fg
  /\ \/ mon'.pc = "closing" /\ \E ps \in SUBSET Pids : rst' = [rst EXCEPT !["mon"] = RestoreCall(ps)]
     \/ mon'.pc = "leaving" /\ rst' = [rst EXCEPT !["mon"] = RestoreAllCall]
  /\ UNCHANGED <<born, live, attr, jailFile, engine, touched, gen, active, games, rec, boots, faults, excused>>

(* Entries of pids that the snapshot did not hold go. *)
Cleans ==
  /\ mon.pc = "cleanup" /\ mon'.pc = "optimize" /\ mon'.recs = mon.recs /\ mon'.batch = mon.batch /\ mon'.fg = mon.fg
  /\ touched' = [p \in Pids |-> IF mon.snap[p] = 0 /\ p \notin games THEN NoEntry ELSE touched[p]]
  /\ UNCHANGED <<born, live, attr, jailFile, engine, gen, active, games, rst, rec, boots, faults, excused>>

(* Every step of the monitor is of one of eight kinds. *)
LEMMA MonitorSteps ==
  ASSUME Types, MonShape, Stages, Monitor
  PROVE  Aside \/ (\E p \in Pids : Enters(p)) \/ Cleans \/ Calling \/ Tunes \/ Captured \/ Merges \/ Records
<1>x. mon \in MonType
  BY DEF Types
<1>1. CASE MonCleanup
  BY <1>1, <1>x DEF MonCleanup, MonGo, MonType, Cleans, os
<1>2. CASE MonRestoreClosed
  <2>1. /\ mon'.pc = "closing" /\ mon'.recs = mon.recs /\ mon'.batch = mon.batch /\ mon'.fg = mon.fg
        /\ mon.closed \in SUBSET Pids
    BY <1>2, <1>x DEF MonRestoreClosed, MonType
  <2>2. \E ps \in SUBSET Pids : rst' = [rst EXCEPT !["mon"] = RestoreCall(ps)]
    BY <1>2, <2>1 DEF MonRestoreClosed
  <2> QED BY <1>2, <2>1, <2>2 DEF MonRestoreClosed, Calling, os
<1>3. CASE MonLeaveGameMode
  <2>1. mon'.pc = "leaving" /\ mon'.recs = mon.recs /\ mon'.batch = mon.batch /\ mon'.fg = mon.fg
    BY <1>3, <1>x DEF MonLeaveGameMode, MonType
  <2> QED BY <1>3, <2>1 DEF MonLeaveGameMode, Calling, os
<1>4. CASE RecordLoad
  <2> DEFINE recs == [p \in Pids |-> IF mon.recs[p] # NoRec THEN mon.recs[p] ELSE jailFile[p]]
  <2>1. mon' = [mon EXCEPT !.pc = "save", !.recs = recs]
    BY <1>4 DEF RecordLoad
  <2> HIDE DEF recs
  <2>2. mon'.pc = "save" /\ mon'.batch = mon.batch /\ mon'.next = mon.next /\ mon'.fg = mon.fg /\ mon'.recs = recs
    BY <2>1, <1>x DEF MonType
  <2> QED BY <1>4, <2>2 DEF RecordLoad, Merges, os, recs
<1>5. CASE RecordCapture
  <2>1. mon.next # "load"
    BY <1>5 DEF RecordCapture, MonShape
  <2> QED BY <1>5, <1>x, <2>1, Capturing, AsideSteps
<1>6. CASE FgJailOpen
  <2>1. CASE live[mon.fg] /\ gen < MaxGen
    <3>1. mon.fg \in Pids
      BY <1>6 DEF FgJailOpen, MonShape
    <3> QED BY <1>6, <2>1, <3>1, Entering
  <2> QED BY <1>6, <2>1, AsideSteps
<1>7. ASSUME NEW p \in Pids, OptimizeEnter(p) \/ BatchJail(p) \/ FgChange(p) \/ FgBoost(p)
      PROVE  Aside \/ Enters(p)
  BY <1>7, AsideSteps
<1>8. CASE MonExit \/ MonSnapshot \/ MonObserve \/ MonCleanupNotDue \/ MonNoneClosed \/ MonClosedRestored
           \/ MonJailBatch \/ MonLeft \/ MonModeIdle \/ JailUndone \/ BatchEnd \/ FgSame \/ FgJailName
  BY <1>8, AsideSteps
<1> QED
  BY <1>1, <1>2, <1>3, <1>4, <1>5, <1>6, <1>7, <1>8, Tuning, Recording DEF Monitor

(* The snapshot holds a pid's present process, or what it held, or nothing. *)
LEMMA SnapSteps ==
  ASSUME Types, Monitor PROVE \A p \in Pids : mon'.snap[p] \in {mon.snap[p], born[p], 0}
<1>x. mon \in MonType /\ \A p \in Pids : NoSnap[p] = 0
  BY DEF Types, NoSnap
<1>1. CASE MonSnapshot
  <2>1. mon'.snap = [p \in Pids |-> IF live[p] THEN born[p] ELSE 0]
    BY <1>1, <1>x DEF MonSnapshot, MonType
  <2> QED BY <2>1
<1>2. CASE MonExit \/ FgSame
  BY <1>2, <1>x, CycleFields DEF MonExit, FgSame
<1>3. CASE MonObserve \/ MonCleanup \/ MonCleanupNotDue \/ MonNoneClosed \/ MonRestoreClosed \/ MonClosedRestored
           \/ MonJailBatch \/ MonLeaveGameMode \/ MonLeft \/ MonModeIdle
  BY <1>3, <1>x DEF MonObserve, MonCleanup, MonCleanupNotDue, MonNoneClosed, MonRestoreClosed, MonClosedRestored,
       MonJailBatch, MonLeaveGameMode, MonLeft, MonModeIdle, MonGo, MonType
<1>4. CASE Boost \/ JailApplyFails \/ JailUndone \/ BatchEnd
  <2>1. CASE Boost BY <2>1, <1>x, CycleFields DEF Boost, MonType
  <2>2. CASE JailApplyFails BY <2>2, <1>x DEF JailApplyFails, MonGo, MonType
  <2>3. CASE JailUndone BY <2>3, <1>x DEF JailUndone, MonType
  <2>4. CASE BatchEnd BY <2>4, <1>x DEF BatchEnd, MonType
  <2> QED BY <1>4, <2>1, <2>2, <2>3, <2>4
<1>8. CASE JailApply
  <2>1. \/ mon' = [mon EXCEPT !.pc = "batch", !.pid = None, !.batch = mon.batch \cup {mon.pid}]
        \/ mon' = [mon EXCEPT !.pc = "capture", !.pid = None, !.batch = {mon.pid}]
    BY <1>8 DEF JailApply
  <2>2. mon'.snap = mon.snap
    <3>1. CASE mon' = [mon EXCEPT !.pc = "batch", !.pid = None, !.batch = mon.batch \cup {mon.pid}]
      BY <3>1, <1>x, MonFields
    <3>2. CASE mon' = [mon EXCEPT !.pc = "capture", !.pid = None, !.batch = {mon.pid}]
      BY <3>2, <1>x, MonFields
    <3> QED BY <2>1, <3>1, <3>2
  <2> QED BY <2>2
<1>5. CASE RecordLoad \/ RecordSave \/ RecordCapture
  BY <1>5, <1>x DEF RecordLoad, RecordSave, RecordCapture, RecordDone, MonType
<1>6. CASE FgJailName \/ FgJailOpen
  BY <1>6, <1>x DEF FgJailName, FgJailOpen, MonGo, MonType
<1>7. ASSUME NEW q \in Pids, OptimizeEnter(q) \/ BatchJail(q) \/ FgChange(q) \/ FgBoost(q)
      PROVE  mon'.snap = mon.snap \/ mon'.snap = NoSnap
  <2>1. CASE OptimizeEnter(q) BY <2>1, <1>x DEF OptimizeEnter, MonType
  <2>2. CASE BatchJail(q)
    <3>1. \/ mon' = [mon EXCEPT !.pc = "apply", !.pid = q, !.next = "batch", !.todo = mon.todo \ {q}]
          \/ mon' = [mon EXCEPT !.todo = mon.todo \ {q}]
      BY <2>2 DEF BatchJail
    <3>2. [mon EXCEPT !.pc = "apply", !.pid = q, !.next = "batch", !.todo = mon.todo \ {q}].snap = mon.snap
      BY <1>x, MonFields
    <3>3. [mon EXCEPT !.todo = mon.todo \ {q}].snap = mon.snap
      BY <1>x DEF MonType
    <3> QED BY <3>1, <3>2, <3>3
  <2>3. CASE FgChange(q)
    <3>1. [mon EXCEPT !.pc = "fgJail", !.todo = {q}].snap = mon.snap
      BY <1>x, MonFields
    <3> QED BY <2>3, <3>1, CycleFields DEF FgChange
  <2>4. CASE FgBoost(q)
    <3>1. [mon EXCEPT !.pc = "boost", !.pid = q, !.next = "loop", !.fg = q].snap = mon.snap
      BY <1>x, MonFields
    <3> QED BY <2>4, <3>1, CycleFields DEF FgBoost
  <2> QED BY <1>7, <2>1, <2>2, <2>3, <2>4
<1> QED BY <1>x, <1>1, <1>2, <1>3, <1>4, <1>5, <1>6, <1>7, <1>8 DEF Monitor

-----------------------------------------------------------------------------
(* What the steps of a restore call do to its record *)

(* The fields of a restore call after each of its steps. *)
LEMMA RestoreFields ==
  ASSUME Types, NEW t \in Threads
  PROVE  LET r == rst[t] n == rst'[t] IN
         /\ RestoreStep(t) => n.all = r.all \/ n.pc = "idle"
         /\ \A p \in Pids : RestoreRead(t, p) =>
              /\ n.todo = r.todo \ {p} /\ n.file = r.file /\ n.ok = r.ok
              /\ \/ touched[p] = NoEntry /\ n.pc = "next" /\ n.pid = r.pid /\ n.entry = r.entry
                 \/ touched[p] # NoEntry /\ n.pc = "open" /\ n.pid = p /\ n.entry = touched[p]
         /\ RestoreGone(t) \/ RestoreAttrsFails(t) =>
              n.pc = "next" /\ n.todo = r.todo /\ n.entry = NoEntry /\ n.file = r.file /\ n.ok = r.ok
         /\ RestoreAttrs(t) =>
              n.pc = "drop" /\ n.pid = r.pid /\ n.todo = r.todo /\ n.entry = r.entry /\ n.file = r.file /\ n.ok = r.ok
         /\ RestoreDrop(t) =>
              /\ n.todo = r.todo /\ n.entry = NoEntry /\ n.file = r.file /\ n.ok = TRUE
              /\ \/ n.pc = "load" /\ n.pid = r.pid /\ SameGen(t) /\ touched[r.pid].source = "jail"
                 \/ n.pc = "next" /\ ~(SameGen(t) /\ touched[r.pid].source = "jail")
         /\ RemoveLoad(t) =>
              /\ n.todo = r.todo /\ n.entry = r.entry /\ n.ok = r.ok
              /\ \/ n.pc = "next" /\ n.file = r.file
                 \/ n.pc = "save" /\ n.pid = r.pid /\ n.file = [jailFile EXCEPT ![r.pid] = NoRec]
         /\ RemoveSave(t) => n.pc = "next" /\ n.todo = r.todo /\ n.entry = r.entry /\ n.file = EmptyFile
            /\ n.ok = r.ok
         /\ RestoreEnd(t) =>
              n.pc = "idle" /\ n.pid = None /\ n.todo = {} /\ n.entry = NoEntry /\ n.file = EmptyFile /\ n.ok = r.ok
<1>x. rst \in [Threads -> RstType] /\ rst[t] \in RstType
  BY DEF Types
<1> DEFINE r == rst[t] n == rst'[t]
<1>1. ASSUME NEW p \in Pids, RestoreRead(t, p)
      PROVE  /\ n.all = r.all /\ n.todo = r.todo \ {p} /\ n.file = r.file /\ n.ok = r.ok
             /\ \/ touched[p] = NoEntry /\ n.pc = "next" /\ n.pid = r.pid /\ n.entry = r.entry
                \/ touched[p] # NoEntry /\ n.pc = "open" /\ n.pid = p /\ n.entry = touched[p]
  <2>1. CASE touched[p] = NoEntry
    <3>1. n = [r EXCEPT !.todo = r.todo \ {p}]
      BY <1>1, <2>1, <1>x DEF RestoreRead
    <3> QED BY <1>1, <2>1, <3>1, <1>x DEF RestoreRead, RstType
  <2>2. CASE touched[p] # NoEntry
    <3>1. n = [r EXCEPT !.pc = "open", !.pid = p, !.entry = touched[p], !.todo = r.todo \ {p}]
      BY <1>1, <2>2, <1>x DEF RestoreRead
    <3> QED BY <2>2, <3>1, <1>x DEF RstType
  <2> QED BY <2>1, <2>2
<1>2. ASSUME RestoreGone(t) \/ RestoreAttrsFails(t)
      PROVE  n.all = r.all /\ n.pc = "next" /\ n.todo = r.todo /\ n.entry = NoEntry /\ n.file = r.file /\ n.ok = r.ok
  <2>1. n = [r EXCEPT !.pc = "next", !.pid = None, !.entry = NoEntry]
    BY <1>2, <1>x DEF RestoreGone, RestoreAttrsFails
  <2> QED BY <2>1, <1>x DEF RstType
<1>3. ASSUME RestoreAttrs(t)
      PROVE  /\ n.all = r.all /\ n.pc = "drop" /\ n.pid = r.pid /\ n.todo = r.todo /\ n.entry = r.entry
             /\ n.file = r.file /\ n.ok = r.ok
  BY <1>3, <1>x DEF RestoreAttrs, RstType
<1>4. ASSUME RestoreDrop(t)
      PROVE  /\ n.all = r.all /\ n.todo = r.todo /\ n.entry = NoEntry /\ n.file = r.file /\ n.ok = TRUE
             /\ \/ n.pc = "load" /\ n.pid = r.pid /\ SameGen(t) /\ touched[r.pid].source = "jail"
                \/ n.pc = "next" /\ ~(SameGen(t) /\ touched[r.pid].source = "jail")
  BY <1>4, <1>x DEF RestoreDrop, RstType
<1>5. ASSUME RemoveLoad(t)
      PROVE  /\ n.all = r.all /\ n.todo = r.todo /\ n.entry = r.entry /\ n.ok = r.ok
             /\ \/ n.pc = "next" /\ n.file = r.file
                \/ n.pc = "save" /\ n.pid = r.pid /\ n.file = [jailFile EXCEPT ![r.pid] = NoRec]
  BY <1>5, <1>x DEF RemoveLoad, RstType
<1>6. ASSUME RemoveSave(t)
      PROVE  /\ n.all = r.all /\ n.pc = "next" /\ n.todo = r.todo /\ n.entry = r.entry /\ n.file = EmptyFile
      /\ n.ok = r.ok
  BY <1>6, <1>x DEF RemoveSave, RstType
<1>7. ASSUME RestoreEnd(t)
      PROVE  n.pc = "idle" /\ n.pid = None /\ n.todo = {} /\ n.entry = NoEntry /\ n.file = EmptyFile /\ n.ok = r.ok
  BY <1>7, <1>x DEF RestoreEnd, RstIdle
<1> QED
  BY <1>1, <1>2, <1>3, <1>4, <1>5, <1>6, <1>7 DEF RestoreStep

(* What a restore call leaves alone: the other thread's, and the entry and the file except *)
(* where it says so.                                                                       *)
LEMMA RestoreLocal ==
  ASSUME Types, NEW t \in Threads, RestoreStep(t)
  PROVE  /\ \A u \in Threads : u # t => rst'[u] = rst[u]
         /\ UNCHANGED <<born, live, engine, gen, active, games, mon, rec, boots>>
         /\ \A p \in Pids : touched'[p] = touched[p]
            \/ (touched'[p] = NoEntry /\ p = rst[t].pid /\ SameGen(t) /\ Held(t))
         /\ jailFile' = jailFile \/ (jailFile' = rst[t].file /\ RemoveSave(t))
            \/ (jailFile' = EmptyFile /\ RestoreEnd(t) /\ rst[t].all)
         /\ attr' = attr \/ RestoreAttrs(t)
         /\ excused \subseteq excused'
<1>1. \A u \in Threads : u # t => rst'[u] = rst[u]
  BY RstSteps DEF Types
<1>2. /\ UNCHANGED <<born, live, engine, gen, active, games, mon, rec, boots>>
      /\ attr' = attr \/ RestoreAttrs(t)
      /\ excused \subseteq excused'
  BY DEF RestoreStep, RestoreRead, RestoreGone, RestoreAttrs, RestoreAttrsFails, RestoreDrop, RemoveLoad,
         RemoveSave, RestoreEnd, os
<1>3. jailFile' = jailFile \/ (jailFile' = rst[t].file /\ RemoveSave(t))
      \/ (jailFile' = EmptyFile /\ RestoreEnd(t) /\ rst[t].all)
  BY DEF RestoreStep, RestoreRead, RestoreGone, RestoreAttrs, RestoreAttrsFails, RestoreDrop, RemoveLoad,
         RemoveSave, RestoreEnd, os
<1>4. touched' = touched \/ (PopSame(t) /\ Held(t))
  BY DEF RestoreStep, RestoreRead, RestoreGone, RestoreAttrs, RestoreAttrsFails, RestoreDrop, RemoveLoad,
         RemoveSave, RestoreEnd, os, Held
<1>5. touched' = touched \/ (touched' = [touched EXCEPT ![rst[t].pid] = NoEntry] /\ SameGen(t) /\ Held(t))
  BY <1>4 DEF PopSame
<1>6. \A p \in Pids : touched'[p] = touched[p] \/ (touched'[p] = NoEntry /\ p = rst[t].pid /\ SameGen(t) /\ Held(t))
  BY <1>5 DEF Types
<1> QED BY <1>1, <1>2, <1>3, <1>6

(* The fields of a restore call that starts, and of none. *)
LEMMA CallFields ==
  /\ \A ps : LET n == RestoreCall(ps)
             IN n.pc = "next" /\ n.todo = ps /\ n.entry = NoEntry /\ n.all = FALSE /\ n.file = EmptyFile
             /\ n.ok = FALSE
  /\ LET n == RestoreAllCall
     IN n.pc = "next" /\ n.todo = {p \in Pids : touched[p] # NoEntry} /\ n.entry = NoEntry /\ n.all = TRUE
        /\ n.file = EmptyFile /\ n.ok = FALSE
  /\ RstIdle.pc = "idle" /\ RstIdle.entry = NoEntry /\ RstIdle.file = EmptyFile /\ ~RstIdle.all /\ RstIdle.todo = {}
  /\ ~RstIdle.ok
  BY DEF RestoreCall, RestoreAllCall, RstIdle

-----------------------------------------------------------------------------
(* What the steps of recovery do to its record *)

(* The locals of recovery after each of its steps. *)
LEMMA RecFields ==
  ASSUME Types
  PROVE  /\ Boot => rec'.pids = jailFile /\ rec'.todo = {p \in Pids : jailFile[p] # NoRec} /\ rec'.pid = None
                    /\ rec'.unresolved = FALSE
         /\ RecoverResult => /\ rec'.pid = None /\ rec'.todo = rec.todo
                             /\ rec'.pids = IF rst["main"].ok THEN [rec.pids EXCEPT ![rec.pid] = NoRec] ELSE rec.pids
                             /\ rec'.unresolved = (rec.unresolved \/ ~rst["main"].ok)
         /\ RecoverFinish => /\ rec'.pid = None /\ rec'.todo = {} /\ rec'.pids = EmptyFile
                             /\ \/ engine' = "refused" /\ rec'.unresolved /\ mon' = mon
                                \/ /\ engine' = "running" /\ ~rec'.unresolved /\ ~rec.unresolved
                                   /\ jailFile' = EmptyFile
                                   /\ mon'.pc = "loop" /\ mon'.batch = {} /\ mon'.recs = EmptyFile
                                   /\ mon'.snap = NoSnap
                                   /\ mon'.fg = None
         /\ \A p \in Pids :
              /\ RecoverDiscard(p) => /\ rec'.pid = rec.pid /\ rec'.todo = rec.todo \ {p}
                                      /\ rec'.unresolved = rec.unresolved
                                      /\ rec'.pids = [rec.pids EXCEPT ![p] = NoRec]
              /\ RecoverUnresolved(p) => /\ rec'.pid = rec.pid /\ rec'.todo = rec.todo \ {p} /\ rec'.unresolved
                                         /\ rec'.pids = rec.pids
              /\ RecoverRestore(p) => /\ rec'.pid = p /\ rec'.todo = rec.todo \ {p}
                                      /\ rec'.unresolved = rec.unresolved
                                      /\ rec'.pids = rec.pids
<1>x. rec \in RecType BY DEF Types
<1>1. ASSUME Boot
      PROVE  rec'.pids = jailFile /\ rec'.todo = {p \in Pids : jailFile[p] # NoRec} /\ rec'.pid = None
             /\ rec'.unresolved = FALSE
  BY <1>1 DEF Boot, RecIdle
<1>2. ASSUME RecoverResult
      PROVE  /\ rec'.pid = None /\ rec'.todo = rec.todo
             /\ rec'.pids = IF rst["main"].ok THEN [rec.pids EXCEPT ![rec.pid] = NoRec] ELSE rec.pids
             /\ rec'.unresolved = (rec.unresolved \/ ~rst["main"].ok)
  BY <1>2, <1>x DEF RecoverResult, RecType
<1>3. ASSUME RecoverFinish
      PROVE  /\ rec'.pid = None /\ rec'.todo = {} /\ rec'.pids = EmptyFile
             /\ \/ engine' = "refused" /\ rec'.unresolved /\ mon' = mon
                \/ /\ engine' = "running" /\ ~rec'.unresolved /\ ~rec.unresolved /\ jailFile' = EmptyFile
                   /\ mon'.pc = "loop" /\ mon'.batch = {} /\ mon'.recs = EmptyFile /\ mon'.snap = NoSnap
                   /\ mon'.fg = None
  BY <1>3 DEF RecoverFinish, RecIdle, MonOff
<1>4. ASSUME NEW p \in Pids, RecoverDiscard(p)
      PROVE  /\ rec'.pid = rec.pid /\ rec'.todo = rec.todo \ {p} /\ rec'.unresolved = rec.unresolved
             /\ rec'.pids = [rec.pids EXCEPT ![p] = NoRec]
  BY <1>4, <1>x DEF RecoverDiscard, RecoverDrop, RecType
<1>5. ASSUME NEW p \in Pids, RecoverUnresolved(p)
      PROVE  /\ rec'.pid = rec.pid /\ rec'.todo = rec.todo \ {p} /\ rec'.unresolved /\ rec'.pids = rec.pids
  BY <1>5, <1>x DEF RecoverUnresolved, RecType
<1>6. ASSUME NEW p \in Pids, RecoverRestore(p)
      PROVE  /\ rec'.pid = p /\ rec'.todo = rec.todo \ {p} /\ rec'.unresolved = rec.unresolved /\ rec'.pids = rec.pids
  BY <1>6, <1>x DEF RecoverRestore, RecType
<1> QED BY <1>1, <1>2, <1>3, <1>4, <1>5, <1>6

(* _remember_process_state adds an entry for p, or finds one. *)
LEMMA RememberFields ==
  ASSUME Types, NEW p \in Pids, NEW source, Remember(p, source)
  PROVE  /\ \A q \in Pids : q # p => touched'[q] = touched[q]
         /\ touched'[p].ct = born[p]
         /\ \/ touched[p].ct = born[p] /\ touched' = touched /\ gen' = gen
            \/ /\ touched[p].ct # born[p] /\ gen' = gen + 1 /\ touched'[p].gen = gen + 1
               /\ touched'[p].saved = attr[p] /\ touched'[p].source = source
  BY DEF Types, Remember

(* What recovery's reinstating of an entry changes. *)
LEMMA ReinstateFields ==
  ASSUME Types, NEW p \in Pids, RecoverRestore(p)
  PROVE  /\ \A q \in Pids : q # p => touched'[q] = touched[q]
         /\ touched'[p].ct = born[p] /\ gen' = gen + 1 /\ touched'[p].gen = gen + 1
         /\ touched'[p].saved = rec.pids[p].saved /\ touched'[p].source = "jail"
         /\ rst' = [rst EXCEPT !["main"] = RestoreCall({p})] /\ rst'["main"] = RestoreCall({p})
         /\ rst'["mon"] = rst["mon"]
         /\ engine = "recovering" /\ rec.pid = None /\ p \in rec.todo /\ live[p] /\ jailFile[p].ct = born[p]
         /\ UNCHANGED <<born, live, attr, jailFile, engine, active, games, mon, boots, faults, excused>>
  BY DEF Types, RecoverRestore, Recovering, Recorded, os, Threads

-----------------------------------------------------------------------------
(* Snapshots *)

(* Processes only get newer, and excuses more. *)
Growth == (\A p \in Pids : born[p] <= born'[p]) /\ excused \subseteq excused'

(* Every step is a growth. *)
LEMMA Grows == ASSUME Types, Types', MonShape, Stages, Next PROVE Growth
<1>1. CASE Windows
  <2>1. PICK p \in Pids : Spawn(p) \/ Exit(p)
    BY <1>1 DEF Windows
  <2> QED BY <2>1, Numbers DEF Spawn, Exit, Growth, Types
<1>2. CASE Restoring
  <2>1. PICK t \in Threads : RestoreStep(t)
    BY <1>2 DEF Restoring
  <2>2. UNCHANGED born
    BY <2>1, RestoreLocal
  <2>3. excused \subseteq excused'
    BY <2>1 DEF RestoreStep, RestoreRead, RestoreGone, RestoreAttrs, RestoreAttrsFails, RestoreDrop, RemoveLoad,
         RemoveSave, RestoreEnd, os
  <2> QED BY <2>2, <2>3, Numbers DEF Growth
<1>3. CASE Monitor
  <2>1. UNCHANGED born /\ excused \subseteq excused'
    BY <1>3, MonitorSteps DEF Aside, Enters, Cleans, Calling, Tunes, Captured, Merges, Records
  <2> QED BY <2>1, Numbers DEF Growth
<1>4. CASE Recovery \/ Shutdown \/ ProcessEnd
  <2>1. UNCHANGED born /\ excused \subseteq excused'
    BY <1>4 DEF Recovery, Boot, RecoverResult, RecoverFinish, RecoverDiscard, RecoverUnresolved, RecoverRestore,
         Shutdown, ShutdownClose, ShutdownDrain, ShutdownDone, ProcessEnd, os
  <2> QED BY <2>1, Numbers DEF Growth
<1> QED BY <1>1, <1>2, <1>3, <1>4 DEF Next

(* What was genuine stays so. *)
Vouched(p, r) == Sound(p, r, born', excused')

(* A genuine snapshot is still sound in the next state. *)
LEMMA SoundGrows ==
  ASSUME Types, Types', Growth, NEW p \in Pids, NEW r, r.ct \in Nat, Genuine(p, r) PROVE Vouched(p, r)
<1>1. born[p] \in Nat /\ born'[p] \in Nat /\ born[p] <= born'[p] /\ excused \subseteq excused'
  BY TuningAssumption DEF Types, Growth
<1>2. CASE r.ct = 0
  BY <1>2 DEF Vouched, Sound
<1>3. CASE r.ct # 0
  <2>1. r.ct <= born[p] /\ (r.saved = r.ct \/ (<<p, r.ct>> \in excused /\ r.saved \in {Jailed, Boosted}))
    BY <1>3 DEF Genuine, Sound
  <2>2. r.ct <= born'[p]
    BY <2>1, <1>1
  <2> QED BY <1>1, <2>1, <2>2 DEF Vouched, Sound
<1> QED BY <1>2, <1>3

(* All the snapshots there are are still sound in the next state. *)
LEMMA KnownVouched ==
  ASSUME Types, Types', Growth, Snapshots
  PROVE  /\ \A p \in Pids : /\ Vouched(p, touched[p]) /\ Vouched(p, jailFile[p]) /\ Vouched(p, mon.recs[p])
                            /\ Vouched(p, rec.pids[p]) /\ Vouched(p, NoRec) /\ Vouched(p, NoEntry)
         /\ \A t \in Threads : \A p \in Pids : Vouched(p, rst[t].file[p])
         /\ \A t \in Threads : Held(t) => Vouched(rst[t].pid, rst[t].entry) \/ rst[t].pid \notin Pids
<1>1. \A r \in Recs \cup Entries : r.ct \in Nat
  BY Numbers
<1>2. \A p \in Pids : Vouched(p, NoRec) /\ Vouched(p, NoEntry)
  BY Numbers DEF Vouched, Sound
<1>3. \A p \in Pids : /\ Vouched(p, touched[p]) /\ Vouched(p, jailFile[p]) /\ Vouched(p, mon.recs[p])
                      /\ Vouched(p, rec.pids[p])
  BY <1>1, Numbers, SoundGrows DEF Snapshots
<1>4. \A t \in Threads : \A p \in Pids : Vouched(p, rst[t].file[p])
  BY <1>1, Numbers, SoundGrows DEF Snapshots
<1>5. \A t \in Threads : Held(t) /\ rst[t].pid \in Pids => Vouched(rst[t].pid, rst[t].entry)
  BY <1>1, Numbers, SoundGrows DEF Snapshots
<1> QED BY <1>2, <1>3, <1>4, <1>5

(* A snapshot taken on entering a mutation is of the settings the process started with. *)
LEMMA RememberSound ==
  ASSUME Types, Types', Stages, Settings, Tracked, Snapshots, Growth, NEW p \in Pids, Enters(p)
  PROVE  \A q \in Pids : Vouched(q, touched'[q])
<1>1. ~Before /\ ~rec.unresolved
  BY DEF Enters, Stages, Before
<1>2. live[p] /\ UNCHANGED <<born, excused>> /\ \E source \in Sources : Remember(p, source)
  BY DEF Enters, Sources
<1>3. CASE touched'[p] = touched[p]
  BY <1>2, <1>3, KnownVouched, RememberFields
<1>4. CASE touched'[p] # touched[p]
  <2>1. touched[p].ct # born[p] /\ touched'[p].ct = born[p] /\ touched'[p].saved = attr[p]
    BY <1>2, <1>4, RememberFields
  <2>2. attr[p] = born[p] \/ (Proc(p) \in excused /\ attr[p] \in {Jailed, Boosted})
    BY <1>1, <1>2, <2>1 DEF Settings, Tracked, Astray, Tuned
  <2>3. born[p] <= born'[p]
    BY DEF Growth
  <2>4. Vouched(p, touched'[p])
    BY <1>2, <2>1, <2>2, <2>3 DEF Vouched, Sound, Proc
  <2> QED BY <1>2, <2>4, KnownVouched, RememberFields
<1> QED BY <1>3, <1>4

(* Every step keeps the snapshots genuine. *)
LEMMA SnapshotsKept ==
  ASSUME Types, Types', MonShape, Stages, Calls, CallArgs, Settings, Tracked, Snapshots, Next
  PROVE  Snapshots'
<1>g. Growth
  BY Grows
<1>k. /\ \A p \in Pids : /\ Vouched(p, touched[p]) /\ Vouched(p, jailFile[p]) /\ Vouched(p, mon.recs[p])
                         /\ Vouched(p, rec.pids[p]) /\ Vouched(p, NoRec) /\ Vouched(p, NoEntry)
      /\ \A t \in Threads : \A p \in Pids : Vouched(p, rst[t].file[p])
      /\ \A t \in Threads : Held(t) => Vouched(rst[t].pid, rst[t].entry)
  BY <1>g, KnownVouched DEF Calls, CallOk
<1> SUFFICES /\ \A p \in Pids : Vouched(p, touched'[p]) /\ Vouched(p, jailFile'[p]) /\ Vouched(p, mon'.recs[p])
                                /\ Vouched(p, rec'.pids[p])
             /\ \A t \in Threads : \A p \in Pids : Vouched(p, rst'[t].file[p])
             /\ \A t \in Threads : Held(t)' => Vouched(rst'[t].pid, rst'[t].entry)
             /\ \A p \in Pids : mon'.snap[p] <= born'[p]
  BY DEF Snapshots, Genuine, Vouched
<1>n. \A p \in Pids : EmptyFile[p] = NoRec
  BY Numbers
<1>s. mon' = mon \/ mon'.snap \in {mon.snap, NoSnap} => \A p \in Pids : mon'.snap[p] <= born'[p]
  <2> SUFFICES ASSUME mon'.snap \in {mon.snap, NoSnap}, NEW p \in Pids PROVE mon'.snap[p] <= born'[p]
    OBVIOUS
  <2>1. mon.snap[p] \in Nat /\ born[p] \in Nat /\ born'[p] \in Nat /\ NoSnap[p] = 0
    BY TuningAssumption DEF Types, MonType, NoSnap
  <2>2. mon.snap[p] <= born[p] /\ born[p] <= born'[p]
    BY <1>g DEF Snapshots, Growth
  <2> QED BY <2>1, <2>2
<1>1. CASE UNCHANGED <<jailFile, touched, mon, rst, rec>>
  BY <1>1, <1>k, <1>s DEF Held
<1>2. CASE Restoring
  <2>1. PICK t \in Threads : RestoreStep(t)
    BY <1>2 DEF Restoring
  <2>2. /\ UNCHANGED <<mon, rec>> /\ \A u \in Threads : u # t => rst'[u] = rst[u]
        /\ \A p \in Pids : Vouched(p, touched'[p]) /\ Vouched(p, jailFile'[p])
    BY <2>1, <1>k, <1>n, RestoreLocal
  <2>3. \A p \in Pids : Vouched(p, rst'[t].file[p])
    BY <2>1, <1>k, <1>n, RestoreFields DEF RestoreStep, Types
  <2>4. Held(t)' => Vouched(rst'[t].pid, rst'[t].entry)
    BY <2>1, <1>k, RestoreFields DEF RestoreStep, Held, RestoreAttrs
  <2> QED BY <2>2, <2>3, <2>4, <1>k, <1>s DEF Held
<1>3. CASE Monitor
  <2>1. /\ rec' = rec
        /\ \A p \in Pids : Vouched(p, jailFile'[p])
    BY <1>3, <1>k, MonitorSteps DEF Aside, Enters, Cleans, Calling, Tunes, Captured, Merges, Records
  <2>2. \A p \in Pids : Vouched(p, touched'[p])
    BY <1>3, <1>g, <1>k, MonitorSteps, RememberSound DEF Aside, Cleans, Calling, Tunes, Captured, Merges, Records
  <2>3. \A p \in Pids : Vouched(p, mon'.recs[p])
    <3>1. ASSUME Captured, NEW p \in Pids PROVE Vouched(p, mon'.recs[p])
      <4>1. mon'.recs[p] = NoRec \/ (mon'.recs[p].ct = touched[p].ct /\ mon'.recs[p].saved = touched[p].saved)
        BY <3>1 DEF Captured
      <4>2. Vouched(p, touched[p]) /\ Vouched(p, NoRec)
        BY <1>k
      <4> QED BY <4>1, <4>2 DEF Vouched, Sound
    <3> QED BY <1>3, <1>k, <1>n, <3>1, MonitorSteps DEF Aside, Enters, Cleans, Calling, Tunes, Merges, Records
  <2>4. \A t \in Threads : rst'[t] = rst[t] \/ (rst'[t].file = EmptyFile /\ rst'[t].pc = "next")
    BY <1>3, MonitorSteps, CallFields DEF Aside, Enters, Cleans, Calling, Tunes, Captured, Merges, Records, Types
  <2>5. \A p \in Pids : mon'.snap[p] <= born'[p]
    <3> SUFFICES ASSUME NEW p \in Pids PROVE mon'.snap[p] <= born'[p]
      OBVIOUS
    <3>1. mon'.snap[p] \in {mon.snap[p], born[p], 0}
      BY <1>3, SnapSteps
    <3>2. mon.snap[p] <= born[p] /\ born[p] <= born'[p] /\ born[p] \in Nat /\ born'[p] \in Nat /\ mon.snap[p] \in Nat
      BY <1>g, TuningAssumption DEF Snapshots, Growth, Types, MonType
    <3> QED BY <3>1, <3>2
  <2> QED BY <2>1, <2>2, <2>3, <2>4, <2>5, <1>k, <1>n DEF Held
<1>4. CASE Recovery
  <2>1. ASSUME NEW p \in Pids, RecoverRestore(p)
        PROVE  \A q \in Pids : Vouched(q, touched'[q])
    <3>1. touched'[p].ct = born[p] /\ touched'[p].saved = rec.pids[p].saved /\ rec.pids[p].ct = born[p]
          /\ \A q \in Pids : q # p => touched'[q] = touched[q]
      BY <2>1, ReinstateFields DEF CallArgs
    <3>2. Vouched(p, touched'[p])
      BY <3>1, <1>k DEF Vouched, Sound
    <3> QED BY <3>1, <3>2, <1>k
  <2>2. ASSUME NEW p \in Pids, RecoverDiscard(p) \/ RecoverUnresolved(p) \/ RecoverRestore(p)
        PROVE  \A q \in Pids : Vouched(q, rec'.pids[q])
    BY <2>2, <1>k, RecFields DEF Types, RecType
  <2>3. ASSUME NEW p \in Pids, RecoverDiscard(p) \/ RecoverUnresolved(p) \/ RecoverRestore(p)
        PROVE  Snapshots'
    <3>1. CASE RecoverDiscard(p) \/ RecoverUnresolved(p)
      BY <2>2, <3>1, <1>k, <1>s DEF RecoverDiscard, RecoverUnresolved, Snapshots, Genuine, Vouched, Held
    <3>2. CASE RecoverRestore(p)
      <4>1. /\ UNCHANGED <<jailFile, mon>>
            /\ \A t \in Threads : rst'[t] = rst[t] \/ (rst'[t].file = EmptyFile /\ rst'[t].pc = "next")
        <5>1. rst'["main"] = RestoreCall({p}) /\ rst'["mon"] = rst["mon"] /\ UNCHANGED <<jailFile, mon>>
          BY <3>2, ReinstateFields
        <5>2. rst'["main"].file = EmptyFile /\ rst'["main"].pc = "next"
          BY <5>1, CallFields
        <5> QED BY <5>1, <5>2 DEF Threads
      <4>2. /\ \A t \in Threads : \A q \in Pids : Vouched(q, rst'[t].file[q])
            /\ \A t \in Threads : Held(t)' => Vouched(rst'[t].pid, rst'[t].entry)
        BY <4>1, <1>k, <1>n DEF Held
      <4> QED BY <2>1, <2>2, <3>2, <4>1, <4>2, <1>k, <1>s DEF Snapshots, Genuine, Vouched
    <3> QED BY <2>3, <3>1, <3>2
  <2>4. CASE Boot
    BY <2>4, <1>k, <1>s, RecFields DEF Boot, Held
  <2>5. CASE RecoverResult
    <3>1. /\ UNCHANGED <<jailFile, mon, touched>>
          /\ \A t \in Threads : rst'[t] = rst[t] \/ (rst'[t].file = EmptyFile /\ rst'[t].pc = "idle")
      BY <2>5, CallFields DEF RecoverResult, Types
    <3>2. \A q \in Pids : Vouched(q, rec'.pids[q])
      BY <2>5, <1>k, RecFields DEF Types, RecType
    <3> QED BY <3>1, <3>2, <1>k, <1>n, <1>s DEF Held
  <2>6. CASE RecoverFinish
    <3>1. /\ UNCHANGED <<touched, rst>> /\ rec'.pids = EmptyFile
          /\ jailFile' = rec.pids \/ jailFile' = jailFile
          /\ mon' = mon \/ (mon'.recs = EmptyFile /\ mon'.snap = NoSnap)
      BY <2>6, RecFields DEF RecoverFinish
    <3> QED BY <3>1, <1>k, <1>n, <1>s DEF Held
  <2> QED BY <1>4, <2>3, <2>4, <2>5, <2>6 DEF Recovery, Snapshots, Genuine, Vouched
<1>5. CASE Shutdown
  <2>1. /\ UNCHANGED <<jailFile, touched, mon, rec>>
        /\ \A t \in Threads : rst'[t] = rst[t] \/ (rst'[t].file = EmptyFile /\ rst'[t].pc = "next")
    BY <1>5, CallFields DEF Shutdown, ShutdownClose, ShutdownDrain, ShutdownDone, Types
  <2> QED BY <2>1, <1>k, <1>n, <1>s DEF Held
<1>6. CASE ProcessEnd
  <2>1. /\ jailFile' = jailFile /\ mon'.recs = EmptyFile /\ mon'.snap = NoSnap /\ rec'.pids = EmptyFile
        /\ \A t \in Threads : rst'[t] = RstIdle
        /\ \A p \in Pids : touched'[p] = NoEntry
    BY <1>6, CycleFields DEF ProcessEnd, ForgetSession, RecIdle
  <2> QED BY <2>1, <1>k, <1>n, <1>s, CallFields DEF Held
<1>7. CASE Windows
  BY <1>7, <1>1 DEF Windows, Spawn, Exit, session
<1> QED BY <1>2, <1>3, <1>4, <1>5, <1>6, <1>7 DEF Next

(* Nobody but the monitor, the end of recovery and the end of the process touches the monitor's *)
(* locals.                                                                                      *)
LEMMA MonitorIdle ==
  ASSUME Types, Next, ~Monitor, ~RecoverFinish, ~ProcessEnd
  PROVE  UNCHANGED <<mon, active>>
<1>1. Windows => UNCHANGED <<mon, active>>
  BY DEF Windows, Spawn, Exit, session
<1>2. Restoring => UNCHANGED <<mon, active>>
  BY RestoreLocal DEF Restoring
<1>3. Recovery => UNCHANGED <<mon, active>>
  BY DEF Recovery, Boot, RecoverResult, RecoverDiscard, RecoverUnresolved, RecoverRestore
<1>4. Shutdown => UNCHANGED <<mon, active>>
  BY DEF Shutdown, ShutdownClose, ShutdownDrain, ShutdownDone
<1> QED BY <1>1, <1>2, <1>3, <1>4 DEF Next

(* Every step keeps the monitor in shape. *)
LEMMA MonShapeKept ==
  ASSUME Types, Types', MonShape, Stages, Next
  PROVE  MonShape'
<1>1. CASE UNCHANGED <<mon, active>>
  BY <1>1 DEF MonShape, Mutating
<1>2. CASE RecoverFinish
  BY <1>2, RecFields DEF RecoverFinish, MonShape, Stages, Before, Mutating
<1>3. CASE ProcessEnd
  BY <1>3, CycleFields DEF ProcessEnd, ForgetSession, MonShape, Mutating
<1>4. CASE Aside
  BY <1>4 DEF Aside, MonShape, Mutating, GateOpen, Stages, MonType, Types
<1>5. CASE \E p \in Pids : Enters(p)
  BY <1>5 DEF Enters, MonShape, Mutating
<1>6. CASE Cleans \/ Calling \/ Captured \/ Merges
  BY <1>6 DEF Cleans, Calling, Captured, Merges, MonShape, Mutating
<1>7. CASE Tunes \/ Records
  BY <1>7 DEF Tunes, Records, MonShape, Mutating
<1> QED
  BY <1>1, <1>2, <1>3, <1>4, <1>5, <1>6, <1>7, MonitorIdle, MonitorSteps

(* Every step keeps the threads to their stages. *)
LEMMA StagesKept ==
  ASSUME Types, Types', MonShape, Stages, Next
  PROVE  Stages'
<1>1. CASE Windows
  BY <1>1 DEF Windows, Spawn, Exit, session, Stages, Before, Mutating
<1>2. ASSUME NEW t \in Threads, RestoreStep(t)
      PROVE  Stages'
  <2>1. rst[t].pc # "idle"
    BY <1>2 DEF RestoreStep, RestoreRead, RestoreGone, RestoreAttrs, RestoreAttrsFails, RestoreDrop, RemoveLoad,
       RemoveSave, RestoreEnd
  <2> QED BY <1>2, <2>1, RestoreLocal DEF Stages, Before, Mutating, Threads
<1>3. CASE Monitor
  <2>1. CASE Aside
    BY <2>1 DEF Aside, Stages, Before, Mutating, GateOpen, MonShape
  <2>2. CASE \E p \in Pids : Enters(p)
    BY <2>2 DEF Enters, Stages, Before, Mutating, GateOpen, MonShape
  <2>3. CASE Cleans \/ Captured \/ Merges \/ Records
    BY <2>3 DEF Cleans, Captured, Merges, Records, Stages, Before, Mutating, MonShape
  <2>4. CASE Calling
    BY <2>4, Numbers DEF Calling, Stages, Before, Mutating, MonShape, Types
  <2>5. CASE Tunes
    BY <2>5, Numbers DEF Tunes, Stages, Before, Mutating, MonShape, Types
  <2> QED BY <1>3, <2>1, <2>2, <2>3, <2>4, <2>5, MonitorSteps
<1>4. CASE Recovery
  <2>1. CASE Boot
    BY <2>1, RecFields DEF Boot, Stages, Before, Mutating, MonShape
  <2>2. CASE RecoverResult
    <3>1. rst'["mon"] = rst["mon"] /\ rst'["main"] = RstIdle
      BY <2>2, Numbers DEF RecoverResult, Types
    <3> QED BY <2>2, <3>1, RecFields, CallFields DEF RecoverResult, Stages, Before, Mutating
  <2>3. CASE RecoverFinish
    BY <2>3, RecFields DEF RecoverFinish, Stages, Before, Mutating, os
  <2>4. ASSUME NEW p \in Pids, RecoverDiscard(p) \/ RecoverUnresolved(p)
        PROVE  Stages'
    <3>1. rec'.pid = rec.pid /\ rec.pid = None /\ engine = "recovering" /\ UNCHANGED <<engine, mon, rst, active>>
      BY <2>4, RecFields DEF RecoverDiscard, RecoverUnresolved, Recovering
    <3> QED BY <3>1 DEF Stages, Before, Mutating
  <2>5. ASSUME NEW p \in Pids, RecoverRestore(p)
        PROVE  Stages'
    <3>1. /\ rec'.pid = p /\ engine = "recovering" /\ UNCHANGED <<engine, mon, active>>
          /\ rst'["mon"] = rst["mon"]
      BY <2>5, RecFields, ReinstateFields
    <3>2. rec'.unresolved = rec.unresolved
      BY <2>5, RecFields
    <3> QED BY <3>1, <3>2, Numbers DEF Stages, Before, Mutating
  <2> QED BY <1>4, <2>1, <2>2, <2>3, <2>4, <2>5 DEF Recovery
<1>5. CASE ShutdownClose \/ ShutdownDone
  BY <1>5 DEF ShutdownClose, ShutdownDone, Stages, Before, Mutating
<1>6. CASE ShutdownDrain
  <2>1. rst'["mon"] = rst["mon"]
    BY <1>6, Numbers DEF ShutdownDrain, Types
  <2> QED BY <1>6, <2>1 DEF ShutdownDrain, Stages, Before, Mutating, MonShape
<1>7. CASE ProcessEnd
  BY <1>7, CycleFields, CallFields, Numbers DEF ProcessEnd, ForgetSession, RecIdle, Stages, Before, Mutating
<1> QED BY <1>1, <1>2, <1>3, <1>4, <1>5, <1>6, <1>7 DEF Next, Restoring, Shutdown

(* Every step keeps the generations below the counter. *)
LEMMA GensKept ==
  ASSUME Types, Types', MonShape, Stages, Gens, Next
  PROVE  Gens'
<1>n. gen \in Nat /\ \A p \in Pids : touched[p].gen \in Nat /\ NoEntry.gen = 0
  BY Numbers
<1>1. CASE UNCHANGED <<touched, gen>>
  BY <1>1 DEF Gens
<1>2. ASSUME NEW t \in Threads, RestoreStep(t)
      PROVE  Gens'
  BY <1>n, <1>2, RestoreLocal DEF Gens
<1>3. ASSUME NEW p \in Pids, gen' = gen + 1, touched'[p].gen = gen + 1,
             \A q \in Pids : q # p => touched'[q] = touched[q]
      PROVE  Gens'
  <2> SUFFICES ASSUME NEW q \in Pids PROVE touched'[q].gen <= gen'
    BY DEF Gens
  <2>1. CASE q = p
    BY <1>n, <1>3, <2>1
  <2>2. CASE q # p
    <3>1. touched'[q].gen = touched[q].gen /\ touched[q].gen <= gen
      BY <1>3, <2>2 DEF Gens
    <3> QED BY <1>n, <1>3, <3>1
  <2> QED BY <2>1, <2>2
<1>4. ASSUME NEW p \in Pids, Enters(p)
      PROVE  Gens'
  <2>1. \E source \in Sources : Remember(p, source)
    BY <1>4 DEF Enters, Sources
  <2> QED BY <2>1, <1>1, <1>3, RememberFields
<1>5. CASE Monitor
  <2>1. CASE Cleans
    BY <1>n, <2>1 DEF Cleans, Gens
  <2> QED BY <1>1, <1>4, <1>5, <2>1, MonitorSteps DEF Aside, Calling, Tunes, Captured, Merges, Records
<1>6. CASE Recovery
  <2>1. ASSUME NEW p \in Pids, RecoverRestore(p)
        PROVE  Gens'
    BY <2>1, <1>3, ReinstateFields
  <2> QED BY <1>1, <1>6, <2>1 DEF Recovery, Boot, RecoverResult, RecoverFinish, RecoverDiscard, RecoverUnresolved
<1>7. CASE Windows \/ Shutdown
  BY <1>1, <1>7 DEF Windows, Spawn, Exit, session, Shutdown, ShutdownClose, ShutdownDrain, ShutdownDone
<1>8. CASE ProcessEnd
  BY <1>8, <1>n DEF ProcessEnd, ForgetSession, Gens
<1> QED BY <1>2, <1>5, <1>6, <1>7, <1>8 DEF Next, Restoring

(* Every step keeps an entry under the mutation. *)
LEMMA MineKept ==
  ASSUME Types, Types', MonShape, Stages, Mine, Next
  PROVE  Mine'
<1>1. CASE Windows
  <2>1. PICK p \in Pids : Spawn(p) \/ Exit(p)
    BY <1>1 DEF Windows
  <2>2. CASE Spawn(p)
    BY <2>2 DEF Spawn, session, Pinned, MonShape, Mine, Types
  <2>3. CASE Exit(p)
    BY <2>3 DEF Exit, session, MonShape, Mine, Types
  <2> QED BY <2>1, <2>2, <2>3
<1>2. ASSUME NEW t \in Threads, RestoreStep(t)
      PROVE  Mine'
  <2>1. rst[t].pc # "idle" /\ (t = "mon" \/ t = "main")
    BY <1>2 DEF RestoreStep, RestoreRead, RestoreGone, RestoreAttrs, RestoreAttrsFails, RestoreDrop, RemoveLoad,
         RemoveSave, RestoreEnd, Threads
  <2>2. mon.pc \notin {"apply", "boost"} /\ mon' = mon
    BY <1>2, <2>1, RestoreLocal DEF Stages, Before, Mutating
  <2> QED BY <2>2 DEF Mine
<1>3. ASSUME NEW p \in Pids, Enters(p)
      PROVE  Mine'
  <2>1. \E source \in Sources : Remember(p, source)
    BY <1>3 DEF Enters, Sources
  <2> QED BY <1>3, <2>1, RememberFields DEF Enters, Mine
<1>4. CASE Monitor
  BY <1>3, <1>4, MonitorSteps DEF Aside, Cleans, Calling, Tunes, Captured, Merges, Records, Mine, MonShape
<1>5. CASE Recovery
  BY <1>5, RecFields DEF Recovery, Boot, RecoverResult, RecoverFinish, RecoverDiscard, RecoverUnresolved,
     RecoverRestore, Recovering, os, Stages, Before, Mine
<1>6. CASE Shutdown \/ ProcessEnd
  BY <1>6, CycleFields DEF Shutdown, ShutdownClose, ShutdownDrain, ShutdownDone, ProcessEnd, ForgetSession, os, Mine
<1> QED BY <1>1, <1>2, <1>4, <1>5, <1>6 DEF Next, Restoring

(* The monitor steps only while it is on. *)
LEMMA MonitorOn == Monitor => mon.pc # "off"
  BY DEF Monitor, MonExit, MonSnapshot, MonObserve, MonCleanup, MonCleanupNotDue, MonNoneClosed, MonRestoreClosed,
     MonClosedRestored, MonJailBatch, MonLeaveGameMode, MonLeft, MonModeIdle, Boost, JailApply, JailApplyFails,
     JailUndone, BatchEnd, RecordCapture, RecordLoad, RecordSave, FgSame, FgJailName, FgJailOpen, OptimizeEnter,
     BatchJail, FgChange, FgBoost

(* When a restore call can step. *)
LEMMA Restores ==
  ASSUME Types, Stages, NEW t \in Threads, RestoreStep(t)
  PROVE  /\ rst[t].pc # "idle"
         /\ t = "mon" => mon.pc \in {"closing", "leaving", "undo"} /\ ~Before /\ ~rec.unresolved
         /\ t = "main" => engine \in {"recovering", "restoring"} /\ (engine = "recovering" => rec.pid \in Pids)
<1>1. rst[t].pc # "idle"
  BY DEF RestoreStep, RestoreRead, RestoreGone, RestoreAttrs, RestoreAttrsFails, RestoreDrop, RemoveLoad,
         RemoveSave, RestoreEnd
<1> QED BY <1>1, Numbers DEF Stages

(* Every step keeps the arguments of the restore calls. *)
LEMMA CallArgsKept ==
  ASSUME Types, Types', MonShape, Stages, Calls, CallArgs, Next
  PROVE  CallArgs'
<1>1. CASE Windows
  BY <1>1 DEF Windows, Spawn, Exit, session, CallArgs, Held, Removing
<1>2. ASSUME NEW t \in Threads, RestoreStep(t)
      PROVE  CallArgs'
  <2>1. UNCHANGED <<engine, mon, rec>> /\ \A u \in Threads : u # t => rst'[u] = rst[u]
    BY <1>2, RestoreLocal
  <2>2. \A p \in rec.todo : jailFile'[p] = jailFile[p]
    <3> SUFFICES ASSUME NEW p \in rec.todo, jailFile' # jailFile PROVE jailFile'[p] = jailFile[p]
      OBVIOUS
    <3>1. engine = "recovering" /\ t = "main" /\ rec.pid # None /\ rec.pid # p /\ ~rst[t].all /\ p \in Pids
      BY <1>2, Restores, Numbers DEF CallArgs, Before
    <3>2. rst[t].pc = "save" /\ jailFile' = rst[t].file
      BY <1>2, <3>1, RestoreLocal DEF RemoveSave
    <3>3. rst[t].pid = rec.pid /\ rst[t].file = [jailFile EXCEPT ![rst[t].pid] = NoRec]
      BY <3>1, <3>2 DEF CallArgs, Calls, CallOk, Removing, Alone
    <3> QED BY <3>1, <3>2, <3>3 DEF Types
  <2>3. t = "main" /\ rec.pid # None =>
           /\ rst'["main"].todo \subseteq {rec.pid}
           /\ (Held("main")' \/ Removing("main")' => rst'["main"].pid = rec.pid)
    <3> SUFFICES ASSUME t = "main", rec.pid # None
                 PROVE  /\ rst'[t].todo \subseteq {rec.pid}
                        /\ (rst'[t].pc \in {"open", "drop", "load", "save"} => rst'[t].pid = rec.pid)
      BY DEF Held, Removing
    <3>1. rst[t].todo \subseteq {rec.pid} /\ (rst[t].pc \in {"open", "drop", "load", "save"} => rst[t].pid = rec.pid)
      BY DEF CallArgs, Held, Removing
    <3>2. ASSUME NEW p \in Pids, RestoreRead(t, p)
          PROVE  /\ rst'[t].todo \subseteq {rec.pid}
                 /\ (rst'[t].pc \in {"open", "drop", "load", "save"} => rst'[t].pid = rec.pid)
      <4>1. /\ p \in rst[t].todo /\ rst'[t].todo = rst[t].todo \ {p}
            /\ rst'[t].pc = "next" \/ (rst'[t].pc = "open" /\ rst'[t].pid = p)
        <5>1. p \in rst[t].todo
          BY <3>2 DEF RestoreRead
        <5> QED BY <3>2, <5>1, RestoreFields
      <4> QED BY <3>1, <4>1
    <3>3. CASE RestoreGone(t) \/ RestoreAttrs(t) \/ RestoreAttrsFails(t)
      BY <3>1, <3>3, RestoreFields DEF RestoreAttrs
    <3>4. CASE RestoreDrop(t) \/ RemoveLoad(t) \/ RemoveSave(t) \/ RestoreEnd(t)
      BY <3>1, <3>4, RestoreFields DEF RestoreDrop, RemoveLoad
    <3> QED BY <1>2, <3>2, <3>3, <3>4 DEF RestoreStep
  <2>4. rst'[t].pc # "idle" => rst'[t].all = rst[t].all /\ rst[t].pc # "idle"
    BY <1>2, Restores, RestoreFields
  <2>5. t = "main" /\ rec.pid # None => ~rst'["main"].all
    <3>1. RestoreEnd(t) => ~rst'[t].all
      BY DEF RestoreEnd, RstIdle, Types, RstType
    <3>2. rst'[t].pc = "idle" => RestoreEnd(t)
      BY <1>2, RestoreFields DEF RestoreStep
    <3> QED BY <2>4, <3>1, <3>2 DEF CallArgs
  <2> QED BY <2>1, <2>2, <2>3, <2>4, <2>5, Numbers DEF CallArgs, Held, Removing
<1>3. CASE Monitor
  <2>0. Before => mon.pc = "off"
    BY DEF Stages
  <2>1. rec.todo = {} /\ rec.pid = None
    <3>2. mon.pc # "off"
      BY <1>3, MonitorOn
    <3> QED BY <3>2 DEF Stages, CallArgs, Before
  <2>2. UNCHANGED <<engine, rec>> /\ rst'["main"] = rst["main"]
    BY <1>3, MonitorSteps, Numbers DEF Aside, Enters, Cleans, Calling, Tunes, Captured, Merges, Records, Types
  <2>3. rst'["mon"].pc # "idle" /\ rst'["mon"].all => mon'.pc = "leaving"
    <3>1. rst["mon"].pc # "idle" => mon.pc \in {"closing", "leaving", "undo"}
      BY DEF Stages
    <3>2. CASE Aside \/ (\E p \in Pids : Enters(p)) \/ Cleans \/ Captured \/ Merges \/ Records
      BY <3>1, <3>2 DEF Aside, Enters, Cleans, Captured, Merges, Records, CallArgs
    <3>3. CASE Calling
      BY <3>3, CallFields, Numbers DEF Calling, Types
    <3>4. CASE Tunes
      BY <3>1, <3>4, CallFields, Numbers DEF Tunes, Types
    <3> QED BY <1>3, <3>2, <3>3, <3>4, MonitorSteps
  <2> QED BY <2>1, <2>2, <2>3 DEF CallArgs
<1>4. CASE Boot
  BY <1>4, RecFields DEF Boot, CallArgs
<1>5. CASE RecoverResult
  <2>1. /\ rec'.pid = None /\ rec'.todo = rec.todo /\ \A p \in rec.todo : rec'.pids[p] = rec.pids[p]
        /\ rst'["mon"] = rst["mon"]
    BY <1>5, RecFields, Numbers DEF RecoverResult, CallArgs, Types, RecType
  <2> QED BY <1>5, <2>1 DEF RecoverResult, CallArgs
<1>6. CASE RecoverFinish
  <2>1. rec'.pid = None /\ rec'.todo = {} /\ UNCHANGED rst /\ rst["mon"].pc = "idle"
    BY <1>6, RecFields DEF RecoverFinish, Stages, Before
  <2> QED BY <2>1 DEF CallArgs
<1>7. ASSUME NEW p \in Pids, RecoverDiscard(p) \/ RecoverUnresolved(p)
      PROVE  CallArgs'
  <2>1. /\ rec.pid = None /\ rec'.pid = None /\ rec'.todo = rec.todo \ {p}
        /\ rec'.pids = rec.pids \/ rec'.pids = [rec.pids EXCEPT ![p] = NoRec]
        /\ UNCHANGED <<engine, jailFile, mon, rst>>
    BY <1>7, RecFields DEF RecoverDiscard, RecoverUnresolved, Recovering
  <2>2. \A q \in rec'.todo : rec'.pids[q] = rec.pids[q]
    BY <2>1, Numbers DEF Types, RecType
  <2> QED BY <2>1, <2>2 DEF CallArgs
<1>8. ASSUME NEW p \in Pids, RecoverRestore(p)
      PROVE  CallArgs'
  <2>1. rec'.pid = p /\ rec'.todo = rec.todo \ {p} /\ rec'.pids = rec.pids
    BY <1>8, RecFields
  <2>2. /\ rst'["main"] = RestoreCall({p}) /\ rst'["mon"] = rst["mon"]
        /\ UNCHANGED <<engine, jailFile, mon>>
    BY <1>8, ReinstateFields
  <2>3. rst'["main"].pc = "next" /\ rst'["main"].todo = {p} /\ ~rst'["main"].all
    BY <2>2, CallFields
  <2> QED BY <2>1, <2>2, <2>3 DEF CallArgs, Held, Removing
<1>9. CASE Shutdown
  <2>1. /\ rec.todo = {} /\ rec.pid = None /\ rec' = rec /\ UNCHANGED mon /\ rst'["mon"] = rst["mon"]
    BY <1>9, Numbers DEF Shutdown, ShutdownClose, ShutdownDrain, ShutdownDone, CallArgs, Stages, Types
  <2> QED BY <2>1 DEF CallArgs
<1>10. CASE ProcessEnd
  BY <1>10, CallFields, Numbers DEF ProcessEnd, ForgetSession, RecIdle, CallArgs
<1> QED
  BY <1>1, <1>2, <1>3, <1>4, <1>5, <1>6, <1>7, <1>8, <1>9, <1>10 DEF Next, Restoring, Recovery

(* Every step excuses processes only. *)
LEMMA ExcusesKept ==
  ASSUME Types, Types', MonShape, Stages, Calls, CallArgs, Settings, Excuses, Next
  PROVE  Excuses'
<1>p. \A p \in Pids : born[p] # 0 => Proc(p) \in Processes
  BY DEF Settings
<1>1. CASE Windows
  BY <1>1 DEF Windows, Spawn, Exit, Excuses
<1>2. ASSUME NEW t \in Threads, RestoreStep(t)
      PROVE  Excuses'
  <2>1. excused' = excused \/ (rst[t].pid \in Pids /\ live[rst[t].pid] /\ excused' = excused \cup {Proc(rst[t].pid)})
    BY <1>2 DEF RestoreStep, RestoreRead, RestoreGone, RestoreAttrs, RestoreAttrsFails, RestoreDrop, RemoveLoad,
       RemoveSave, RestoreEnd, Calls, CallOk, Held
  <2> QED BY <2>1, <1>p DEF Settings, Excuses
<1>3. CASE Monitor
  <2>1. CASE Records
    BY <1>p, <2>1, Numbers DEF Records, Excuses
  <2> QED BY <1>3, <2>1, MonitorSteps DEF Aside, Enters, Cleans, Calling, Tunes, Captured, Merges, Excuses
<1>4. CASE Recovery
  <2>1. ASSUME NEW p \in Pids, RecoverDiscard(p)
        PROVE  Excuses'
    <3>1. p \in rec.todo
      BY <2>1 DEF RecoverDiscard, Recovering
    <3>2. Recorded(p) => born[p] # 0
      BY <3>1, Numbers DEF CallArgs, Recorded
    <3> QED BY <2>1, <3>2, <1>p DEF RecoverDiscard, Excuses
  <2> QED BY <1>4, <2>1 DEF Recovery, Boot, RecoverResult, RecoverFinish, RecoverUnresolved, RecoverRestore, Excuses
<1>5. CASE Shutdown
  BY <1>5 DEF Shutdown, ShutdownClose, ShutdownDrain, ShutdownDone, Excuses
<1>6. CASE ProcessEnd
  BY <1>6, <1>p DEF ProcessEnd, Settings, Excuses, Tuned
<1> QED BY <1>1, <1>2, <1>3, <1>4, <1>5, <1>6 DEF Next, Restoring

(* A restore call stays in order in a step of others that replaces its entry by a newer one, or *)
(* drops it, and lets it alone where it is alone.                                               *)
LEMMA CallKept ==
  ASSUME Types, Types', NEW t \in Threads, CallOk(t), rst'[t] = rst[t], gen <= gen',
         \A p \in Pids : touched'[p] = touched[p] \/ touched'[p] = NoEntry \/ touched'[p].gen > gen,
         Alone(t)' /\ (Held(t) \/ Removing(t)) =>
            Alone(t) /\ jailFile' = jailFile /\ touched'[rst[t].pid] = touched[rst[t].pid],
         t = "main" /\ engine' = "restoring" /\ Held(t) =>
            engine = "restoring" /\ touched'[rst[t].pid] \in {touched[rst[t].pid], NoEntry}
  PROVE  CallOk(t)'
<1>h. Held(t)' = Held(t) /\ Removing(t)' = Removing(t)
  BY DEF Held, Removing
<1>1. Held(t) => rst[t].entry # NoEntry /\ rst[t].entry.gen <= gen'
                 /\ (touched'[rst[t].pid].gen = rst[t].entry.gen => touched'[rst[t].pid] = rst[t].entry)
  <2> SUFFICES ASSUME Held(t)
               PROVE  /\ rst[t].entry # NoEntry /\ rst[t].entry.gen <= gen'
                      /\ touched'[rst[t].pid].gen = rst[t].entry.gen => touched'[rst[t].pid] = rst[t].entry
    OBVIOUS
  <2>1. /\ rst[t].pid \in Pids /\ rst[t].entry # NoEntry /\ rst[t].entry.gen <= gen
        /\ touched[rst[t].pid].gen = rst[t].entry.gen => touched[rst[t].pid] = rst[t].entry
    BY DEF CallOk
  <2>2. rst[t].entry.gen \in Nat \ {0} /\ NoEntry.gen = 0 /\ gen \in Nat /\ gen' \in Nat
    BY <2>1 DEF Types, RstType, Entries, NoEntry
  <2>3. touched'[rst[t].pid].gen = rst[t].entry.gen => touched'[rst[t].pid] = touched[rst[t].pid]
    BY <2>1, <2>2
  <2> QED BY <2>1, <2>2, <2>3
<1>2. rst'[t].pc = rst[t].pc /\ rst'[t].pid = rst[t].pid /\ rst'[t].entry = rst[t].entry /\ rst'[t].file = rst[t].file
  OBVIOUS
<1>3. Alone(t)' /\ Held(t) => touched'[rst[t].pid] = rst[t].entry
  BY DEF CallOk
<1>4. Alone(t)' /\ Removing(t) => touched'[rst[t].pid] = NoEntry
  BY DEF CallOk
<1>5. Alone(t)' /\ rst[t].pc = "save" => rst[t].file = [jailFile' EXCEPT ![rst[t].pid] = NoRec]
  BY DEF CallOk, Removing
<1>6. t = "main" /\ engine' = "restoring" /\ Held(t) => touched'[rst[t].pid] \in {rst[t].entry, NoEntry}
  BY DEF CallOk
<1>7. rst[t].pc = "idle" => rst[t].todo = {}
  BY DEF CallOk
<1> QED BY <1>h, <1>1, <1>2, <1>3, <1>4, <1>5, <1>6, <1>7 DEF CallOk

(* A call that starts, or ends, is in order. *)
LEMMA CallStarts ==
  ASSUME NEW t \in Threads, rst'[t].pc \in {"idle", "next"}, rst'[t].entry = NoEntry,
         rst'[t].pc = "idle" => rst'[t].todo = {}
  PROVE  CallOk(t)'
  BY DEF CallOk, Held, Removing

(* A call stays in order in its own steps. *)
LEMMA CallStep ==
  ASSUME Types, Types', Gens, NEW t \in Threads, CallOk(t), RestoreStep(t)
  PROVE  CallOk(t)'
<1>e. UNCHANGED <<engine, gen>> /\ Alone(t)' = Alone(t)
  BY RestoreLocal DEF Alone
<1>1. ASSUME NEW p \in Pids, RestoreRead(t, p)
      PROVE  CallOk(t)'
  <2>1. UNCHANGED <<touched, gen, jailFile>> /\ rst[t].pc = "next" /\ rst[t].entry = NoEntry
    BY <1>1 DEF RestoreRead, CallOk, Held
  <2>2. touched[p].gen <= gen
    BY DEF Gens
  <2>3. CASE touched[p] = NoEntry
    BY <1>1, <2>1, <2>3, RestoreFields, CallStarts
  <2>4. CASE touched[p] # NoEntry
    <3>1. rst'[t].pc = "open" /\ rst'[t].pid = p /\ rst'[t].entry = touched[p]
      BY <1>1, <2>4, RestoreFields
    <3>2. Held(t)' /\ ~Removing(t)'
      BY <3>1 DEF Held, Removing
    <3>3. rst'[t].entry # NoEntry /\ rst'[t].entry.gen <= gen' /\ touched'[rst'[t].pid] = rst'[t].entry
      BY <1>e, <2>1, <2>2, <2>4, <3>1
    <3> QED BY <3>1, <3>2, <3>3 DEF CallOk
  <2> QED BY <2>3, <2>4
<1>2. CASE RestoreGone(t) \/ RestoreAttrsFails(t) \/ RemoveSave(t) \/ RestoreEnd(t)
  <2>1. rst[t].pc # "open" /\ rst[t].pc # "drop" => rst[t].entry = NoEntry
    BY DEF CallOk, Held
  <2>2. rst'[t].pc \in {"next", "idle"} /\ rst'[t].entry = NoEntry
    BY <1>2, <2>1, RestoreFields DEF RemoveSave, RestoreEnd
  <2>3. rst'[t].pc = "idle" => rst'[t].todo = {}
    BY <1>2, RestoreFields
  <2> QED BY <2>2, <2>3, CallStarts
<1>3. CASE RestoreAttrs(t)
  <2>1. UNCHANGED <<touched, jailFile>> /\ rst[t].pc = "open"
    BY <1>3 DEF RestoreAttrs
  <2>2. rst'[t].pc = "drop" /\ rst'[t].pid = rst[t].pid /\ rst'[t].entry = rst[t].entry
    BY <1>3, RestoreFields
  <2> QED BY <1>e, <2>1, <2>2 DEF CallOk, Held, Removing
<1>4. CASE RestoreDrop(t)
  <2>1. rst'[t].entry = NoEntry
        /\ (rst'[t].pc = "next" \/ (rst'[t].pc = "load" /\ rst'[t].pid = rst[t].pid /\ SameGen(t)))
    BY <1>4, RestoreFields
  <2>2. CASE rst'[t].pc = "load"
    <3>1. touched' = [touched EXCEPT ![rst[t].pid] = NoEntry] /\ rst[t].pid \in Pids
      BY <1>4, <2>1, <2>2 DEF RestoreDrop, PopSame, CallOk, Held
    <3> QED BY <2>1, <2>2, <3>1 DEF CallOk, Held, Removing, Types
  <2> QED BY <2>1, <2>2, CallStarts
<1>5. CASE RemoveLoad(t)
  <2>1. UNCHANGED <<touched, jailFile>> /\ rst[t].pc = "load"
    BY <1>5 DEF RemoveLoad
  <2>2. rst'[t].entry = NoEntry
    BY <1>5, <2>1, RestoreFields DEF CallOk, Held
  <2>3. CASE rst'[t].pc = "save"
    <3>1. rst'[t].pid = rst[t].pid /\ rst'[t].file = [jailFile EXCEPT ![rst[t].pid] = NoRec]
      BY <1>5, <2>3, RestoreFields
    <3> QED BY <1>e, <2>1, <2>2, <2>3, <3>1 DEF CallOk, Held, Removing
  <2> QED BY <1>5, <2>2, <2>3, RestoreFields, CallStarts
<1> QED BY <1>1, <1>2, <1>3, <1>4, <1>5 DEF RestoreStep

(* Every step keeps the restore calls in order. *)
LEMMA CallsKept ==
  ASSUME Types, Types', MonShape, Stages, Gens, Calls, Next
  PROVE  Calls'
<1>u. ASSUME NEW t \in Threads, UNCHANGED <<engine, jailFile, touched, gen>>, rst'[t] = rst[t]
      PROVE  CallOk(t)'
  <2>1. gen <= gen' /\ Alone(t)' = Alone(t)
    BY <1>u, Numbers DEF Alone
  <2> QED BY <1>u, <2>1, CallKept DEF Calls
<1>h. \A t \in Threads : Held(t) \/ Removing(t) => rst[t].pc # "idle" /\ rst[t].pid \in Pids
  BY DEF Held, Removing, Calls, CallOk
<1>1. CASE Windows
  BY <1>1, <1>u DEF Windows, Spawn, Exit, session, Calls
<1>2. ASSUME NEW t \in Threads, RestoreStep(t)
      PROVE  Calls'
  <2>1. CallOk(t)'
    BY <1>2, CallStep DEF Calls
  <2>2. ASSUME NEW u \in Threads, u # t
        PROVE  CallOk(u)'
    <3>1. /\ rst'[u] = rst[u] /\ UNCHANGED <<engine, gen>> /\ gen <= gen'
          /\ \A p \in Pids : touched'[p] = touched[p] \/ touched'[p] = NoEntry
      BY <1>2, <2>2, RestoreLocal, Numbers
    <3>2. Alone(u)' = Alone(u) /\ (Alone(u) => rst[u].pc = "idle")
      BY <1>2, <2>2, <3>1, Restores, Numbers DEF Alone, Before, Stages
    <3> QED BY <3>1, <3>2, <1>h, CallKept DEF Calls
  <2> QED BY <2>1, <2>2 DEF Calls
<1>3. CASE Monitor
  <2>1. CASE Calling \/ Tunes
    <3>1. UNCHANGED <<engine, jailFile, touched, gen>>
      BY <2>1 DEF Calling, Tunes
    <3>2. ASSUME NEW t \in Threads
          PROVE  rst'[t] = rst[t] \/ (rst'[t].pc = "next" /\ rst'[t].entry = NoEntry)
      BY <2>1, CallFields, Numbers DEF Calling, Tunes, Types
    <3> QED BY <3>1, <3>2, <1>u, CallStarts DEF Calls
  <2>2. CASE Aside \/ Captured \/ Merges
    BY <2>2, <1>u DEF Aside, Captured, Merges, Calls
  <2>3. CASE Cleans \/ Records \/ \E p \in Pids : Enters(p)
    <3>1. UNCHANGED <<engine, rst>>
      BY <2>3 DEF Cleans, Records, Enters
    <3>2. gen <= gen' /\ \A p \in Pids : touched'[p] = touched[p] \/ touched'[p] = NoEntry \/ touched'[p].gen > gen
      <4>1. CASE Cleans \/ Records
        BY <4>1, Numbers DEF Cleans, Records
      <4>2. ASSUME NEW p \in Pids, Enters(p)
            PROVE  gen <= gen' /\ \A q \in Pids : touched'[q] = touched[q] \/ touched'[q].gen > gen
        <5>1. \E source \in Sources : Remember(p, source)
          BY <4>2 DEF Enters, Sources
        <5>2. gen \in Nat
          BY Numbers
        <5> QED BY <5>1, <5>2, RememberFields
      <4> QED BY <2>3, <4>1, <4>2
    <3>3. \A t \in Threads : Alone(t)' = Alone(t) /\ (Alone(t) => rst[t].pc = "idle")
      BY <2>3, <3>1, Numbers DEF Cleans, Records, Enters, Alone, Stages, Before
    <3>4. ASSUME engine' = "restoring"
          PROVE  engine = "restoring" /\ \A p \in Pids : touched'[p] \in {touched[p], NoEntry}
      BY <2>3, <3>1, <3>4 DEF Cleans, Records, Enters, GateOpen, Stages, Mutating
    <3> QED BY <3>1, <3>2, <3>3, <3>4, <1>h, CallKept DEF Calls
  <2> QED BY <1>3, <2>1, <2>2, <2>3, MonitorSteps
<1>4. ASSUME NEW p \in Pids, RecoverRestore(p)
      PROVE  Calls'
  <2>1. CallOk("main")'
    <3>1. rst'["main"] = RestoreCall({p})
      BY <1>4, ReinstateFields
    <3>2. rst'["main"].pc = "next" /\ rst'["main"].entry = NoEntry
      BY <3>1, CallFields
    <3> QED BY <3>2, CallStarts, Numbers
  <2>2. rst'["mon"] = rst["mon"] /\ rst["mon"].entry = NoEntry /\ rst["mon"].pc = "idle" /\ rst["mon"].todo = {}
    BY <1>4, ReinstateFields, Numbers DEF Stages, Before, Calls, CallOk, Held
  <2>3. CallOk("mon")'
    BY <2>2, CallStarts, Numbers
  <2> QED BY <2>1, <2>3, Numbers DEF Calls
<1>5. CASE Recovery
  <2>1. CASE RecoverResult
    <3>1. UNCHANGED <<engine, jailFile, touched, gen>> /\ rst' = [rst EXCEPT !["main"] = RstIdle]
      BY <2>1 DEF RecoverResult
    <3>2. ASSUME NEW t \in Threads
          PROVE  rst'[t] = rst[t] \/ (rst'[t].pc = "idle" /\ rst'[t].entry = NoEntry /\ rst'[t].todo = {})
      BY <3>1, CallFields DEF Types
    <3> QED BY <3>1, <3>2, <1>u, CallStarts DEF Calls
  <2>2. CASE Boot \/ RecoverFinish
    <3>1. \A t \in Threads : rst'[t] = rst[t] /\ rst[t].pc = "idle" /\ rst[t].entry = NoEntry /\ rst[t].todo = {}
      BY <2>2, Numbers DEF Boot, RecoverFinish, Stages, Before, Calls, CallOk, Held
    <3> QED BY <3>1, CallStarts DEF Calls
  <2>3. ASSUME NEW p \in Pids, RecoverDiscard(p) \/ RecoverUnresolved(p)
        PROVE  Calls'
    BY <2>3, <1>u DEF RecoverDiscard, RecoverUnresolved, Calls
  <2> QED BY <1>4, <1>5, <2>1, <2>2, <2>3 DEF Recovery
<1>6. CASE Shutdown
  <2>1. UNCHANGED <<jailFile, touched, gen>> /\ gen <= gen' /\ \A t \in Threads : ~Alone(t)'
    BY <1>6, Numbers DEF Shutdown, ShutdownClose, ShutdownDrain, ShutdownDone, Alone
  <2>2. ASSUME NEW t \in Threads
        PROVE  rst'[t] = rst[t] \/ (rst'[t].pc = "next" /\ rst'[t].entry = NoEntry)
    BY <1>6, CallFields DEF Shutdown, ShutdownClose, ShutdownDrain, ShutdownDone, Types
  <2>3. engine' = "restoring" => engine = "closing" /\ rst'["main"].pc = "next"
    BY <1>6, CallFields, Numbers DEF Shutdown, ShutdownClose, ShutdownDrain, ShutdownDone, Types
  <2>4. \A t \in Threads : t = "main" /\ rst'[t] = rst[t] /\ Held(t) => rst'["main"].pc # "next"
    BY DEF Held
  <2> QED BY <2>1, <2>2, <2>3, <2>4, CallKept, CallStarts DEF Calls
<1>7. CASE ProcessEnd
  BY <1>7, CallFields, CallStarts DEF ProcessEnd, ForgetSession, Calls
<1> QED BY <1>1, <1>2, <1>3, <1>5, <1>6, <1>7 DEF Next, Restoring

(* Every step leaves a process with its own settings or the engine's tuning. *)
LEMMA SettingsKept ==
  ASSUME Types, Types', MonShape, Stages, Calls, Snapshots, Settings, Next
  PROVE  Settings'
<1>1. CASE UNCHANGED <<born, live, attr>>
  BY <1>1 DEF Settings, Proc
<1>2. ASSUME NEW p \in Pids, Spawn(p) \/ Exit(p)
      PROVE  Settings'
  BY <1>2 DEF Spawn, Exit, Settings, Proc, Types
<1>3. ASSUME NEW t \in Threads, RestoreStep(t)
      PROVE  Settings'
  <2>1. CASE RestoreAttrs(t)
    <3>1. /\ rst[t].pid \in Pids /\ born[rst[t].pid] = rst[t].entry.ct /\ rst[t].entry.ct # 0
          /\ attr' = [attr EXCEPT ![rst[t].pid] = rst[t].entry.saved]
          /\ UNCHANGED <<born, live>>
      BY <2>1, Numbers DEF RestoreAttrs, Calls, CallOk, Held
    <3>2. rst[t].entry.saved \in {born[rst[t].pid], Jailed, Boosted}
      BY <2>1, <3>1 DEF RestoreAttrs, Snapshots, Genuine, Sound, Held
    <3> QED BY <3>1, <3>2 DEF Settings, Proc, Types
  <2> QED BY <1>1, <1>3, <2>1, RestoreLocal
<1>4. CASE Monitor
  <2>1. CASE Tunes
    <3>1. mon.pid \in Pids /\ UNCHANGED <<born, live>>
      BY <2>1 DEF Tunes, MonShape
    <3>2. \A p \in Pids : attr'[p] \in {attr[p], Jailed, Boosted}
      BY <2>1, <3>1 DEF Tunes, Types
    <3> QED BY <3>1, <3>2 DEF Settings, Proc
  <2> QED BY <1>1, <1>4, <2>1, MonitorSteps DEF Aside, Enters, Cleans, Calling, Captured, Merges, Records
<1>5. CASE Recovery \/ Shutdown \/ ProcessEnd
  BY <1>1, <1>5 DEF Recovery, Boot, RecoverResult, RecoverFinish, RecoverDiscard, RecoverUnresolved, RecoverRestore,
         Shutdown, ShutdownClose, ShutdownDrain, ShutdownDone, ProcessEnd, os
<1> QED BY <1>2, <1>3, <1>4, <1>5 DEF Next, Windows, Restoring

(* A process becomes astray only when the monitor tunes it. *)
LEMMA AstrayArises ==
  ASSUME Types, Types', MonShape, Stages, Calls, Settings, Snapshots, Next, NEW p \in Pids, Astray(p)'
  PROVE  /\ born'[p] = born[p] /\ live[p] /\ born[p] # 0 /\ (Tunes \/ attr'[p] = attr[p])
         /\ Astray(p) \/ (Tunes /\ p = mon.pid)
         /\ Proc(p)' = Proc(p) /\ Proc(p) \notin excused /\ Proc(p) \notin excused'
<1>g. excused \subseteq excused'
  BY Grows DEF Growth
<1>n. born[p] \in 0..MaxBirth /\ born'[p] \in 0..MaxBirth /\ MaxBirth \in Nat
  BY TuningAssumption DEF Types
<1>a. live'[p] /\ attr'[p] \in {Jailed, Boosted} /\ Proc(p)' \notin excused'
  BY DEF Astray, Tuned
<1>0. ASSUME UNCHANGED <<born, live>>, attr'[p] = attr[p] \/ (Tunes /\ p = mon.pid)
      PROVE  /\ born'[p] = born[p] /\ live[p] /\ born[p] # 0 /\ (Tunes \/ attr'[p] = attr[p])
             /\ Astray(p) \/ (Tunes /\ p = mon.pid)
             /\ Proc(p)' = Proc(p) /\ Proc(p) \notin excused /\ Proc(p) \notin excused'
  BY <1>0, <1>a, <1>g DEF Astray, Tuned, Proc, Settings
<1>1. CASE Windows
  <2>1. PICK q \in Pids : Spawn(q) \/ Exit(q)
    BY <1>1 DEF Windows
  <2>2. q # p
    <3>1. Exit(q) /\ q = p => ~live'[p]
      BY DEF Exit, Types
    <3>2. Spawn(q) /\ q = p => attr'[p] = born[p] + 1 /\ born'[p] = born[p] + 1
      BY DEF Spawn, Types
    <3> QED BY <2>1, <3>1, <3>2, <1>a, <1>n DEF Jailed, Boosted
  <2>3. born'[p] = born[p] /\ live'[p] = live[p] /\ attr'[p] = attr[p] /\ excused' = excused
    BY <2>1, <2>2 DEF Spawn, Exit, Types
  <2> QED BY <2>3, <1>a, <1>g DEF Astray, Tuned, Proc, Settings
<1>2. CASE Restoring
  <2>1. PICK t \in Threads : RestoreStep(t)
    BY <1>2 DEF Restoring
  <2>2. UNCHANGED <<born, live>>
    BY <2>1, RestoreLocal
  <2>3. RestoreAttrs(t) => p # rst[t].pid
    <3> SUFFICES ASSUME RestoreAttrs(t), p = rst[t].pid PROVE FALSE
      OBVIOUS
    <3>1. /\ attr'[p] = rst[t].entry.saved /\ born[p] = rst[t].entry.ct /\ rst[t].entry.ct # 0 /\ excused' = excused
      BY Numbers DEF RestoreAttrs, Types, Calls, CallOk, Held
    <3>2. rst[t].entry.saved = born[p] \/ Proc(p) \in excused
      BY <3>1 DEF RestoreAttrs, Snapshots, Genuine, Sound, Held, Proc
    <3> QED BY <3>1, <3>2, <2>2, <1>a, <1>n DEF Jailed, Boosted, Proc
  <2>4. attr'[p] = attr[p]
    BY <2>1, <2>3, RestoreLocal DEF RestoreAttrs, Types
  <2> QED BY <2>2, <2>4, <1>0
<1>3. CASE Monitor
  <2>1. UNCHANGED <<born, live>>
    BY <1>3, MonitorSteps DEF Aside, Enters, Cleans, Calling, Tunes, Captured, Merges, Records
  <2>2. attr'[p] = attr[p] \/ (Tunes /\ p = mon.pid)
    BY <1>3, MonitorSteps DEF Aside, Enters, Cleans, Calling, Tunes, Captured, Merges, Records, Types
  <2> QED BY <2>1, <2>2, <1>0
<1>4. CASE Recovery \/ Shutdown \/ ProcessEnd
  <2>1. UNCHANGED <<born, live, attr>>
    BY <1>4 DEF Recovery, Boot, RecoverResult, RecoverFinish, RecoverDiscard, RecoverUnresolved, RecoverRestore,
         Shutdown, ShutdownClose, ShutdownDrain, ShutdownDone, ProcessEnd, os
  <2> QED BY <2>1, <1>0
<1> QED BY <1>1, <1>2, <1>3, <1>4 DEF Next

(* A restored process is not astray any more. *)
LEMMA Restored ==
  ASSUME Types, Types', Calls, Settings, Snapshots, NEW t \in Threads, RestoreAttrs(t), NEW p \in Pids, p = rst[t].pid
  PROVE  ~Astray(p)'
<1>1. /\ attr'[p] = rst[t].entry.saved /\ born[p] = rst[t].entry.ct /\ rst[t].entry.ct # 0
      /\ UNCHANGED <<born, live, excused>>
  BY Numbers DEF RestoreAttrs, Types, Calls, CallOk, Held
<1>2. rst[t].entry.saved = born[p] \/ Proc(p) \in excused
  BY <1>1 DEF RestoreAttrs, Snapshots, Genuine, Sound, Held, Proc
<1>3. born[p] \in 0..MaxBirth /\ MaxBirth \in Nat
  BY <1>1, TuningAssumption DEF Types
<1> QED BY <1>1, <1>2, <1>3 DEF Astray, Tuned, Jailed, Boosted, Proc

(* Every step keeps the snapshot fresh until the cleanup has used it. *)
LEMMA FreshKept ==
  ASSUME Types, Types', MonShape, Stages, Calls, Settings, Snapshots, Fresh, Next
  PROVE  Fresh'
<1> SUFFICES ASSUME mon'.pc \in {"observe", "cleanup"}, NEW p \in Pids, mon'.snap[p] = 0, Astray(p)'
             PROVE  FALSE
  BY DEF Fresh
<1>1. live[p] /\ born[p] # 0 /\ (mon.pc \notin {"boost", "apply"} => Astray(p))
  BY AstrayArises DEF Tunes
<1>2. CASE mon' = mon
  BY <1>1, <1>2 DEF Fresh
<1>3. CASE MonSnapshot
  <2>1. mon'.snap = [q \in Pids |-> IF live[q] THEN born[q] ELSE 0]
    BY <1>3 DEF MonSnapshot, Types, MonType
  <2> QED BY <2>1, <1>1
<1>4. CASE MonObserve
  <2>1. mon'.snap = mon.snap /\ mon.pc = "observe"
    BY <1>4 DEF MonObserve, Types, MonType
  <2> QED BY <2>1, <1>1 DEF Fresh
<1>5. CASE MonExit
  BY <1>5, CycleFields DEF MonExit
<1>6. CASE Monitor
  <2>1. Aside
    BY <1>6, MonitorSteps DEF Enters, Cleans, Calling, Tunes, Captured, Merges, Records, MonShape
  <2>2. mon.pc \in {"loop", "observe"}
    BY <2>1 DEF Aside
  <2> QED BY <1>3, <1>4, <1>5, <1>6, <2>2
       DEF Monitor, MonCleanup, MonCleanupNotDue, MonNoneClosed, MonRestoreClosed, MonClosedRestored, MonJailBatch,
           MonLeaveGameMode, MonLeft, MonModeIdle, Boost, JailApply, JailApplyFails, JailUndone, BatchEnd,
           RecordCapture,
           RecordLoad, RecordSave, FgSame, FgJailName, FgJailOpen, OptimizeEnter, BatchJail, FgChange, FgBoost
<1>7. CASE RecoverFinish
  BY <1>2, <1>7, RecFields
<1>8. CASE ProcessEnd
  BY <1>8, CycleFields DEF ProcessEnd, ForgetSession
<1> QED BY <1>2, <1>6, <1>7, <1>8, MonitorIdle

(* Every step keeps the released processes untuned. *)
LEMMA ReleasedKept ==
  ASSUME Types, Types', MonShape, Stages, Calls, Calls', CallArgs, Settings, Snapshots, Released, Next
  PROVE  Released'
<1>1. ASSUME NEW t \in Threads, rst'[t].pc = "drop" \/ Removing(t)', NEW p \in Pids, p = rst'[t].pid, Astray(p)'
      PROVE  FALSE
  <2>1. CASE rst'[t] = rst[t]
    <3>1. ~Astray(p) /\ rst[t].pc # "idle"
      BY <1>1, <2>1 DEF Released, Removing
    <3>2. Tunes
      BY <1>1, <3>1, AstrayArises
    <3> QED BY <3>1, <3>2, Numbers DEF Tunes, Stages, Before, Mutating
  <2>2. CASE RestoreStep(t)
    <3>1. ~Tunes
      <4>1. mon' = mon
        BY <2>2, RestoreLocal
      <4> QED BY <4>1 DEF Tunes, MonShape
    <3>2. Astray(p)
      BY <1>1, <3>1, AstrayArises
    <3>3. CASE RestoreAttrs(t)
      BY <1>1, <3>3, RestoreFields, Restored
    <3>4. CASE RestoreDrop(t) \/ RemoveLoad(t)
      <4>1. rst'[t].pc \in {"load", "save"} /\ p = rst[t].pid /\ rst[t].pc \in {"drop", "load"}
        BY <1>1, <3>4, RestoreFields DEF Removing, RestoreDrop, RemoveLoad
      <4> QED BY <3>2, <4>1 DEF Released, Removing
    <3>5. CASE \E q \in Pids : RestoreRead(t, q)
      BY <1>1, <3>5, RestoreFields DEF Removing
    <3>6. CASE RestoreGone(t) \/ RestoreAttrsFails(t) \/ RemoveSave(t) \/ RestoreEnd(t)
      BY <1>1, <3>6, RestoreFields DEF Removing
    <3> QED BY <2>2, <3>3, <3>4, <3>5, <3>6 DEF RestoreStep
  <2>3. CASE rst'[t].pc \in {"idle", "next"}
    BY <1>1, <2>3 DEF Removing
  <2>4. Windows => rst' = rst
    BY DEF Windows, Spawn, Exit, session
  <2>5. Restoring => rst'[t] = rst[t] \/ RestoreStep(t)
    BY RestoreLocal DEF Restoring
  <2>6. Monitor => rst'[t] = rst[t] \/ rst'[t].pc = "next"
    BY MonitorSteps, CallFields DEF Aside, Enters, Cleans, Calling, Tunes, Captured, Merges, Records, Types
  <2>7. Recovery => rst'[t] = rst[t] \/ rst'[t].pc \in {"idle", "next"}
    <3>1. Recovery => \/ rst' = rst \/ rst' = [rst EXCEPT !["main"] = RstIdle]
                      \/ \E q \in Pids : rst' = [rst EXCEPT !["main"] = RestoreCall({q})]
      BY DEF Recovery, Boot, RecoverResult, RecoverFinish, RecoverDiscard, RecoverUnresolved, RecoverRestore
    <3>2. RstIdle.pc = "idle" /\ \A q \in Pids : RestoreCall({q}).pc = "next"
      BY CallFields
    <3>3. rst \in [Threads -> RstType]
      BY DEF Types
    <3>4. rst' = [rst EXCEPT !["main"] = RstIdle] => rst'[t] = rst[t] \/ rst'[t].pc = "idle"
      BY <3>2, <3>3
    <3>5. ASSUME NEW q \in Pids, rst' = [rst EXCEPT !["main"] = RestoreCall({q})]
          PROVE  rst'[t] = rst[t] \/ rst'[t].pc = "next"
      BY <3>2, <3>3, <3>5
    <3> QED BY <3>1, <3>4, <3>5
  <2>8. Shutdown => rst'[t] = rst[t] \/ rst'[t].pc = "next"
    BY CallFields DEF Shutdown, ShutdownClose, ShutdownDrain, ShutdownDone, Types
  <2>9. ProcessEnd => rst'[t].pc = "idle"
    BY CallFields DEF ProcessEnd, ForgetSession
  <2> QED BY <2>1, <2>2, <2>3, <2>4, <2>5, <2>6, <2>7, <2>8, <2>9 DEF Next
<1>2. ASSUME rec'.pid # None, rst'["main"].ok, NEW p \in Pids, p = rec'.pid, Astray(p)'
      PROVE  FALSE
  <2>1. ASSUME rec'.pid = rec.pid, rst'["main"].ok = rst["main"].ok
        PROVE  FALSE
    <3>1. ~Astray(rec.pid) /\ engine = "recovering"
      BY <1>2, <2>1 DEF Released, Stages
    <3>2. Tunes
      BY <1>2, <2>1, <3>1, AstrayArises
    <3> QED BY <3>1, <3>2 DEF Tunes, Stages, Before
  <2>2. CASE Restoring
    <3>1. PICK t \in Threads : RestoreStep(t)
      BY <2>2 DEF Restoring
    <3>2. rec' = rec /\ mon' = mon /\ \A u \in Threads : u # t => rst'[u] = rst[u]
      BY <3>1, RestoreLocal
    <3>3. CASE t = "main" /\ RestoreDrop(t)
      <4>1. rst["main"].pc = "drop" /\ rst["main"].pid = rec.pid
        BY <1>2, <3>2, <3>3 DEF RestoreDrop, CallArgs, Held
      <4>2. ~Astray(rec.pid)
        BY <4>1, Numbers DEF Released
      <4>3. Tunes
        BY <1>2, <3>2, <4>2, AstrayArises
      <4> QED BY <3>2, <4>3 DEF Tunes, MonShape
    <3>4. CASE ~(t = "main" /\ RestoreDrop(t))
      <4>1. rst'["main"].ok = rst["main"].ok
        <5>1. CASE t = "main"
          <6>1. \/ \E q \in Pids : RestoreRead(t, q)
                \/ RestoreGone(t) \/ RestoreAttrs(t) \/ RestoreAttrsFails(t) \/ RemoveLoad(t) \/ RemoveSave(t)
                \/ RestoreEnd(t)
            BY <3>1, <3>4, <5>1 DEF RestoreStep
          <6> QED BY <5>1, <6>1, RestoreFields
        <5> QED BY <3>2, <5>1, Numbers
      <4> QED BY <2>1, <3>2, <4>1
    <3> QED BY <3>3, <3>4
  <2>3. Windows => FALSE
    BY <2>1 DEF Windows, Spawn, Exit, session
  <2>4. Monitor => FALSE
    <3>1. Monitor => rec' = rec /\ rst'["main"] = rst["main"]
      BY MonitorSteps, Numbers DEF Aside, Enters, Cleans, Calling, Tunes, Captured, Merges, Records, Types
    <3> QED BY <2>1, <3>1
  <2>5. Recovery => FALSE
    <3>1. ~Boot /\ ~RecoverResult /\ ~RecoverFinish
      BY <1>2, RecFields
    <3>2. ASSUME NEW q \in Pids, RecoverRestore(q)
          PROVE  FALSE
      <4>1. rst'["main"] = RestoreCall({q})
        BY <3>2, ReinstateFields
      <4> QED BY <1>2, <4>1, CallFields
    <3>3. ASSUME NEW q \in Pids, RecoverDiscard(q) \/ RecoverUnresolved(q)
          PROVE  FALSE
      BY <2>1, <3>3, RecFields DEF RecoverDiscard, RecoverUnresolved
    <3> QED BY <3>1, <3>2, <3>3 DEF Recovery
  <2>6. Shutdown => FALSE
    <3>1. Shutdown => rec' = rec /\ engine # "recovering"
      BY DEF Shutdown, ShutdownClose, ShutdownDrain, ShutdownDone
    <3> QED BY <1>2, <3>1 DEF Stages
  <2>7. ProcessEnd => FALSE
    BY <1>2 DEF ProcessEnd, ForgetSession, RecIdle
  <2> QED BY <2>2, <2>3, <2>4, <2>5, <2>6, <2>7 DEF Next
<1>3. \A t \in Threads : rst'[t].pc = "drop" \/ Removing(t)' => rst'[t].pid \in Pids
  BY DEF Calls, CallOk, Held, Removing
<1>4. rec'.pid # None => rec'.pid \in Pids
  BY DEF Types, RecType
<1>5. ASSUME NEW t \in Threads, rst'[t].pc = "drop" \/ Removing(t)'
      PROVE  ~Astray(rst[t].pid)'
  <2>1. ~(\E p \in Pids : p = rst'[t].pid /\ Astray(p)')
    BY <1>1, <1>5
  <2> QED BY <1>3, <1>5, <2>1 DEF Astray, Tuned, Proc
<1>6. ASSUME rec'.pid # None, rst'["main"].ok
      PROVE  ~Astray(rec.pid)'
  <2>1. ~(\E p \in Pids : p = rec'.pid /\ Astray(p)')
    BY <1>2, <1>6
  <2> QED BY <1>4, <1>6, <2>1 DEF Astray, Tuned, Proc
<1> QED BY <1>5, <1>6 DEF Released

(* Every step keeps whoever is tuned tracked. *)
LEMMA TrackedKept ==
  ASSUME Types, Types', MonShape, Stages, Calls, CallArgs, Settings, Snapshots, Mine, Fresh, Released, Tracked, Next
  PROVE  Tracked'
<1> DEFINE Kept(p) ==
      /\ Before' => Recorded(p)'
      /\ engine' = "recovering" => rec'.pids[p].ct = born'[p]
      /\ ~Before' /\ ~rec'.unresolved => touched'[p].ct = born'[p]
      /\ engine' = "restoring" /\ ~rec'.unresolved =>
           p \in rst'["main"].todo \/ (rst'["main"].pc = "open" /\ rst'["main"].pid = p)
      /\ engine' = "stopped" => rec'.unresolved
<1> SUFFICES ASSUME NEW p \in Pids, Astray(p)'
             PROVE  Kept(p)
  BY DEF Tracked
<1>b. born'[p] = born[p] /\ born[p] # 0 /\ live[p] /\ Proc(p) \notin excused /\ Proc(p) \notin excused'
      /\ (Astray(p) \/ (Tunes /\ p = mon.pid))
  BY AstrayArises
<1>t. ASSUME ~Tunes
      PROVE  /\ Astray(p)
             /\ Before => Recorded(p)
             /\ engine = "recovering" => rec.pids[p].ct = born[p]
             /\ ~Before /\ ~rec.unresolved => touched[p].ct = born[p]
             /\ engine = "restoring" /\ ~rec.unresolved =>
                   p \in rst["main"].todo \/ (rst["main"].pc = "open" /\ rst["main"].pid = p)
             /\ engine = "stopped" => rec.unresolved
  BY <1>b, <1>t DEF Tracked
<1>u. mon' = mon => ~Tunes
  BY DEF Tunes, MonShape
<1>1. ASSUME ~Tunes, UNCHANGED <<jailFile, engine, touched, rec>>, rst'["main"] = rst["main"]
      PROVE  Kept(p)
  BY <1>1, <1>t, <1>b DEF Before, Recorded
<1>2. ASSUME NEW t \in Threads, RestoreStep(t)
      PROVE  Kept(p)
  <2>1. UNCHANGED <<engine, mon, rec>> /\ ~Tunes /\ \A v \in Threads : v # t => rst'[v] = rst[v]
    BY <1>2, <1>u, RestoreLocal
  <2>2. Before => Recorded(p)'
    <3> SUFFICES ASSUME Before, jailFile' # jailFile PROVE jailFile'[p] = jailFile[p]
      BY <1>b, <1>t, <2>1 DEF Recorded
    <3>1. engine = "recovering" /\ t = "main" /\ rec.pid # None /\ ~rst[t].all
      BY <1>2, Restores, Numbers DEF CallArgs, Before
    <3>2. rst[t].pc = "save" /\ jailFile' = rst[t].file
      BY <1>2, <3>1, RestoreLocal DEF RemoveSave
    <3>3. rst[t].file = [jailFile EXCEPT ![rst[t].pid] = NoRec] /\ ~Astray(rst[t].pid)
      BY <3>1, <3>2 DEF Calls, CallOk, Removing, Alone, Released
    <3> QED BY <3>2, <3>3, <2>1, <1>t DEF Types
  <2>3. ASSUME ~Before, ~rec.unresolved
        PROVE  touched'[p].ct = born[p]
    <3> SUFFICES ASSUME touched'[p] # touched[p] PROVE FALSE
      BY <2>1, <2>3, <1>t
    <3>1. p = rst[t].pid /\ SameGen(t) /\ Held(t)
      BY <1>2, RestoreLocal
    <3>2. touched[p] = rst[t].entry /\ touched[p].ct = born[p]
      BY <2>1, <2>3, <1>t, <3>1 DEF Calls, CallOk, SameGen
    <3>3. ~RestoreGone(t) /\ ~RestoreAttrsFails(t)
      BY <1>b, <3>1, <3>2 DEF RestoreGone, RestoreAttrsFails
    <3>4. ~RestoreDrop(t)
      BY <2>1, <1>t, <3>1 DEF RestoreDrop, Released
    <3>5. \/ \E q \in Pids : RestoreRead(t, q)
          \/ RestoreAttrs(t) \/ RemoveLoad(t) \/ RemoveSave(t) \/ RestoreEnd(t)
      BY <1>2, <3>3, <3>4 DEF RestoreStep
    <3> QED BY <3>5 DEF RestoreRead, RestoreAttrs, RemoveLoad, RemoveSave, RestoreEnd
  <2>4. ASSUME engine = "restoring", ~rec.unresolved
        PROVE  p \in rst'["main"].todo \/ (rst'["main"].pc = "open" /\ rst'["main"].pid = p)
    <3>1. /\ p \in rst["main"].todo \/ (rst["main"].pc = "open" /\ rst["main"].pid = p)
          /\ touched[p].ct = born[p] /\ touched[p] # NoEntry
      BY <2>1, <2>4, <1>t, <1>b, Numbers DEF Before
    <3>2. CASE t # "main"
      BY <2>1, <3>1, <3>2, Numbers
    <3>3. CASE t = "main" /\ \E q \in Pids : RestoreRead(t, q)
      <4>1. PICK q \in Pids : RestoreRead(t, q)
        BY <3>3
      <4>2. /\ rst'[t].todo = rst[t].todo \ {q}
            /\ touched[q] = NoEntry \/ (rst'[t].pc = "open" /\ rst'[t].pid = q)
        BY <4>1, RestoreFields
      <4>3. rst[t].pc = "next"
        BY <4>1 DEF RestoreRead
      <4> QED BY <3>1, <3>3, <4>2, <4>3
    <3>4. CASE t = "main" /\ (RestoreGone(t) \/ RestoreAttrsFails(t))
      <4>1. CASE rst[t].pid = p
        <5>1. touched[p] = rst[t].entry
          BY <2>4, <3>1, <3>4, <4>1 DEF Calls, CallOk, Held, RestoreGone, RestoreAttrsFails
        <5> QED BY <1>b, <3>1, <3>4, <4>1, <5>1 DEF RestoreGone, RestoreAttrsFails
      <4>2. CASE rst[t].pid # p
        BY <3>1, <3>4, <4>2, RestoreFields
      <4> QED BY <4>1, <4>2
    <3>5. CASE t = "main" /\ RestoreAttrs(t)
      <4>1. rst[t].pid # p
        BY <3>5, Restored
      <4> QED BY <3>1, <3>5, <4>1, RestoreFields
    <3>6. CASE t = "main" /\ (RestoreDrop(t) \/ RemoveLoad(t) \/ RemoveSave(t))
      BY <3>1, <3>6, RestoreFields DEF RestoreDrop, RemoveLoad, RemoveSave
    <3>7. CASE t = "main" /\ RestoreEnd(t)
      BY <3>1, <3>7 DEF RestoreEnd
    <3> QED BY <1>2, <3>2, <3>3, <3>4, <3>5, <3>6, <3>7 DEF RestoreStep
  <2> QED BY <1>b, <1>t, <2>1, <2>2, <2>3, <2>4 DEF Before
<1>3. CASE Monitor
  <2>1. UNCHANGED <<engine, rec>> /\ rst'["main"] = rst["main"]
    BY <1>3, MonitorSteps, Numbers DEF Aside, Enters, Cleans, Calling, Tunes, Captured, Merges, Records, Types
  <2>2. CASE Aside \/ Calling \/ Captured \/ Merges
    BY <2>1, <2>2, <1>1 DEF Aside, Calling, Captured, Merges, Tunes
  <2>3. CASE Tunes
    <3>1. ~Before /\ engine \notin {"restoring", "stopped"} /\ UNCHANGED <<touched, jailFile>>
      BY <2>3 DEF Tunes, Stages, Mutating, Before
    <3>2. touched[p].ct = born[p]
      BY <2>3, <3>1, <1>b DEF Tunes, Mine, Tracked, Stages
    <3> QED BY <2>1, <3>1, <3>2, <1>b DEF Before
  <2>4. ASSUME NEW q \in Pids, Enters(q)
        PROVE  Kept(p)
    <3>1. UNCHANGED jailFile /\ ~Tunes /\ \E source \in Sources : Remember(q, source)
      BY <2>4 DEF Enters, Sources, Tunes
    <3>2. touched'[p].ct \in {touched[p].ct, born[p]}
      BY <3>1, RememberFields
    <3> QED BY <2>1, <3>1, <3>2, <1>b, <1>t DEF Before, Recorded
  <2>5. CASE Cleans
    <3>1. ~Tunes /\ UNCHANGED jailFile
      BY <2>5 DEF Cleans, Tunes
    <3>2. touched'[p] = touched[p]
      BY <2>5, <3>1, <1>t DEF Cleans, Fresh
    <3> QED BY <2>1, <3>1, <3>2, <1>b, <1>t DEF Before, Recorded
  <2>6. CASE Records
    <3>1. ~Tunes /\ ~Before /\ UNCHANGED touched
      BY <2>6 DEF Records, Tunes, Stages
    <3> QED BY <2>1, <3>1, <1>b, <1>t DEF Before
  <2> QED BY <1>3, <2>2, <2>3, <2>4, <2>5, <2>6, MonitorSteps
<1>4. CASE Recovery
  <2>1. engine \in {"down", "recovering"} /\ ~Tunes
    BY <1>4 DEF Recovery, Boot, RecoverResult, RecoverFinish, RecoverDiscard, RecoverUnresolved, RecoverRestore,
       Recovering, Stages, Before, Tunes
  <2>2. Astray(p) /\ Recorded(p) /\ jailFile[p] # NoRec
        /\ (engine = "recovering" => rec.pids[p].ct = born[p] /\ rec.pids[p] # NoRec)
    BY <2>1, <1>t, <1>b, Numbers DEF Before, Recorded
  <2>3. CASE Boot
    BY <2>2, <2>3, <1>b, RecFields DEF Boot, Before, Recorded
  <2>4. CASE RecoverResult
    <3>1. rst["main"].ok => p # rec.pid
      BY <2>2, <2>4 DEF RecoverResult, Released
    <3>2. rec'.pids[p] = rec.pids[p]
      BY <2>4, <3>1, RecFields DEF Types, RecType
    <3>3. engine = "recovering"
      BY <2>4 DEF RecoverResult, Stages
    <3> QED BY <2>2, <2>4, <3>2, <3>3, <1>b DEF RecoverResult, Before, Recorded
  <2>5. CASE RecoverFinish
    <3>1. engine = "recovering" /\ jailFile'[p].ct = born[p] /\ jailFile' # EmptyFile
      BY <2>2, <2>5, Numbers DEF RecoverFinish, Recorded
    <3>2. engine' = "refused"
      BY <2>5, <3>1 DEF RecoverFinish
    <3> QED BY <3>1, <3>2, <1>b DEF Before, Recorded
  <2>6. ASSUME NEW q \in Pids, RecoverDiscard(q)
        PROVE  Kept(p)
    <3>1. q # p
      BY <2>2, <2>6, <1>b DEF RecoverDiscard
    <3>2. rec'.pids[p] = rec.pids[p]
      <4>1. rec'.pids = [rec.pids EXCEPT ![q] = NoRec]
        BY <2>6, RecFields
      <4> QED BY <3>1, <4>1 DEF Types, RecType
    <3>3. engine = "recovering" /\ UNCHANGED <<engine, jailFile>>
      BY <2>6 DEF RecoverDiscard, Recovering
    <3> QED BY <2>2, <3>2, <3>3, <1>b DEF Before, Recorded
  <2>7. ASSUME NEW q \in Pids, RecoverUnresolved(q) \/ RecoverRestore(q)
        PROVE  Kept(p)
    <3>0. rec'.pids = rec.pids
      BY <2>7, RecFields
    <3>1. rec'.pids = rec.pids /\ engine = "recovering" /\ UNCHANGED <<engine, jailFile>>
      BY <2>7, <3>0 DEF RecoverUnresolved, RecoverRestore, Recovering
    <3> QED BY <2>2, <3>1, <1>b DEF Before, Recorded
  <2> QED BY <1>4, <2>3, <2>4, <2>5, <2>6, <2>7 DEF Recovery
<1>5. CASE Shutdown
  <2>1. ~Tunes /\ UNCHANGED <<touched, rec, jailFile>>
    BY <1>5, <1>u DEF Shutdown, ShutdownClose, ShutdownDrain, ShutdownDone
  <2>2. CASE ShutdownClose
    BY <2>1, <2>2, <1>b, <1>t DEF ShutdownClose, Before, Stages
  <2>3. CASE ShutdownDrain
    <3>1. rst'["main"] = RestoreAllCall /\ engine = "closing" /\ engine' = "restoring"
      BY <2>3, Numbers DEF ShutdownDrain, Types
    <3>2. ~rec.unresolved => touched[p].ct = born[p] /\ touched[p] # NoEntry
      BY <2>1, <3>1, <1>b, <1>t, Numbers DEF Before
    <3>3. rst'["main"].todo = {q \in Pids : touched[q] # NoEntry}
      BY <3>1, CallFields
    <3> QED BY <2>1, <3>1, <3>2, <3>3, <1>b DEF Before
  <2>4. CASE ShutdownDone
    <3>1. rst["main"].pc = "idle" /\ rst["main"].todo = {} /\ engine = "restoring" /\ engine' = "stopped"
      BY <2>4, Numbers DEF ShutdownDone, Calls, CallOk
    <3> QED BY <2>1, <3>1, <1>b, <1>t DEF Before
  <2> QED BY <1>5, <2>2, <2>3, <2>4 DEF Shutdown
<1>6. CASE ProcessEnd
  <2>1. UNCHANGED <<born, live, attr, jailFile>> /\ engine' = "down"
        /\ excused' = excused \cup {Proc(q) : q \in {v \in Pids : Tuned(v) /\ ~Recorded(v)}}
    BY <1>6 DEF ProcessEnd, ForgetSession, os
  <2>2. Tuned(p)
    BY <2>1 DEF Astray, Tuned
  <2>3. Recorded(p)'
    BY <2>1, <2>2, <1>b DEF Recorded
  <2> QED BY <2>1, <2>3 DEF Before
<1>7. CASE Windows
  BY <1>7, <1>1, <1>u DEF Windows, Spawn, Exit, session
<1> QED BY <1>2, <1>3, <1>4, <1>5, <1>6, <1>7 DEF Next, Restoring

(* A process comes to own its entry only on entering a mutation, or when recovery reinstates it. *)
LEMMA OwnedArises ==
  ASSUME Types, Types', MonShape, Stages, Settings, Snapshots, Next, NEW p \in Pids, Owned(p)'
  PROVE  /\ born'[p] = born[p] /\ live[p] /\ born[p] # 0 /\ Proc(p)' = Proc(p) /\ Proc(p) \notin excused
         /\ Proc(p) \notin excused'
         /\ touched'[p] = touched[p] \/ Enters(p) \/ RecoverRestore(p)
<1>g. excused \subseteq excused'
  BY Grows DEF Growth
<1>n. /\ born[p] \in Nat /\ touched[p].ct \in Nat /\ NoEntry.ct = 0
      /\ touched[p].ct <= born[p] \/ touched[p].ct = 0
  <2>1. born[p] \in Nat /\ touched[p].ct \in Nat /\ NoEntry.ct = 0
    BY Numbers, TuningAssumption
  <2>2. Genuine(p, touched[p])
    BY DEF Snapshots
  <2> QED BY <2>1, <2>2 DEF Genuine, Sound
<1>a. live'[p] /\ touched'[p].ct = born'[p] /\ Proc(p)' \notin excused'
  BY DEF Owned
<1>0. ASSUME UNCHANGED <<born, live>>,
             touched'[p] = touched[p] \/ touched'[p] = NoEntry \/ Enters(p) \/ RecoverRestore(p)
      PROVE  /\ born'[p] = born[p] /\ live[p] /\ born[p] # 0 /\ Proc(p)' = Proc(p) /\ Proc(p) \notin excused
             /\ Proc(p) \notin excused'
             /\ touched'[p] = touched[p] \/ Enters(p) \/ RecoverRestore(p)
  BY <1>0, <1>a, <1>g, <1>n DEF Proc, Settings
<1>1. CASE Windows
  <2>1. PICK q \in Pids : Spawn(q) \/ Exit(q)
    BY <1>1 DEF Windows
  <2>2. touched' = touched /\ excused' = excused
    BY <2>1 DEF Spawn, Exit, session
  <2>3. q # p
    <3>1. Exit(q) /\ q = p => ~live'[p]
      BY DEF Exit, Types
    <3>2. Spawn(q) /\ q = p => born'[p] = born[p] + 1
      BY DEF Spawn, Types
    <3> QED BY <2>1, <2>2, <3>1, <3>2, <1>a, <1>n
  <2>4. born'[p] = born[p] /\ live'[p] = live[p]
    BY <2>1, <2>3 DEF Spawn, Exit, Types
  <2> QED BY <2>2, <2>4, <1>a, <1>g DEF Proc, Settings
<1>2. CASE Restoring
  <2>1. PICK t \in Threads : RestoreStep(t)
    BY <1>2 DEF Restoring
  <2> QED BY <2>1, <1>0, RestoreLocal
<1>3. CASE Monitor
  <2>1. UNCHANGED <<born, live>>
    BY <1>3, MonitorSteps DEF Aside, Enters, Cleans, Calling, Tunes, Captured, Merges, Records
  <2>2. ASSUME NEW q \in Pids, Enters(q)
        PROVE  touched'[p] = touched[p] \/ Enters(p)
    <3>1. \E source \in Sources : Remember(q, source)
      BY <2>2 DEF Enters, Sources
    <3> QED BY <2>2, <3>1, RememberFields
  <2>3. touched'[p] = touched[p] \/ touched'[p] = NoEntry \/ Enters(p)
    BY <1>3, <2>2, MonitorSteps DEF Aside, Cleans, Calling, Tunes, Captured, Merges, Records
  <2> QED BY <2>1, <2>3, <1>0
<1>4. CASE Recovery
  <2>1. ASSUME NEW q \in Pids, RecoverRestore(q)
        PROVE  touched'[p] = touched[p] \/ RecoverRestore(p)
    BY <2>1, ReinstateFields
  <2>2. touched'[p] = touched[p] \/ RecoverRestore(p)
    BY <1>4, <2>1 DEF Recovery, Boot, RecoverResult, RecoverFinish, RecoverDiscard, RecoverUnresolved
  <2>3. UNCHANGED <<born, live>>
    BY <1>4 DEF Recovery, Boot, RecoverResult, RecoverFinish, RecoverDiscard, RecoverUnresolved, RecoverRestore, os
  <2> QED BY <2>2, <2>3, <1>0
<1>5. CASE Shutdown
  BY <1>5, <1>0 DEF Shutdown, ShutdownClose, ShutdownDrain, ShutdownDone, os
<1>6. CASE ProcessEnd
  <2>1. UNCHANGED <<born, live>> /\ touched'[p] = NoEntry
    BY <1>6 DEF ProcessEnd, ForgetSession, os
  <2> QED BY <2>1, <1>0
<1> QED BY <1>1, <1>2, <1>3, <1>4, <1>5, <1>6 DEF Next

(* A process that is to be restored stays so until it is restored. *)
LEMMA UnderKept ==
  ASSUME Types, Types', Calls, Settings, NEW t \in Threads, Alone(t), RestoreStep(t),
         NEW p \in Pids, Under(t, p), live[p], born[p] # 0, touched'[p].ct = born[p], Proc(p) \notin excused'
  PROVE  Under(t, p)' /\ rst'[t].pc # "idle"
<1>u. p \in rst[t].todo \/ (rst[t].pc \in {"open", "drop"} /\ rst[t].pid = p /\ touched[p] = rst[t].entry)
  BY DEF Under, Held, Calls, CallOk
<1>n. NoEntry.ct = 0
  BY Numbers
<1>s. p \in rst'[t].todo \/ (rst'[t].pc \in {"open", "drop"} /\ rst'[t].pid = p) => Under(t, p)'
  BY DEF Under, Held
<1>1. ASSUME NEW q \in Pids, RestoreRead(t, q)
      PROVE  Under(t, p)' /\ rst'[t].pc # "idle"
  <2>1. rst[t].pc = "next" /\ UNCHANGED touched
    BY <1>1 DEF RestoreRead
  <2>2. /\ rst'[t].todo = rst[t].todo \ {q}
        /\ rst'[t].pc \in {"next", "open"}
        /\ touched[q] = NoEntry \/ (rst'[t].pc = "open" /\ rst'[t].pid = q)
    BY <1>1, RestoreFields
  <2> QED BY <1>u, <1>n, <1>s, <2>1, <2>2
<1>2. ASSUME RestoreGone(t) \/ RestoreAttrsFails(t)
      PROVE  Under(t, p)' /\ rst'[t].pc # "idle"
  <2>1. rst[t].pid = p => touched[p] # rst[t].entry
    <3> SUFFICES ASSUME rst[t].pid = p, touched[p] = rst[t].entry PROVE FALSE
      OBVIOUS
    <3>1. born[p] # touched[p].ct
      BY <1>2 DEF RestoreGone, RestoreAttrsFails
    <3> QED BY <1>n, <3>1, RestoreLocal
  <2>2. rst'[t].pc = "next" /\ rst'[t].todo = rst[t].todo
    BY <1>2, RestoreFields
  <2> QED BY <1>u, <1>s, <2>1, <2>2
<1>3. ASSUME RestoreAttrs(t)
      PROVE  Under(t, p)' /\ rst'[t].pc # "idle"
  <2>1. rst'[t].pc = "drop" /\ rst'[t].pid = rst[t].pid /\ rst'[t].todo = rst[t].todo
    BY <1>3, RestoreFields
  <2> QED BY <1>u, <1>s, <2>1
<1>4. ASSUME RestoreDrop(t)
      PROVE  Under(t, p)' /\ rst'[t].pc # "idle"
  <2>1. rst[t].pid = p /\ touched[p] = rst[t].entry => touched'[p] = NoEntry
    BY <1>4 DEF RestoreDrop, PopSame, SameGen, Types
  <2>2. rst'[t].pc \in {"load", "next"} /\ rst'[t].todo = rst[t].todo
    BY <1>4, RestoreFields
  <2> QED BY <1>u, <1>n, <1>s, <2>1, <2>2
<1>5. ASSUME RemoveLoad(t) \/ RemoveSave(t)
      PROVE  Under(t, p)' /\ rst'[t].pc # "idle"
  <2>1. rst[t].pc \in {"load", "save"}
    BY <1>5 DEF RemoveLoad, RemoveSave
  <2>2. rst'[t].pc \in {"next", "save"} /\ rst'[t].todo = rst[t].todo
    BY <1>5, RestoreFields
  <2> QED BY <1>u, <1>s, <2>1, <2>2
<1>6. ~RestoreEnd(t)
  BY <1>u DEF RestoreEnd
<1> QED BY <1>1, <1>2, <1>3, <1>4, <1>5, <1>6 DEF RestoreStep

(* Every step keeps the records being written up to date. *)
LEMMA BatchKept ==
  ASSUME Types, Types', MonShape, Stages, Settings, Snapshots, Batch, Next
  PROVE  Batch'
<1>o. ASSUME engine' = "running", engine # "running"
      PROVE  mon'.pc = "loop"
  <2>1. ~Windows /\ ~Restoring /\ ~Monitor
    BY <1>o, RestoreLocal, MonitorSteps
       DEF Windows, Spawn, Exit, session, Restoring, Aside, Enters, Cleans, Calling, Tunes, Captured, Merges, Records
  <2>2. ~Shutdown /\ ~ProcessEnd
    BY <1>o DEF Shutdown, ShutdownClose, ShutdownDrain, ShutdownDone, ProcessEnd, ForgetSession
  <2> QED BY <1>o, <2>1, <2>2, RecFields
      DEF Next, Recovery, Boot, RecoverResult, RecoverDiscard, RecoverUnresolved, RecoverRestore
<1>l. ASSUME engine = "running", mon' = mon \/ Merges, mon.pc \in {"load", "save"}
      PROVE  touched' = touched /\ jailFile' = jailFile
  <2>1. rst["mon"].pc = "idle" /\ rst["main"].pc = "idle"
    BY <1>l DEF Stages, Before
  <2>2. ~Restoring
    BY <2>1, Restores, Numbers DEF Restoring
  <2>3. mon' = mon => ~Monitor
    <3> SUFFICES ASSUME mon' = mon, Monitor PROVE FALSE
      OBVIOUS
    <3>1. ~Aside /\ ~Cleans /\ ~Calling /\ ~Tunes /\ ~Captured /\ ~Merges /\ (\A p \in Pids : ~Enters(p))
      BY <1>l DEF Aside, Enters, Cleans, Calling, Tunes, Captured, Merges
    <3>2. ~Records
      BY <1>l DEF Records, MonShape
    <3> QED BY <3>1, <3>2, MonitorSteps
  <2>4. (~Recovery /\ ~ProcessEnd) \/ mon' # mon
    BY <1>l, CycleFields DEF Recovery, Boot, RecoverResult, RecoverFinish, RecoverDiscard, RecoverUnresolved,
       RecoverRestore, Recovering, Stages, ProcessEnd, ForgetSession
  <2> QED BY <1>l, <2>2, <2>3, <2>4
      DEF Next, Merges, Windows, Spawn, Exit, session, Shutdown, ShutdownClose, ShutdownDrain, ShutdownDone
<1>1. ASSUME engine' = "running", mon'.pc = "load", NEW p \in Pids, mon'.recs[p] # NoRec
      PROVE  mon'.recs[p].ct = touched'[p].ct
  <2>1. engine = "running"
    BY <1>o, <1>1
  <2>2. CASE mon' = mon
    BY <1>l, <1>1, <2>1, <2>2 DEF Batch
  <2>3. CASE Captured
    BY <1>1, <2>3 DEF Captured
  <2>4. CASE ProcessEnd \/ RecoverFinish
    BY <1>1, <2>4, CycleFields, RecFields DEF ProcessEnd, ForgetSession
  <2>5. Monitor => Captured
    BY <1>1, MonitorSteps DEF Aside, Enters, Cleans, Calling, Tunes, Merges, Records, MonShape
  <2> QED BY <2>2, <2>3, <2>4, <2>5, MonitorIdle
<1>2. ASSUME engine' = "running", mon'.pc = "save", NEW p \in Pids, live'[p], touched'[p].ct = born'[p], Recorded(p)'
      PROVE  mon'.recs[p].ct = born'[p]
  <2>1. engine = "running"
    BY <1>o, <1>2
  <2>2. CASE mon' = mon
    <3>1. touched' = touched /\ jailFile' = jailFile /\ mon.pc = "save"
      BY <1>l, <1>2, <2>1, <2>2
    <3>2. live[p] /\ born'[p] = born[p]
      <4>1. CASE Windows
        <5>1. touched[p].ct \in Nat /\ born[p] \in Nat /\ Genuine(p, touched[p])
          BY Numbers, TuningAssumption DEF Snapshots
        <5>2. \A q \in Pids : Spawn(q) => born'[p] = born[p] \/ (q = p /\ born'[p] = born[p] + 1)
          BY DEF Spawn, Types
        <5>3. ~(born'[p] = born[p] + 1)
          BY <5>1, <3>1, <1>2 DEF Genuine, Sound
        <5>4. \A q \in Pids : Spawn(q) /\ q = p => born'[p] = born[p] + 1
          BY DEF Spawn, Types
        <5>5. \A q \in Pids : Spawn(q) \/ Exit(q) => born'[p] = born[p] /\ (live'[p] => live[p])
          BY <5>2, <5>3, <5>4 DEF Spawn, Exit, Types
        <5> QED BY <4>1, <5>5, <1>2 DEF Windows
      <4>2. CASE ~Windows
        <5>1. UNCHANGED <<born, live>>
          BY <4>2, RestoreLocal, MonitorSteps
             DEF Next, Restoring, Aside, Enters, Cleans, Calling, Tunes, Captured, Merges, Records,
                 Recovery, Boot, RecoverResult, RecoverFinish, RecoverDiscard, RecoverUnresolved, RecoverRestore,
                 Shutdown, ShutdownClose, ShutdownDrain, ShutdownDone, ProcessEnd, os
        <5> QED BY <5>1, <1>2
      <4> QED BY <4>1, <4>2
    <3> QED BY <3>1, <3>2, <2>1, <2>2, <1>2 DEF Batch, Recorded
  <2>3. CASE Merges
    <3>1. touched' = touched /\ jailFile' = jailFile /\ UNCHANGED <<born, live>> /\ mon.pc = "load"
      BY <2>3 DEF Merges
    <3>2. mon'.recs[p] = IF mon.recs[p] # NoRec THEN mon.recs[p] ELSE jailFile[p]
      BY <2>3 DEF Merges
    <3> QED BY <3>1, <3>2, <2>1, <1>2 DEF Batch, Recorded
  <2>4. CASE ProcessEnd \/ RecoverFinish
    BY <1>2, <2>4, CycleFields, RecFields DEF ProcessEnd, ForgetSession
  <2>5. Monitor => Merges
    BY <1>2, MonitorSteps DEF Aside, Enters, Cleans, Calling, Tunes, Captured, Records, MonShape
  <2> QED BY <2>2, <2>3, <2>4, <2>5, MonitorIdle
<1> QED BY <1>1, <1>2 DEF Batch, Recorded

(* Every step keeps the throttled processes recorded, or in flight. *)
LEMMA RecordedKept ==
  ASSUME Types, Types', MonShape, Stages, Calls, CallArgs, Settings, Snapshots, RecordedInv, Batch, Next
  PROVE  RecordedInv'
<1>1. ASSUME engine' = "down", NEW p \in Pids
      PROVE  touched'[p] = NoEntry
  <2>1. CASE ProcessEnd
    BY <2>1 DEF ProcessEnd, ForgetSession
  <2>2. CASE ~ProcessEnd
    <3>1. engine = "down" /\ mon.pc = "off" /\ \A t \in Threads : rst[t].pc = "idle"
      <4>1. engine = "down"
        BY <1>1, <2>2, RestoreLocal, MonitorSteps DEF Next, Windows, Spawn, Exit, session, Restoring, Aside, Enters,
           Cleans, Calling, Tunes, Captured, Merges, Records, Recovery, Boot, RecoverResult, RecoverFinish,
           RecoverDiscard, RecoverUnresolved, RecoverRestore, Shutdown, ShutdownClose, ShutdownDrain, ShutdownDone,
           Recovering
      <4> QED BY <4>1, Numbers DEF Stages, Before
    <3>2. ~Restoring /\ ~Monitor /\ (\A q \in Pids : ~RecoverRestore(q))
      BY <3>1, Restores, MonitorOn DEF Restoring, RecoverRestore, Recovering
    <3>3. touched' = touched
      BY <3>2, <2>2 DEF Next, Windows, Spawn, Exit, session, Recovery, Boot, RecoverResult, RecoverFinish,
         RecoverDiscard, RecoverUnresolved, Shutdown, ShutdownClose, ShutdownDrain, ShutdownDone
    <3> QED BY <3>1, <3>3 DEF RecordedInv
  <2> QED BY <2>1, <2>2
<1>2. ASSUME engine' = "recovering", NEW p \in Pids, Bound(p)'
      PROVE  rec'.pid # None /\ rst'["main"].pc # "idle" /\ Under("main", p)'
  <2>a. /\ born'[p] = born[p] /\ live[p] /\ born[p] # 0 /\ Proc(p) \notin excused /\ Proc(p) \notin excused'
        /\ touched'[p] = touched[p] \/ Enters(p) \/ RecoverRestore(p)
        /\ touched'[p].ct = born'[p] /\ touched'[p].source = "jail"
    BY <1>2, OwnedArises DEF Bound, Owned
  <2>e. engine \in {"down", "recovering"}
    BY <1>2, RestoreLocal, MonitorSteps DEF Next, Windows, Spawn, Exit, session, Restoring, Aside, Enters, Cleans,
       Calling, Tunes, Captured, Merges, Records, Recovery, Boot, RecoverResult, RecoverFinish, RecoverDiscard,
       RecoverUnresolved, RecoverRestore, Shutdown, ShutdownClose, ShutdownDrain, ShutdownDone, Recovering,
       ProcessEnd, ForgetSession
  <2>m. ~Monitor /\ ~Enters(p)
    BY <2>e, MonitorOn DEF Stages, Before, Enters
  <2>1. ASSUME NEW q \in Pids, RecoverRestore(q)
        PROVE  rec'.pid # None /\ rst'["main"].pc # "idle" /\ Under("main", p)'
    <3>1. rec.pid = None /\ engine = "recovering" /\ rst'["main"] = RestoreCall({q})
          /\ (p # q => touched'[p] = touched[p])
      BY <2>1, ReinstateFields
    <3>2. p = q
      BY <3>1, <2>a DEF RecordedInv, Bound, Owned
    <3>3. rst'["main"].pc = "next" /\ rst'["main"].todo = {q} /\ rec'.pid = q
      <4>1. rec'.pid = q
        BY <2>1, RecFields
      <4>2. rst'["main"].pc = "next" /\ rst'["main"].todo = {q}
        BY <3>1, CallFields
      <4> QED BY <4>1, <4>2
    <3> QED BY <3>2, <3>3, Numbers DEF Under
  <2>2. ASSUME ~RecoverRestore(p)
        PROVE  engine = "recovering" /\ rec.pid # None /\ rst["main"].pc # "idle" /\ Under("main", p)
    <3>1. Bound(p)
      BY <2>2, <2>a, <2>m DEF Bound, Owned
    <3>2. engine # "down"
      BY <2>a, <3>1, Numbers DEF RecordedInv, Bound, Owned
    <3> QED BY <2>e, <3>1, <3>2 DEF RecordedInv
  <2>3. ASSUME NEW t \in Threads, RestoreStep(t)
        PROVE  rec'.pid # None /\ rst'["main"].pc # "idle" /\ Under("main", p)'
    <3>1. ~RecoverRestore(p)
      BY <2>3, RestoreLocal, RecFields, <2>2 DEF RecoverRestore, Recovering, CallArgs
    <3>2. t = "main" /\ rec' = rec /\ Alone(t)
      BY <2>2, <2>3, <3>1, Restores, RestoreLocal, Numbers DEF Alone, Before
    <3> QED BY <2>2, <2>3, <2>a, <3>1, <3>2, UnderKept
  <2>4. CASE Windows
    <3>1. UNCHANGED <<rst, rec>>
      BY <2>4 DEF Windows, Spawn, Exit, session
    <3>2. ~RecoverRestore(p)
      BY <3>1, RecFields DEF RecoverRestore, Recovering
    <3> QED BY <2>2, <3>1, <3>2, Numbers DEF Under, Held
  <2>5. CASE Recovery /\ ~(\E q \in Pids : RecoverRestore(q))
    BY <2>2, <2>5 DEF Recovery, Boot, RecoverResult, RecoverFinish, RecoverDiscard, RecoverUnresolved, Recovering
  <2>6. ~Shutdown /\ ~ProcessEnd
    BY <1>2 DEF Shutdown, ShutdownClose, ShutdownDrain, ShutdownDone, ProcessEnd, ForgetSession
  <2> QED BY <2>1, <2>3, <2>4, <2>5, <2>6, <2>m DEF Next, Restoring
<1>3. ASSUME engine' = "running", NEW p \in Pids, Owned(p)'
      PROVE  /\ born'[p] = born[p] /\ live[p] /\ born[p] # 0 /\ Proc(p) \notin excused /\ Proc(p) \notin excused'
             /\ touched'[p] = touched[p] \/ Enters(p)
             /\ touched'[p].ct = born'[p]
             /\ engine = "running" \/ RecoverFinish
             /\ ~Recovery \/ RecoverFinish
             /\ ~Shutdown /\ ~ProcessEnd
  <2>1. ~Shutdown /\ ~ProcessEnd
    BY <1>3 DEF Shutdown, ShutdownClose, ShutdownDrain, ShutdownDone, ProcessEnd, ForgetSession
  <2>2. ~Recovery \/ RecoverFinish
    BY <1>3 DEF Recovery, Boot, RecoverResult, RecoverDiscard, RecoverUnresolved, RecoverRestore, Recovering, Stages
  <2>3. engine = "running" \/ RecoverFinish
    BY <1>3, <2>1, <2>2, RestoreLocal, MonitorSteps DEF Next, Windows, Spawn, Exit, session, Restoring, Aside,
       Enters, Cleans, Calling, Tunes, Captured, Merges, Records
  <2>4. ~RecoverRestore(p)
    BY <1>3 DEF RecoverRestore, Recovering
  <2> QED BY <1>3, <2>1, <2>2, <2>3, <2>4, OwnedArises DEF Owned
<1>4. ASSUME engine' = "running", mon'.pc = "leaving", rst'["mon"].pc # "idle", NEW p \in Pids, Owned(p)'
      PROVE  Under("mon", p)'
  <2>1. ~RecoverFinish
    BY <1>4, RecFields
  <2>2. engine = "running" /\ live[p] /\ born[p] # 0 /\ Proc(p) \notin excused /\ Proc(p) \notin excused'
        /\ touched'[p].ct = born[p]
    BY <1>3, <1>4, <2>1
  <2>3. CASE Calling
    <3>1. rst'["mon"] = RestoreAllCall /\ touched' = touched
      BY <1>4, <2>3 DEF Calling, Types, Threads
    <3>2. rst'["mon"].todo = {q \in Pids : touched[q] # NoEntry}
      BY <3>1, CallFields
    <3> QED BY <2>2, <3>1, <3>2, Numbers DEF Under
  <2>4. ASSUME mon' = mon, rst'["mon"].pc # "idle" => rst["mon"].pc # "idle"
        PROVE  Under("mon", p)
    <3>1. touched'[p] = touched[p]
      BY <1>3, <1>4, <2>4 DEF Enters
    <3> QED BY <1>4, <2>2, <2>4, <3>1 DEF RecordedInv, Owned
  <2>5. ASSUME NEW t \in Threads, RestoreStep(t)
        PROVE  Under("mon", p)'
    <3>1. t = "mon" /\ mon' = mon /\ Alone(t) /\ rst[t].pc # "idle"
      BY <2>2, <2>5, Restores, RestoreLocal, Numbers DEF Alone
    <3> QED BY <2>2, <2>4, <2>5, <3>1, UnderKept
  <2>6. Monitor => Calling
    BY <1>4, MonitorSteps DEF Aside, Enters, Cleans, Tunes, Captured, Merges, Records, MonShape
  <2>7. CASE Windows
    <3>1. UNCHANGED <<mon, rst>>
      BY <2>7 DEF Windows, Spawn, Exit, session
    <3> QED BY <2>4, <3>1 DEF Under, Held
  <2> QED BY <1>3, <1>4, <2>1, <2>3, <2>5, <2>6, <2>7 DEF Next, Restoring
<1>5. ASSUME engine' = "running", NEW p \in Pids, Bound(p)'
      PROVE  Recorded(p)' \/ InFlight(p)'
  <2>a. /\ born'[p] = born[p] /\ live[p] /\ born[p] # 0 /\ Proc(p) \notin excused /\ Proc(p) \notin excused'
        /\ touched'[p] = touched[p] \/ Enters(p)
        /\ touched'[p].ct = born[p] /\ touched'[p].source = "jail"
        /\ engine = "running" \/ RecoverFinish
    BY <1>3, <1>5 DEF Bound
  <2>1. ~RecoverFinish
    <3> SUFFICES ASSUME RecoverFinish PROVE FALSE
      OBVIOUS
    <3>1. rec.pid = None /\ engine = "recovering" /\ touched' = touched
      BY DEF RecoverFinish
    <3> QED BY <2>a, <3>1 DEF RecordedInv, Bound, Owned
  <2>2. ASSUME touched'[p] = touched[p]
        PROVE  Bound(p) /\ (Recorded(p) \/ InFlight(p))
    BY <2>a, <2>1, <2>2 DEF RecordedInv, Bound, Owned
  <2>3. CASE Windows
    <3>1. UNCHANGED <<mon, rst, jailFile, touched>>
      BY <2>3 DEF Windows, Spawn, Exit, session
    <3> QED BY <2>a, <2>2, <3>1 DEF Recorded, InFlight, Under, Held
  <2>4. ASSUME NEW t \in Threads, RestoreStep(t)
        PROVE  Recorded(p)' \/ InFlight(p)'
    <3>1. t = "mon" /\ mon' = mon /\ Alone(t) /\ rst[t].pc # "idle" /\ mon.pc \in {"closing", "leaving", "undo"}
      BY <2>a, <2>1, <2>4, Restores, RestoreLocal, Numbers DEF Alone
    <3>2. touched'[p] = touched[p]
      BY <2>a, <3>1 DEF Enters
    <3>3. Recorded(p) => Recorded(p)'
      <4> SUFFICES ASSUME jailFile' # jailFile, Recorded(p) PROVE Recorded(p)'
        BY <2>a DEF Recorded
      <4>1. CASE RemoveSave(t) /\ jailFile' = rst[t].file
        <5>1. rst[t].file = [jailFile EXCEPT ![rst[t].pid] = NoRec] /\ touched[rst[t].pid] = NoEntry
          BY <3>1, <4>1 DEF RemoveSave, Calls, CallOk, Removing
        <5>2. rst[t].pid # p
          BY <2>a, <3>2, <5>1, Numbers
        <5> QED BY <2>a, <4>1, <5>1, <5>2 DEF Recorded, Types
      <4>2. CASE RestoreEnd(t) /\ rst[t].all
        <5>1. mon.pc = "leaving"
          BY <3>1, <4>2 DEF CallArgs
        <5>2. Under("mon", p)
          BY <2>2, <2>a, <2>1, <3>1, <3>2, <5>1 DEF RecordedInv, Bound
        <5> QED BY <3>1, <4>2, <5>2 DEF RestoreEnd, Under, Held
      <4> QED BY <2>4, <4>1, <4>2, RestoreLocal
    <3>4. ASSUME InFlight(p), ~Recorded(p)
          PROVE  InFlight(p)'
      <4>1. mon.pc \in {"closing", "leaving"} => p \in mon.batch
        BY <3>4 DEF InFlight
      <4>2. CASE p \in mon.batch
        BY <3>1, <4>2 DEF InFlight
      <4>3. CASE mon.pc = "undo" /\ Under("mon", p)
        <5>1. Under(t, p)' /\ rst'[t].pc # "idle"
          BY <2>a, <2>4, <3>1, <4>3, UnderKept
        <5> QED BY <3>1, <4>3, <5>1 DEF InFlight
      <4> QED BY <3>1, <3>4, <4>1, <4>2, <4>3 DEF InFlight
    <3> QED BY <2>2, <3>2, <3>3, <3>4
  <2>5. ASSUME NEW q \in Pids, Enters(q)
        PROVE  Recorded(p)' \/ InFlight(p)'
    <3>1. UNCHANGED <<jailFile, rst>> /\ mon'.batch = mon.batch /\ mon.pc \notin {"apply", "load", "save", "undo"}
      BY <2>5 DEF Enters
    <3>2. CASE touched'[p] = touched[p]
      BY <2>a, <2>2, <3>1, <3>2 DEF Recorded, InFlight
    <3>3. CASE touched'[p] # touched[p]
      <4>1. q = p
        BY <2>5, <3>3, RememberFields DEF Enters, Sources
      <4>2. \A source \in Sources : Remember(p, source) => touched'[p].source = source
        BY <3>3, RememberFields
      <4>3. mon'.pc = "apply" /\ mon'.pid = p
        BY <2>5, <2>a, <4>1, <4>2 DEF Enters, Sources
      <4> QED BY <4>3 DEF InFlight
    <3> QED BY <3>2, <3>3
  <2>6. CASE Monitor
    <3>1. CASE Tunes
      <4>1. UNCHANGED <<jailFile, touched>> /\ (Recorded(p) => Recorded(p)')
        BY <2>a, <3>1 DEF Tunes, Recorded
      <4>2. ASSUME InFlight(p)
            PROVE  InFlight(p)'
        <5>1. mon.pc = "apply" /\ (mon.pid = p \/ (p \in mon.batch /\ mon.next = "batch"))
          BY <3>1, <4>2 DEF Tunes, InFlight, MonShape
        <5>2. CASE mon'.pc = "undo" /\ mon'.batch = mon.batch /\ rst' = [rst EXCEPT !["mon"] = RestoreCall({mon.pid})]
          <6>1. rst'["mon"] = RestoreCall({mon.pid})
            BY <5>2, Numbers DEF Types
          <6>2. rst'["mon"].pc = "next" /\ rst'["mon"].todo = {mon.pid}
            BY <6>1, CallFields
          <6> QED BY <5>1, <5>2, <6>2 DEF InFlight, Under
        <5>3. CASE mon'.batch = mon.batch \cup {mon.pid}
          BY <5>1, <5>3 DEF InFlight
        <5>4. CASE mon'.batch = {mon.pid} /\ mon.next # "batch"
          BY <5>1, <5>4 DEF InFlight
        <5> QED BY <3>1, <5>1, <5>2, <5>3, <5>4 DEF Tunes
      <4> QED BY <2>2, <4>1, <4>2
    <3>2. CASE Records
      <4>1. touched' = touched /\ mon.pc = "save"
        BY <3>2 DEF Records
      <4>2. mon.recs[p].ct = born[p] \/ Recorded(p)
        BY <2>2, <4>1 DEF InFlight, MonShape
      <4>3. mon.recs[p].ct = born[p]
        BY <2>a, <2>1, <4>1, <4>2 DEF Batch
      <4>4. mon.recs[p] # NoRec
        BY <2>a, <4>3, Numbers
      <4>5. jailFile' = mon.recs
        BY <2>a, <3>2, <4>3, <4>4 DEF Records
      <4> QED BY <2>a, <4>3, <4>5 DEF Recorded
    <3>3. CASE Captured
      <4>1. UNCHANGED <<jailFile, touched>> /\ mon.pc = "capture" /\ mon'.pc = "load"
        BY <3>3 DEF Captured
      <4>2. Recorded(p) \/ p \in mon.batch
        BY <2>2, <4>1 DEF InFlight
      <4>3. p \in mon.batch => mon'.recs[p].ct = born[p]
        BY <3>3, <2>a, <4>1 DEF Captured
      <4> QED BY <2>a, <4>1, <4>2, <4>3 DEF InFlight, Recorded
    <3>4. CASE Merges
      <4>1. UNCHANGED <<jailFile, touched>> /\ mon.pc = "load" /\ mon'.pc = "save" /\ mon'.batch = mon.batch
            /\ mon'.recs[p] = IF mon.recs[p] # NoRec THEN mon.recs[p] ELSE jailFile[p]
        BY <3>4 DEF Merges
      <4>2. mon.recs[p].ct = born[p] => mon.recs[p] # NoRec
        BY <2>a, Numbers
      <4> QED BY <2>a, <2>2, <4>1, <4>2 DEF InFlight, Recorded
    <3>5. CASE Aside
      <4>1. UNCHANGED <<jailFile, touched, rst>> /\ mon.pc \notin {"apply", "load", "save"}
            /\ mon'.batch \in {{}, mon.batch}
            /\ (mon.pc = "undo" => rst["mon"].pc = "idle")
            /\ (mon'.batch # mon.batch => p \notin mon.batch)
        BY <2>a, <3>5 DEF Aside
      <4> QED BY <2>a, <2>2, <4>1 DEF InFlight, Recorded
    <3>6. CASE Calling
      BY <2>a, <2>2, <3>6 DEF Calling, InFlight, Recorded
    <3>7. CASE Cleans
      <4>1. touched'[p] = touched[p]
        BY <2>a, <3>7, Numbers DEF Cleans
      <4> QED BY <2>a, <2>2, <3>7, <4>1 DEF Cleans, InFlight, Recorded
    <3> QED BY <2>5, <2>6, <3>1, <3>2, <3>3, <3>4, <3>5, <3>6, <3>7, MonitorSteps
  <2> QED BY <1>3, <1>5, <2>1, <2>3, <2>4, <2>6 DEF Next, Restoring, Bound
<1> QED BY <1>1, <1>2, <1>4, <1>5 DEF RecordedInv, InFlight, Under, Held

-----------------------------------------------------------------------------

(* The inductive invariant. *)
Invariant ==
  /\ Types /\ MonShape /\ Stages /\ Gens /\ Calls /\ CallArgs /\ Snapshots /\ Settings /\ Excuses
  /\ Mine /\ Fresh /\ Released /\ Tracked /\ RecordedInv /\ Batch

(* It holds at first. *)
LEMMA InvariantInit == Init => Invariant
<1> SUFFICES ASSUME Init PROVE Invariant
  OBVIOUS
<1>1. Types
  BY Nulls, TuningAssumption DEF Init, Types, Attrs, Boosted, Threads
<1>2. MonShape /\ Mine /\ Fresh /\ Batch
  BY <1>1, CycleFields DEF Init, MonShape, Mutating, Mine, Fresh, Batch
<1>3. Stages /\ Calls /\ CallArgs
  BY <1>1, CycleFields, CallFields, Numbers
     DEF Init, Stages, Before, Mutating, RecIdle, Calls, CallOk, CallArgs, Held, Removing
<1>4. Gens /\ Settings /\ Excuses
  BY <1>1, Numbers DEF Init, Gens, Settings, Excuses
<1>5. Snapshots
  BY <1>1, CycleFields, CallFields, Numbers DEF Init, Snapshots, Genuine, Sound, RecIdle, Held
<1>6. Released /\ Tracked
  BY <1>1, CallFields DEF Init, Released, Tracked, Astray, Tuned, Removing, RecIdle
<1>7. RecordedInv
  BY <1>1 DEF Init, RecordedInv
<1> QED BY <1>1, <1>2, <1>3, <1>4, <1>5, <1>6, <1>7 DEF Invariant

(* Every step keeps the types. *)
LEMMA TypesKept == ASSUME Invariant, Next PROVE Types'
  BY RestoreTypes, MonitorTypes, OtherTypes DEF Invariant, Next, Restoring

(* Every step keeps the invariant. *)
LEMMA InvariantNext == Invariant /\ Next => Invariant'
<1> SUFFICES ASSUME Invariant, Next PROVE Invariant'
  OBVIOUS
<1>1. Types'
  BY TypesKept
<1>2. MonShape' /\ Stages' /\ Gens' /\ Mine'
  BY <1>1, MonShapeKept, StagesKept, GensKept, MineKept DEF Invariant
<1>3. Calls' /\ CallArgs' /\ Settings' /\ Excuses'
  BY <1>1, CallsKept, CallArgsKept, SettingsKept, ExcusesKept DEF Invariant
<1>4. Snapshots'
  BY <1>1, SnapshotsKept DEF Invariant
<1>5. Fresh' /\ Released' /\ Tracked'
  BY <1>1, <1>3, FreshKept, ReleasedKept, TrackedKept DEF Invariant
<1>6. RecordedInv' /\ Batch'
  BY <1>1, RecordedKept, BatchKept DEF Invariant
<1> QED BY <1>1, <1>2, <1>3, <1>4, <1>5, <1>6 DEF Invariant

(* So does a stutter. *)
LEMMA InvariantStutter == Invariant /\ UNCHANGED vars => Invariant'
<1> SUFFICES ASSUME Invariant, UNCHANGED vars PROVE Invariant'
  OBVIOUS
<1> USE DEF vars, os, session
<1>1. Types' /\ MonShape' /\ Stages' /\ Gens' /\ Mine'
  BY DEF Invariant, Types, MonShape, Mutating, Stages, Before, Gens, Mine
<1>2. Calls' /\ CallArgs' /\ Settings' /\ Excuses'
  BY DEF Invariant, Calls, CallOk, Held, Removing, Alone, CallArgs, Settings, Proc, Excuses
<1>3. Snapshots' /\ Fresh' /\ Released' /\ Tracked'
  BY DEF Invariant, Snapshots, Genuine, Held, Fresh, Released, Removing, Tracked, Before, Recorded, Astray, Tuned,
     Proc
<1>4. RecordedInv' /\ Batch'
  BY DEF Invariant, RecordedInv, Bound, Owned, Recorded, InFlight, Under, Held, Proc, Batch
<1> QED BY <1>1, <1>2, <1>3, <1>4 DEF Invariant

(* The inductive invariant of throttling, boosting and restoring holds in every state. *)
THEOREM AlwaysInvariant == Spec => []Invariant
  BY InvariantInit, InvariantNext, InvariantStutter, PTL DEF Spec

(* Every variable of ProcessTuning holds a value of its kind; in particular the monitor counts *)
(* its mutation exactly once, and only processes are excused.                                  *)
THEOREM TypeCorrect == Spec => []TypeOK
<1>1. Invariant => TypeOK
  BY DEF Invariant, Types, MonShape, Excuses, TypeOK
<1> QED BY <1>1, AlwaysInvariant, PTL

(* tuning.py:52-97, 437-586, recovery.py:327-426, runtime.py:569-635: whatever is throttled or *)
(* boosted, no process ever runs with another's settings, whoever is tuned can be found in     *)
(* memory or on disk, and a stopped engine has left nobody tuned - for any reuse of pids, any  *)
(* failing calls, crashes and restarts.                                                        *)
THEOREM SettingsComeBack == Spec => []Restorable
<1>1. Invariant => Restorable
  <2> SUFFICES ASSUME Invariant PROVE Restorable
    OBVIOUS
  <2>1. SettingsAreOwn
    <3> SUFFICES ASSUME NEW p \in Pids, live[p]
                 PROVE  /\ attr[p] \in {Jailed, Boosted} \/ attr[p] = born[p]
                        /\ touched[p].ct = born[p] => Own(p, touched[p].saved)
                        /\ jailFile[p].ct = born[p] => Own(p, jailFile[p].saved)
      BY DEF SettingsAreOwn
    <3>1. born[p] # 0 /\ (attr[p] \in {Jailed, Boosted} \/ attr[p] = born[p])
      BY DEF Invariant, Settings
    <3>2. Genuine(p, touched[p]) /\ Genuine(p, jailFile[p])
      BY DEF Invariant, Snapshots
    <3> QED BY <3>1, <3>2 DEF Genuine, Sound, Own, Proc
  <2>2. TunedIsTracked
    BY DEF Invariant, Stages, Tracked, Astray, Before, TunedIsTracked
  <2>3. StoppedIsRestored
    BY DEF Invariant, Tracked, Astray, StoppedIsRestored
  <2> QED BY <2>1, <2>2, <2>3 DEF Restorable
<1> QED BY <1>1, AlwaysInvariant, PTL

(* tuning.py:711-712, 888-889: between two cycles of the monitor everybody throttled as *)
(* background is on disk.                                                               *)
THEOREM CyclesRecord == Spec => []RecordedBetweenCycles
<1>1. Invariant => RecordedBetweenCycles
  <2> SUFFICES ASSUME Invariant, engine = "running", mon.pc = "loop", NEW p \in Pids,
                      Tuned(p), touched[p].ct = born[p], touched[p].source = "jail", Proc(p) \notin excused
               PROVE  Recorded(p)
    BY DEF RecordedBetweenCycles
  <2>1. Bound(p)
    BY DEF Bound, Owned, Tuned
  <2>2. mon.batch = {}
    BY DEF Invariant, MonShape
  <2> QED BY <2>1, <2>2 DEF Invariant, RecordedInv, InFlight
<1> QED BY <1>1, AlwaysInvariant, PTL

(* recovery.py:327-426: a start that goes through has restored everybody an earlier session *)
(* tuned, and left no record.                                                               *)
THEOREM StartsClean == Spec => RecoveryLeavesNothing
<1> DEFINE Step == engine = "recovering" /\ engine' = "running" =>
                     /\ jailFile' = EmptyFile
                     /\ \A p \in Pids : ~Tuned(p) \/ Proc(p) \in excused
<1>1. ASSUME Invariant, Invariant', [Next]_vars
      PROVE  [Step]_vars
  <2> SUFFICES ASSUME Next, engine = "recovering", engine' = "running"
               PROVE  /\ jailFile' = EmptyFile
                      /\ \A p \in Pids : ~Tuned(p) \/ Proc(p) \in excused
    BY <1>1
  <2> USE <1>1
  <2>1. RecoverFinish
    <3>1. ~Windows /\ ~Restoring /\ ~Monitor /\ ~Shutdown /\ ~ProcessEnd
      BY RestoreLocal, MonitorSteps DEF Invariant, Windows, Spawn, Exit, session, Restoring, Aside, Enters, Cleans,
         Calling, Tunes, Captured, Merges, Records, Shutdown, ShutdownClose, ShutdownDrain, ShutdownDone, ProcessEnd,
         ForgetSession
    <3> QED BY <3>1 DEF Next, Recovery, Boot, RecoverResult, RecoverDiscard, RecoverUnresolved, RecoverRestore
  <2>2. jailFile' = EmptyFile
    BY <2>1, RecFields DEF Invariant
  <2>3. \A p \in Pids : Astray(p) => Recorded(p) /\ rec.pids[p].ct = born[p] /\ born[p] # 0
    BY DEF Invariant, Tracked, Before, Settings, Astray, Tuned
  <2>4. \A p \in Pids : jailFile'[p].ct = 0
    BY <2>2, Numbers DEF Invariant
  <2>5. jailFile' = rec.pids \/ jailFile' = jailFile
    BY <2>1 DEF RecoverFinish
  <2>6. \A p \in Pids : ~Astray(p)
    BY <2>3, <2>4, <2>5 DEF Recorded
  <2> QED BY <2>2, <2>6 DEF Astray
<1> QED BY <1>1, AlwaysInvariant, PTL DEF Spec, RecoveryLeavesNothing

(* tuning.py:556-586, recovery.py:309-426: until shutdown, a record leaves the disk only when *)
(* its process has been restored or has exited.                                               *)
THEOREM RecordsStay == Spec => RecordOutlivesThrottle
<1> DEFINE Step == \A p \in Pids : engine \in {"recovering", "running"} /\ Tuned(p) /\ Recorded(p)
                                    /\ Tuned(p)' /\ Proc(p)' = Proc(p)
                      => Recorded(p)' \/ Proc(p) \in excused'
<1>1. ASSUME Invariant, Invariant', [Next]_vars
      PROVE  [Step]_vars
  <2> SUFFICES ASSUME Next, NEW p \in Pids, engine \in {"recovering", "running"}, Tuned(p), Recorded(p),
                      Tuned(p)', Proc(p)' = Proc(p), Proc(p) \notin excused'
               PROVE  Recorded(p)'
    BY <1>1
  <2> USE <1>1
  <2>a. Astray(p) /\ Astray(p)' /\ born'[p] = born[p] /\ live[p] /\ born[p] # 0
    <3>1. excused \subseteq excused'
      BY Grows DEF Invariant, Growth
    <3> QED BY <3>1 DEF Astray, Tuned, Proc, Invariant, Settings
  <2>0. CASE jailFile' = jailFile
    BY <2>0, <2>a DEF Recorded
  <2>1. ASSUME NEW t \in Threads, RestoreStep(t)
        PROVE  Recorded(p)'
    <3>1. Alone(t)
      BY <2>1, Restores, Numbers DEF Invariant, Alone, Before
    <3>2. CASE RemoveSave(t) /\ jailFile' = rst[t].file
      <4>1. rst[t].file = [jailFile EXCEPT ![rst[t].pid] = NoRec] /\ ~Astray(rst[t].pid)
        BY <3>1, <3>2 DEF RemoveSave, Invariant, Calls, CallOk, Removing, Released
      <4> QED BY <2>a, <3>2, <4>1 DEF Invariant, Types, Recorded
    <3>3. CASE RestoreEnd(t) /\ rst[t].all
      <4>1. rst[t].pc = "next" /\ rst[t].todo = {}
        BY <3>3 DEF RestoreEnd
      <4>2. t = "mon" /\ engine = "running" /\ mon.pc = "leaving"
        BY <3>1, <3>3, <4>1 DEF Invariant, Alone, CallArgs, Stages
      <4>3. Owned(p)
        BY <2>a, <4>2 DEF Invariant, Tracked, Stages, Before, Owned, Astray
      <4>4. Under("mon", p)
        BY <4>1, <4>2, <4>3 DEF Invariant, RecordedInv
      <4> QED BY <4>1, <4>2, <4>4 DEF Under, Held
    <3> QED BY <2>0, <2>1, <3>2, <3>3, RestoreLocal DEF Invariant
  <2>2. CASE Monitor
    <3>1. CASE Records
      <4>1. engine = "running" /\ mon.pc = "save"
        BY <3>1 DEF Records, Invariant, Stages, Before
      <4>2. touched[p].ct = born[p]
        BY <2>a, <4>1 DEF Invariant, Tracked, Stages, Before
      <4>3. mon.recs[p].ct = born[p]
        BY <2>a, <4>1, <4>2 DEF Invariant, Batch
      <4> QED BY <2>0, <2>a, <3>1, <4>3 DEF Records, Recorded
    <3> QED BY <2>0, <2>2, <3>1, MonitorSteps DEF Invariant, Aside, Enters, Cleans, Calling, Tunes, Captured, Merges
  <2>3. CASE Recovery
    <3>1. CASE RecoverFinish
      <4>1. rec.pids[p].ct = born[p]
        BY <2>a, <3>1 DEF RecoverFinish, Invariant, Tracked
      <4> QED BY <2>0, <2>a, <3>1, <4>1 DEF RecoverFinish, Recorded
    <3> QED BY <2>0, <2>3, <3>1 DEF Recovery, Boot, RecoverResult, RecoverDiscard, RecoverUnresolved, RecoverRestore
  <2>4. CASE Windows \/ Shutdown \/ ProcessEnd
    BY <2>0, <2>4 DEF Windows, Spawn, Exit, Shutdown, ShutdownClose, ShutdownDrain, ShutdownDone, ProcessEnd
  <2> QED BY <2>1, <2>2, <2>3, <2>4 DEF Next, Restoring
<1> QED BY <1>1, AlwaysInvariant, PTL DEF Spec, RecordOutlivesThrottle

(* A step of the tuning is a step of the shutdown gate's contract, or leaves it alone. *)
LEMMA GateSteps ==
  ASSUME Invariant, Invariant', Next
  PROVE  Contract!Next \/ UNCHANGED Contract!vars
<1> USE DEF Contract!Next, Contract!vars
<1>a. active \in {0, 1} /\ active' \in {0, 1} /\ (active = 1 <=> Mutating) /\ (active' = 1 <=> Mutating')
  BY DEF Invariant, MonShape
<1>1. CASE UNCHANGED <<engine, active>>
  BY <1>1
<1>2. ASSUME UNCHANGED engine, engine = "running", active' # active
      PROVE  Contract!Next
  BY <1>2, <1>a DEF Contract!Tune, Contract!Settle
<1>3. ASSUME UNCHANGED engine, active = 1, active' = 0
      PROVE  Contract!Next
  BY <1>3 DEF Contract!Settle
<1>4. CASE Windows \/ Restoring
  BY <1>1, <1>4, RestoreLocal DEF Invariant, Windows, Spawn, Exit, session, Restoring
<1>5. CASE Monitor
  <2>1. UNCHANGED engine
    BY <1>5, MonitorSteps DEF Invariant, Aside, Enters, Cleans, Calling, Tunes, Captured, Merges, Records
  <2>2. active = 0 /\ active' = 1 => GateOpen
    BY <1>5, <1>a, MonitorSteps
       DEF Invariant, Aside, Enters, Cleans, Calling, Tunes, Captured, Merges, Records, Mutating
  <2> QED BY <1>a, <1>1, <1>2, <1>3, <2>1, <2>2 DEF GateOpen
<1>6. CASE Recovery
  <2>1. UNCHANGED active
    BY <1>6 DEF Recovery, Boot, RecoverResult, RecoverFinish, RecoverDiscard, RecoverUnresolved, RecoverRestore
  <2>2. engine \in {"down", "recovering"} /\ engine' \in {"recovering", "running", "refused"}
    BY <1>6 DEF Recovery, Boot, RecoverResult, RecoverFinish, RecoverDiscard, RecoverUnresolved, RecoverRestore,
       Recovering, Invariant, Stages
  <2> QED BY <2>1, <2>2 DEF Contract!Begin
<1>7. CASE ShutdownClose
  BY <1>7 DEF ShutdownClose, Contract!Close
<1>8. CASE ShutdownDrain
  BY <1>8 DEF ShutdownDrain, Contract!Drain
<1>9. CASE ShutdownDone
  BY <1>9, <1>a DEF ShutdownDone, Contract!Restored
<1>10. CASE ProcessEnd
  BY <1>10 DEF ProcessEnd, ForgetSession, Contract!End
<1> QED BY <1>4, <1>5, <1>6, <1>7, <1>8, <1>9, <1>10 DEF Next, Shutdown

(* runtime.py:161-177, 569-604: with the mutations of the monitor counted as they are, shutdown *)
(* restores only when none is running, lets none in afterwards, and no step before the end of   *)
(* the process opens the gate again, as the contract says.                                      *)
THEOREM GateRefinement == Spec => GateContract
<1>1. Init => Contract!Init
  BY DEF Init, Contract!Init
<1>2. Invariant /\ Invariant' /\ [Next]_vars => [Contract!Next]_(Contract!vars)
  BY GateSteps DEF vars, session, Contract!vars
<1> QED BY <1>1, <1>2, AlwaysInvariant, PTL DEF Spec, GateContract, Contract!Spec

-----------------------------------------------------------------------------
(* Games known by name *)

(* Some process of this pid had a window. *)
Windowed(p) == \E n \in 1..born[p] : <<p, n>> \in Focusable

(* The monitor is at work on the foreground window. *)
Picked == \/ mon.pc \in {"fgJail", "fgOpen", "fgBoost"}
          \/ mon.pc \in {"apply", "undo", "capture", "load", "save"} /\ mon.next = "fgBoost"

(* The monitor is at work on a background batch. *)
Batching == mon.pc = "batch" \/ (mon.pc \in {"apply", "undo"} /\ mon.next = "batch")

(* What the monitor goes by: the batch holds no game of the snapshot, the process of a mutation *)
(* that throttles is none, and the foreground pids had a window.                                *)
Plans ==
  /\ Batching => \A p \in mon.todo : mon.snap[p] # 0 /\ ~IsNamed(p, mon.snap[p])
  /\ mon.pc = "apply" /\ live[mon.pid] => ~IsNamed(mon.pid, born[mon.pid])
  /\ mon.fg # None => Windowed(mon.fg)
  /\ Picked => \A f \in mon.todo : Windowed(f)
  /\ mon.pc = "fgOpen" => ~IsNamed(mon.fg, born[mon.fg])

(* No snapshot anywhere would throttle a game. *)
Tamed ==
  /\ \A p \in Pids : Tame(p, touched[p]) /\ Tame(p, jailFile[p]) /\ Tame(p, mon.recs[p]) /\ Tame(p, rec.pids[p])
  /\ \A t \in Threads : (\A p \in Pids : Tame(p, rst[t].file[p])) /\ (Held(t) => Tame(rst[t].pid, rst[t].entry))

(* Where the plans of the monitor come from. *)
LEMMA PlanSteps ==
  ASSUME Types, MonShape, Monitor
  PROVE  /\ Batching' => mon'.snap = mon.snap /\ (mon'.todo = Eligible \/ (Batching /\ mon'.todo \subseteq mon.todo))
         /\ Picked' => \/ Picked /\ mon'.todo \subseteq mon.todo
                       \/ \E f \in Pids : FgChange(f) /\ mon'.todo = {f}
         /\ mon'.fg \in {mon.fg, None} \/ \E f \in Pids : mon'.fg = f /\ (FgChange(f) \/ FgBoost(f))
         /\ mon'.pc = "apply" => /\ mon'.pid \in Pids /\ live[mon'.pid]
                                 /\ \/ Batching /\ mon'.pid \in mon.todo /\ born[mon'.pid] = mon.snap[mon'.pid]
                                    \/ mon.pc = "fgOpen" /\ mon'.pid = mon.fg
         /\ mon'.pc = "fgOpen" => mon.pc = "fgJail" /\ mon'.fg = mon.fg /\ mon.fg # None /\ FgNameOk
<1>x. mon \in MonType
  BY DEF Types
<1> USE DEF Batching, Picked
<1>1. CASE MonExit \/ FgSame
  BY <1>1, CycleFields DEF MonExit, FgSame
<1>2. CASE MonSnapshot \/ MonObserve \/ MonCleanup \/ MonCleanupNotDue \/ MonNoneClosed \/ MonRestoreClosed
           \/ MonClosedRestored \/ MonLeaveGameMode \/ MonLeft \/ MonModeIdle
  <2>1. mon'.pc \in {"observe", "cleanup", "optimize", "closing", "mode", "leaving", "fg"} /\ mon'.fg = mon.fg
    <3>1. CASE MonSnapshot
      BY <3>1, <1>x DEF MonSnapshot, MonType
    <3>2. CASE MonObserve
      <4>1. PICK closed \in SUBSET (games \ SeenGames) :
              mon' = [mon EXCEPT !.pc = "cleanup", !.todo = SeenGames \ games, !.closed = closed]
        BY <3>2 DEF MonObserve
      <4>2. mon'.pc = "cleanup" /\ mon'.fg = mon.fg
        BY <4>1, <1>x, MonFields
      <4> QED BY <4>2
    <3>3. CASE MonRestoreClosed
      BY <3>3, <1>x, MonFields DEF MonRestoreClosed
    <3>4. CASE MonLeaveGameMode
      BY <3>4, <1>x, MonFields DEF MonLeaveGameMode
    <3>5. CASE MonCleanup \/ MonCleanupNotDue \/ MonNoneClosed \/ MonClosedRestored
      BY <3>5, <1>x DEF MonType, MonCleanup, MonCleanupNotDue, MonNoneClosed, MonClosedRestored, MonGo
    <3>6. CASE MonLeft \/ MonModeIdle
      BY <3>6, <1>x DEF MonType, MonLeft, MonModeIdle, MonGo
    <3> QED BY <1>2, <3>1, <3>2, <3>3, <3>4, <3>5, <3>6
  <2> QED BY <2>1
<1>3. CASE MonJailBatch
  BY <1>3, <1>x DEF MonJailBatch, MonType
<1>4. CASE Boost
  BY <1>4, <1>x, CycleFields DEF Boost, MonType, MonShape
<1>5. CASE JailApply
  <2>1. CASE mon.next = "batch"
    <3>1. mon' = [mon EXCEPT !.pc = "batch", !.pid = None, !.batch = mon.batch \cup {mon.pid}]
      BY <1>5, <2>1 DEF JailApply
    <3>2. mon'.pc = "batch" /\ mon'.todo = mon.todo /\ mon'.fg = mon.fg /\ mon'.snap = mon.snap
      BY <3>1, <1>x, MonFields
    <3> QED BY <1>5, <2>1, <3>2 DEF JailApply
  <2>2. CASE mon.next # "batch"
    <3>1. mon' = [mon EXCEPT !.pc = "capture", !.pid = None, !.batch = {mon.pid}]
      BY <1>5, <2>2 DEF JailApply
    <3>2. mon'.pc = "capture" /\ mon'.todo = mon.todo /\ mon'.fg = mon.fg /\ mon'.next = mon.next
      BY <3>1, <1>x, MonFields
    <3> QED BY <1>5, <2>2, <3>2 DEF JailApply
  <2> QED BY <2>1, <2>2
<1>6. CASE JailApplyFails
  BY <1>6, <1>x DEF JailApplyFails, MonGo, MonType
<1>7. CASE JailUndone
  BY <1>7, <1>x DEF JailUndone, MonType, MonShape
<1>8. CASE BatchEnd
  BY <1>8, <1>x DEF BatchEnd, MonType
<1>9. CASE RecordCapture
  <2> DEFINE recs == [p \in Pids |-> IF p \in {q \in mon.batch : touched[q].source = "jail"}
                                     THEN [ct |-> touched[p].ct, saved |-> touched[p].saved] ELSE NoRec]
  <2>1. \/ mon' = [mon EXCEPT !.pc = mon.next, !.batch = {}, !.recs = EmptyFile]
        \/ mon' = [mon EXCEPT !.pc = "load", !.batch = {}, !.recs = recs]
    BY <1>9 DEF RecordCapture, RecordDone
  <2> HIDE DEF recs
  <2>2. mon'.pc \in {mon.next, "load"} /\ mon'.next = mon.next /\ mon'.todo = mon.todo /\ mon'.fg = mon.fg
    <3>1. LET n == [mon EXCEPT !.pc = mon.next, !.batch = {}, !.recs = EmptyFile]
          IN  n.pc = mon.next /\ n.next = mon.next /\ n.todo = mon.todo /\ n.fg = mon.fg
      BY <1>x, MonFields
    <3>2. LET n == [mon EXCEPT !.pc = "load", !.batch = {}, !.recs = recs]
          IN  n.pc = "load" /\ n.next = mon.next /\ n.todo = mon.todo /\ n.fg = mon.fg
      BY <1>x, MonFields
    <3> QED BY <2>1, <3>1, <3>2
  <2> QED BY <1>9, <2>2 DEF RecordCapture, MonShape
<1>10. CASE RecordLoad
  BY <1>10, <1>x DEF RecordLoad, MonType, MonShape
<1>11. CASE RecordSave
  <2>1. mon'.pc = mon.next /\ mon'.next = mon.next /\ mon'.todo = mon.todo /\ mon'.fg = mon.fg
    BY <1>11, <1>x, MonFields DEF RecordSave, RecordDone
  <2> QED BY <1>11, <2>1 DEF RecordSave, MonShape
<1>12. CASE FgJailName
  BY <1>12, <1>x DEF FgJailName, MonGo, MonType
<1>13. CASE FgJailOpen
  BY <1>13, <1>x DEF FgJailOpen, MonGo, MonType, MonShape
<1>14. CASE \E q \in Pids : OptimizeEnter(q)
  <2>1. PICK q \in Pids : OptimizeEnter(q)
    BY <1>14
  <2>2. mon'.pc \in {"boost", "optimize"} /\ mon'.fg = mon.fg
    BY <2>1, <1>x DEF OptimizeEnter, MonType
  <2> QED BY <2>2
<1>15. CASE \E q \in Pids : BatchJail(q)
  <2>1. PICK q \in Pids : BatchJail(q)
    BY <1>15
  <2>2. CASE GateOpen /\ live[q] /\ born[q] = mon.snap[q]
    <3>1. mon' = [mon EXCEPT !.pc = "apply", !.pid = q, !.next = "batch", !.todo = mon.todo \ {q}]
      BY <2>1, <2>2 DEF BatchJail
    <3>2. mon'.pc = "apply" /\ mon'.pid = q /\ mon'.next = "batch" /\ mon'.todo = mon.todo \ {q}
          /\ mon'.fg = mon.fg /\ mon'.snap = mon.snap
      BY <3>1, <1>x, MonFields
    <3> QED BY <2>1, <2>2, <3>2 DEF BatchJail
  <2>3. CASE ~(GateOpen /\ live[q] /\ born[q] = mon.snap[q])
    BY <2>1, <2>3, <1>x DEF BatchJail, MonType
  <2> QED BY <2>2, <2>3
<1>16. CASE \E q \in Pids : FgChange(q)
  <2>1. PICK q \in Pids : FgChange(q)
    BY <1>16
  <2>2. CASE mon' = [mon EXCEPT !.pc = "fgJail", !.todo = {q}]
    <3>1. mon'.pc = "fgJail" /\ mon'.todo = {q} /\ mon'.fg = mon.fg
      BY <2>2, <1>x, MonFields
    <3> QED BY <2>1, <3>1
  <2>3. CASE mon' = NextCycle(q)
    BY <2>1, <2>3, CycleFields
  <2> QED BY <2>1, <2>2, <2>3 DEF FgChange
<1>17. CASE \E q \in Pids : FgBoost(q)
  <2>1. PICK q \in Pids : FgBoost(q)
    BY <1>17
  <2>2. CASE mon' = [mon EXCEPT !.pc = "boost", !.pid = q, !.next = "loop", !.fg = q]
    <3>1. mon'.pc = "boost" /\ mon'.fg = q
      BY <2>2, <1>x, MonFields
    <3> QED BY <2>1, <3>1
  <2>3. CASE mon' = NextCycle(q)
    BY <2>1, <2>3, CycleFields
  <2> QED BY <2>1, <2>2, <2>3 DEF FgBoost
<1> QED
  BY <1>1, <1>2, <1>3, <1>4, <1>5, <1>6, <1>7, <1>8, <1>9, <1>10, <1>11, <1>12, <1>13, <1>14, <1>15, <1>16, <1>17
     DEF Monitor

(* Every step keeps the snapshots tame. *)
LEMMA TamedKept ==
  ASSUME Types, MonShape, Stages, Calls, CallArgs, NamedGamesRunFree, Tamed, Next
  PROVE  Tamed'
<1>n. \A p \in Pids : Tame(p, NoRec) /\ Tame(p, NoEntry) /\ EmptyFile[p] = NoRec
  BY Numbers, TuningAssumption DEF Tame, Jailed
<1>k. /\ \A p \in Pids : Tame(p, touched[p]) /\ Tame(p, jailFile[p]) /\ Tame(p, mon.recs[p]) /\ Tame(p, rec.pids[p])
      /\ \A t \in Threads : \A p \in Pids : Tame(p, rst[t].file[p])
      /\ \A t \in Threads : Held(t) => Tame(rst[t].pid, rst[t].entry)
  BY DEF Tamed
<1>1. CASE UNCHANGED <<jailFile, touched, mon, rst, rec>>
  BY <1>1, <1>k DEF Tamed, Held
<1>2. CASE Restoring
  <2>1. PICK t \in Threads : RestoreStep(t)
    BY <1>2 DEF Restoring
  <2>2. /\ UNCHANGED <<mon, rec>> /\ \A u \in Threads : u # t => rst'[u] = rst[u]
        /\ \A p \in Pids : Tame(p, touched'[p]) /\ Tame(p, jailFile'[p])
    BY <2>1, <1>k, <1>n, RestoreLocal
  <2>3. \A p \in Pids : Tame(p, rst'[t].file[p])
    BY <2>1, <1>k, <1>n, RestoreFields DEF RestoreStep, Types
  <2>4. Held(t)' => Tame(rst'[t].pid, rst'[t].entry)
    BY <2>1, <1>k, RestoreFields DEF RestoreStep, Held, RestoreAttrs
  <2> QED BY <2>2, <2>3, <2>4, <1>k DEF Held, Tamed
<1>3. CASE Monitor
  <2>1. /\ rec' = rec
        /\ \A p \in Pids : Tame(p, jailFile'[p])
    BY <1>3, <1>k, MonitorSteps DEF Aside, Enters, Cleans, Calling, Tunes, Captured, Merges, Records
  <2>2. ASSUME NEW p \in Pids, Enters(p)
        PROVE  \A q \in Pids : Tame(q, touched'[q])
    <3>1. live[p] /\ \E source \in Sources : Remember(p, source)
      BY <2>2 DEF Enters, Sources
    <3>2. \/ touched' = touched
          \/ /\ touched'[p].ct = born[p] /\ touched'[p].saved = attr[p]
             /\ \A q \in Pids : q # p => touched'[q] = touched[q]
      BY <3>1, RememberFields
    <3>3. attr[p] = Jailed => <<p, born[p]>> \notin NamedGames
      BY <3>1 DEF NamedGamesRunFree, IsNamed
    <3> QED BY <3>2, <3>3, <1>k DEF Tame
  <2>3. \A p \in Pids : Tame(p, touched'[p])
    BY <1>3, <1>k, <1>n, <2>2, MonitorSteps DEF Aside, Cleans, Calling, Tunes, Captured, Merges, Records
  <2>4. \A p \in Pids : Tame(p, mon'.recs[p])
    <3>1. ASSUME Captured, NEW p \in Pids PROVE Tame(p, mon'.recs[p])
      <4>1. mon'.recs[p] = NoRec \/ (mon'.recs[p].ct = touched[p].ct /\ mon'.recs[p].saved = touched[p].saved)
        BY <3>1 DEF Captured
      <4>2. Tame(p, touched[p]) /\ Tame(p, NoRec)
        BY <1>k, <1>n
      <4> QED BY <4>1, <4>2 DEF Tame
    <3> QED BY <1>3, <1>k, <1>n, <3>1, MonitorSteps DEF Aside, Enters, Cleans, Calling, Tunes, Merges, Records
  <2>5. \A t \in Threads : rst'[t] = rst[t] \/ (rst'[t].file = EmptyFile /\ rst'[t].pc = "next")
    BY <1>3, MonitorSteps, CallFields DEF Aside, Enters, Cleans, Calling, Tunes, Captured, Merges, Records, Types
  <2> QED BY <2>1, <2>3, <2>4, <2>5, <1>k, <1>n DEF Held, Tamed
<1>4. CASE Recovery
  <2>1. ASSUME NEW p \in Pids, RecoverDiscard(p) \/ RecoverUnresolved(p) \/ RecoverRestore(p)
        PROVE  \A q \in Pids : Tame(q, rec'.pids[q])
    BY <2>1, <1>k, <1>n, RecFields DEF Types, RecType
  <2>2. ASSUME NEW p \in Pids, RecoverRestore(p)
        PROVE  Tamed'
    <3>1. touched'[p].ct = born[p] /\ touched'[p].saved = rec.pids[p].saved /\ rec.pids[p].ct = born[p]
          /\ \A q \in Pids : q # p => touched'[q] = touched[q]
      BY <2>2, ReinstateFields DEF CallArgs
    <3>2. \A q \in Pids : Tame(q, touched'[q])
      BY <3>1, <1>k DEF Tame
    <3>3. rst'["main"] = RestoreCall({p}) /\ rst'["mon"] = rst["mon"] /\ UNCHANGED <<jailFile, mon>>
      BY <2>2, ReinstateFields
    <3>4. rst'["main"].file = EmptyFile /\ rst'["main"].pc = "next"
      BY <3>3, CallFields
    <3>5. \A t \in Threads : rst'[t] = rst[t] \/ (rst'[t].file = EmptyFile /\ rst'[t].pc = "next")
      BY <3>3, <3>4 DEF Threads
    <3> QED BY <2>1, <2>2, <3>2, <3>3, <3>5, <1>k, <1>n DEF Held, Tamed
  <2>3. ASSUME NEW p \in Pids, RecoverDiscard(p) \/ RecoverUnresolved(p)
        PROVE  Tamed'
    BY <2>1, <2>3, <1>k DEF RecoverDiscard, RecoverUnresolved, Held, Tamed
  <2>4. CASE Boot
    BY <2>4, <1>k, RecFields DEF Boot, Held, Tamed
  <2>5. CASE RecoverResult
    <3>1. /\ UNCHANGED <<jailFile, mon, touched>>
          /\ \A t \in Threads : rst'[t] = rst[t] \/ (rst'[t].file = EmptyFile /\ rst'[t].pc = "idle")
      BY <2>5, CallFields DEF RecoverResult, Types
    <3>2. \A q \in Pids : Tame(q, rec'.pids[q])
      BY <2>5, <1>k, <1>n, RecFields DEF Types, RecType
    <3> QED BY <3>1, <3>2, <1>k, <1>n DEF Held, Tamed
  <2>6. CASE RecoverFinish
    <3>1. /\ UNCHANGED <<touched, rst>> /\ rec'.pids = EmptyFile
          /\ jailFile' = rec.pids \/ jailFile' = jailFile
          /\ mon' = mon \/ mon'.recs = EmptyFile
      BY <2>6, RecFields DEF RecoverFinish
    <3> QED BY <3>1, <1>k, <1>n DEF Held, Tamed
  <2> QED BY <1>4, <2>2, <2>3, <2>4, <2>5, <2>6 DEF Recovery
<1>5. CASE Shutdown
  <2>1. /\ UNCHANGED <<jailFile, touched, mon, rec>>
        /\ \A t \in Threads : rst'[t] = rst[t] \/ (rst'[t].file = EmptyFile /\ rst'[t].pc = "next")
    BY <1>5, CallFields DEF Shutdown, ShutdownClose, ShutdownDrain, ShutdownDone, Types
  <2> QED BY <2>1, <1>k, <1>n DEF Held, Tamed
<1>6. CASE ProcessEnd
  <2>1. /\ jailFile' = jailFile /\ mon'.recs = EmptyFile /\ rec'.pids = EmptyFile
        /\ \A t \in Threads : rst'[t] = RstIdle
        /\ \A p \in Pids : touched'[p] = NoEntry
    BY <1>6, CycleFields DEF ProcessEnd, ForgetSession, RecIdle
  <2> QED BY <2>1, <1>k, <1>n, CallFields DEF Held, Tamed
<1>7. CASE Windows
  BY <1>7, <1>1 DEF Windows, Spawn, Exit, session
<1> QED BY <1>2, <1>3, <1>4, <1>5, <1>6, <1>7 DEF Next

(* Every step keeps the plans, when no game takes over the pid of a window. *)
LEMMA PlansKept ==
  ASSUME NoGameAfterWindow, Types, Types', MonShape, Stages, Settings, Plans, Next
  PROVE  Plans'
<1>w. \A p \in Pids : born[p] <= born'[p] => (Windowed(p) => Windowed(p)')
  <2> SUFFICES ASSUME NEW p \in Pids, born[p] <= born'[p], NEW n \in 1..born[p], <<p, n>> \in Focusable
               PROVE  n \in 1..born'[p]
    BY DEF Windowed
  <2> QED BY TuningAssumption DEF Types
<1>1. CASE Monitor
  <2>1. UNCHANGED <<born, live>>
    BY <1>1, MonitorSteps DEF Aside, Enters, Cleans, Calling, Tunes, Captured, Merges, Records
  <2>2. \A p \in Pids : Windowed(p)' = Windowed(p)
    BY <2>1 DEF Windowed
  <2>3. \A f \in Pids : FgChange(f) \/ FgBoost(f) => Windowed(f)
    <3> SUFFICES ASSUME NEW f \in Pids, FgChange(f) \/ FgBoost(f) PROVE Windowed(f)
      OBVIOUS
    <3>1. CASE FgChange(f)
      BY <3>1, TuningAssumption DEF FgChange, Windowed, Proc, Settings, Types
    <3>2. CASE FgBoost(f)
      BY <3>2 DEF FgBoost, Plans, Picked
    <3> QED BY <3>1, <3>2
  <2>4. mon.todo \subseteq Pids /\ mon'.todo \subseteq Pids /\ mon.fg \in Pids \cup {None}
        /\ mon'.fg \in Pids \cup {None}
    BY DEF Types, MonType
  <2>5. Batching' => \A p \in mon'.todo : mon'.snap[p] # 0 /\ ~IsNamed(p, mon'.snap[p])
    BY <1>1, PlanSteps DEF Plans, Eligible
  <2>6. mon'.pc = "apply" /\ live'[mon'.pid] => ~IsNamed(mon'.pid, born'[mon'.pid])
    BY <1>1, <2>1, PlanSteps DEF Plans
  <2>7. (mon.fg # None => Windowed(mon.fg))'
    <3> SUFFICES ASSUME mon'.fg # None PROVE Windowed(mon.fg)'
      OBVIOUS
    <3>1. mon'.fg \in {mon.fg, None} \/ \E f \in Pids : mon'.fg = f /\ (FgChange(f) \/ FgBoost(f))
      BY <1>1, PlanSteps
    <3>2. \E f \in Pids : mon'.fg = f /\ Windowed(f)
      BY <2>3, <2>4, <3>1 DEF Plans
    <3> QED BY <2>1, <3>2 DEF Windowed
  <2>8. Picked' => \A f \in mon'.todo : Windowed(f)'
    BY <1>1, <2>2, <2>3, <2>4, PlanSteps DEF Plans
  <2>9. mon'.pc = "fgOpen" => ~IsNamed(mon'.fg, born'[mon'.fg])
    BY <1>1, <2>1, PlanSteps DEF FgNameOk
  <2> QED BY <2>5, <2>6, <2>7, <2>8, <2>9 DEF Plans
<1>2. ASSUME mon' = mon, UNCHANGED <<born, live>>
      PROVE  Plans'
  BY <1>2 DEF Plans, Batching, Picked, Windowed
<1>3. CASE Windows
  <2>1. PICK q \in Pids : Spawn(q) \/ Exit(q)
    BY <1>3 DEF Windows
  <2>2. mon' = mon
    BY <2>1 DEF Spawn, Exit, session
  <2>3. \A p \in Pids : born[p] <= born'[p] /\ (born'[p] = born[p] \/ (Spawn(q) /\ p = q))
    BY <2>1, TuningAssumption DEF Spawn, Exit, Types
  <2>4. mon.pc = "apply" /\ live'[mon.pid] => ~IsNamed(mon.pid, born'[mon.pid])
    <3> SUFFICES ASSUME mon.pc = "apply", live'[mon.pid] PROVE ~IsNamed(mon.pid, born'[mon.pid])
      OBVIOUS
    <3>1. mon.pid \in Pids
      BY DEF MonShape
    <3>2. mon.pid # q
      BY <2>1 DEF Spawn, Exit, Pinned, Types
    <3>3. live[mon.pid] /\ born'[mon.pid] = born[mon.pid]
      BY <2>1, <3>1, <3>2 DEF Spawn, Exit, Types
    <3> QED BY <3>3 DEF Plans
  <2>5. mon.pc = "fgOpen" => ~IsNamed(mon.fg, born'[mon.fg])
    <3> SUFFICES ASSUME mon.pc = "fgOpen" PROVE ~IsNamed(mon.fg, born'[mon.fg])
      OBVIOUS
    <3>1. mon.fg \in Pids /\ mon.fg # None
      BY TuningAssumption DEF MonShape, None
    <3>2. CASE born'[mon.fg] = born[mon.fg]
      BY <3>2 DEF Plans
    <3>3. CASE Spawn(q) /\ mon.fg = q
      <4>1. PICK n \in 1..born[q] : <<q, n>> \in Focusable
        BY <3>1, <3>3 DEF Plans, Windowed
      <4>2. born'[q] = born[q] + 1 /\ born[q] \in Nat /\ born'[q] \in 1..MaxBirth
        BY <3>3, TuningAssumption DEF Spawn, Types
      <4>3. born'[q] > n
        BY <4>1, <4>2
      <4> QED BY <3>3, <4>1, <4>2, <4>3 DEF NoGameAfterWindow, IsNamed
    <3> QED BY <2>3, <3>1, <3>2, <3>3
  <2>6. \A p \in Pids : Windowed(p) => Windowed(p)'
    BY <2>3, <1>w
  <2>7. mon.todo \subseteq Pids /\ mon.fg \in Pids \cup {None}
    BY DEF Types, MonType
  <2> QED BY <2>2, <2>4, <2>5, <2>6, <2>7 DEF Plans, Batching, Picked
<1>4. CASE Restoring
  BY <1>2, <1>4, RestoreLocal DEF Restoring
<1>5. CASE RecoverFinish
  <2>1. mon' = mon \/ (mon'.pc = "loop" /\ mon'.fg = None)
    BY <1>5, CycleFields DEF RecoverFinish, MonOff
  <2>2. UNCHANGED <<born, live>>
    BY <1>5 DEF RecoverFinish, os
  <2> QED BY <1>2, <2>1, <2>2 DEF Plans, Batching, Picked
<1>6. CASE ProcessEnd
  <2>1. mon'.pc = "off" /\ mon'.fg = None
    BY <1>6, CycleFields DEF ProcessEnd, ForgetSession
  <2> QED BY <2>1 DEF Plans, Batching, Picked
<1>7. CASE Recovery /\ ~RecoverFinish
  BY <1>2, <1>7 DEF Recovery, Boot, RecoverResult, RecoverDiscard, RecoverUnresolved, RecoverRestore, os
<1>8. CASE Shutdown
  BY <1>2, <1>8 DEF Shutdown, ShutdownClose, ShutdownDrain, ShutdownDone, os
<1> QED BY <1>1, <1>3, <1>4, <1>5, <1>6, <1>7, <1>8 DEF Next

(* Every step leaves the games untouched by throttling. *)
LEMMA RunFreeKept ==
  ASSUME Types, Types', MonShape, Stages, Calls, Settings, NamedGamesRunFree, Tamed, Plans, Next
  PROVE  NamedGamesRunFree'
<1> SUFFICES ASSUME NEW p \in Pids, live'[p], IsNamed(p, born'[p]), attr'[p] = Jailed
             PROVE  FALSE
  BY DEF NamedGamesRunFree
<1>n. Jailed = MaxBirth + 1 /\ Boosted = MaxBirth + 2 /\ MaxBirth \in Nat /\ born[p] \in 0..MaxBirth
      /\ born'[p] \in 0..MaxBirth
  BY TuningAssumption DEF Jailed, Boosted, Types
<1>0. ASSUME born'[p] = born[p], live[p], attr'[p] = attr[p]
      PROVE  FALSE
  BY <1>0 DEF NamedGamesRunFree
<1>1. CASE Windows
  <2>1. PICK q \in Pids : Spawn(q) \/ Exit(q)
    BY <1>1 DEF Windows
  <2>2. q # p
    <3>1. Exit(q) /\ q = p => ~live'[p]
      BY DEF Exit, Types
    <3>2. Spawn(q) /\ q = p => attr'[p] = born[p] + 1 /\ born'[p] = born[p] + 1
      BY DEF Spawn, Types
    <3> QED BY <2>1, <3>1, <3>2, <1>n
  <2> QED BY <1>0, <2>1, <2>2 DEF Spawn, Exit, Types
<1>2. CASE Restoring
  <2>1. PICK t \in Threads : RestoreStep(t)
    BY <1>2 DEF Restoring
  <2>2. UNCHANGED <<born, live>> /\ (attr' = attr \/ RestoreAttrs(t))
    BY <2>1, RestoreLocal
  <2>3. CASE RestoreAttrs(t) /\ p = rst[t].pid
    <3>1. attr'[p] = rst[t].entry.saved /\ born[p] = rst[t].entry.ct
      BY <2>3 DEF RestoreAttrs, Types
    <3>2. Tame(p, rst[t].entry)
      BY <2>3 DEF RestoreAttrs, Tamed, Held
    <3> QED BY <2>2, <3>1, <3>2 DEF Tame, IsNamed
  <2> QED BY <1>0, <2>2, <2>3 DEF RestoreAttrs, Types
<1>3. CASE Monitor
  <2>1. UNCHANGED <<born, live>>
    BY <1>3, MonitorSteps DEF Aside, Enters, Cleans, Calling, Tunes, Captured, Merges, Records
  <2>2. attr'[p] = attr[p] \/ (Tunes /\ p = mon.pid)
    BY <1>3, MonitorSteps DEF Aside, Enters, Cleans, Calling, Tunes, Captured, Merges, Records, Types
  <2>3. Tunes /\ p = mon.pid => attr[p] = Jailed \/ mon.pc = "apply"
    BY DEF Tunes
  <2> QED BY <1>0, <2>1, <2>2, <2>3 DEF Plans
<1>4. CASE Recovery \/ Shutdown \/ ProcessEnd
  <2>1. UNCHANGED <<born, live, attr>>
    BY <1>4 DEF Recovery, Boot, RecoverResult, RecoverFinish, RecoverDiscard, RecoverUnresolved, RecoverRestore,
         Shutdown, ShutdownClose, ShutdownDrain, ShutdownDone, ProcessEnd, os
  <2> QED BY <2>1, <1>0
<1> QED BY <1>1, <1>2, <1>3, <1>4 DEF Next

(* The inductive invariant of the games. *)
Freed == NamedGamesRunFree /\ Tamed /\ Plans

(* It holds at first. *)
LEMMA FreedInit == Init /\ Invariant => Freed
<1> SUFFICES ASSUME Init, Invariant PROVE Freed
  OBVIOUS
<1>1. Types
  BY DEF Invariant
<1>2. NamedGamesRunFree
  BY DEF Init, NamedGamesRunFree
<1>3. Tamed
  BY <1>1, CycleFields, CallFields, Numbers, TuningAssumption DEF Init, Tamed, Tame, Jailed, Held, RecIdle
<1>4. Plans
  BY CycleFields DEF Init, Plans, Batching, Picked
<1> QED BY <1>2, <1>3, <1>4 DEF Freed

(* Every step keeps it. *)
LEMMA FreedNext == NoGameAfterWindow /\ Invariant /\ Invariant' /\ Freed /\ [Next]_vars => Freed'
<1> SUFFICES ASSUME NoGameAfterWindow, Invariant, Invariant', Freed, [Next]_vars PROVE Freed'
  OBVIOUS
<1>1. CASE Next
  BY <1>1, TamedKept, PlansKept, RunFreeKept DEF Freed, Invariant
<1>2. CASE UNCHANGED vars
  BY <1>2 DEF vars, os, session, Freed, NamedGamesRunFree, Tamed, Held, Plans, Batching, Picked, Windowed
<1> QED BY <1>1, <1>2

(* tuning.py:655, 666-684: no game the engine knows by name is ever throttled, not even one     *)
(* that took over the pid of a process the snapshot listed - provided that none takes over the  *)
(* pid of a process that had a window: the batch compares the creation time after it opened the *)
(* pid, the jail of the process the foreground left does not.                                   *)
THEOREM NamedGamesSpared == NoGameAfterWindow => (Spec => []NamedGamesRunFree)
<1> SUFFICES ASSUME NoGameAfterWindow PROVE Spec => []NamedGamesRunFree
  OBVIOUS
<1>1. Init /\ Invariant => Freed
  BY FreedInit
<1>2. Invariant /\ Invariant' /\ Freed /\ [Next]_vars => Freed'
  BY FreedNext
<1>3. Freed => NamedGamesRunFree
  BY DEF Freed
<1> QED BY <1>1, <1>2, <1>3, AlwaysInvariant, PTL DEF Spec
=============================================================================
