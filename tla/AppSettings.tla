----------------------------- MODULE AppSettings -----------------------------
(***************************************************************************)
(* The application settings: AppSettingsStore.mjs in the page shows every  *)
(* change at once and saves the changes one after the other; the Electron  *)
(* main process keeps them in memory and in a file, and keeps the one that *)
(* starts the program with Windows in step with a scheduled task, which    *)
(* replaces the login item of earlier versions.                            *)
(*                                                                         *)
(* Main handles a request without an await.  Every call it makes may fail, *)
(* the reading and the writing of the file included, and the program may   *)
(* end and be launched again at any time; to die between the change of the *)
(* task and the file is to fail to write the file and to end.              *)
(***************************************************************************)
EXTENDS Naturals, Sequences

CONSTANTS
  Fields,      \* the settings, all of them two-valued (language is en or ru)
  Launch,      \* launchAtWindowsStartup
  Defaults,    \* DEFAULT_APP_SETTINGS
  MaxUpdates,  \* bound: changes the user makes in one page
  MaxLaunches  \* bound: launches of the program

Values == [Fields -> BOOLEAN]
Own == Fields \ {Launch}

ASSUME AppSettingsAssumption ==
  /\ Launch \in Fields /\ Defaults \in Values
  /\ MaxUpdates \in Nat /\ MaxLaunches \in Nat

Settings == [set : Values, rev : Nat]
Default == [set |-> Defaults, rev |-> 0]
NoSettings == [rev |-> 0]

\* What normalizeAppSettingsPatch lets through: at least one setting and its new value.
Patches == UNION {[fields -> BOOLEAN] : fields \in SUBSET Fields \ {{}}}

\* {...settings, ...patch}
Apply(values, patch) == [f \in Fields |-> IF f \in DOMAIN patch THEN patch[f] ELSE values[f]]

VARIABLES
  file,       \* the settings file
  state,      \* appSettingsState of main, or NoSettings
  task,       \* the scheduled task exists
  legacy,     \* the login item of an earlier version exists
  page,       \* the window shows the application
  snapshot,   \* snapshot.settings
  committed,  \* committed
  load,       \* the call of load: "asked", "answered" or "failed" by main, and then in the page
              \* "taken", "discarded" for the updates made since, or "refused"
  loaded,     \* its answer
  queue,      \* the patches of the updates that have not settled; the first one is being saved
  reply,      \* main's answer to that save: [ok |-> FALSE], or the settings
  updates,    \* localRevision
  launches,
  confirmed   \* history: this page has heard of a save that went through

main == <<file, state, task, legacy>>
store == <<snapshot, committed, load, loaded, queue, reply, updates, confirmed>>
vars == <<main, page, store, launches>>

NoReply == [ok |-> TRUE]
Refusal == [ok |-> FALSE]
Answers == {NoReply, Refusal} \cup [ok : {TRUE}, saved : Settings]

\* The store of a new page.
NewStore ==
  /\ snapshot = Default.set /\ committed = Default /\ load = "asked" /\ loaded = Default
  /\ queue = <<>> /\ reply = NoReply /\ updates = 0 /\ confirmed = FALSE

Init ==
  /\ file \in [set : Values, rev : {0}] /\ state = NoSettings
  /\ task \in BOOLEAN /\ legacy \in BOOLEAN /\ ~(task /\ legacy)
  /\ page = FALSE /\ NewStore
  /\ launches = 0

-----------------------------------------------------------------------------
(* The scheduled task *)

\* isWindowsStartupTaskEnabled: a query that fails says no
Query(exists) == {exists, FALSE}

\* setWindowsStartupTask: whether the task exists then, and whether the call has returned.  It
\* asks before it deletes; a command that times out may have had its effect.
SetTask(exists, wish) ==
  IF wish THEN {[exists |-> TRUE, ok |-> TRUE]} \cup [exists : {exists, TRUE}, ok : {FALSE}]
  ELSE {[exists |-> e, ok |-> TRUE] : e \in {FALSE, exists}}
       \cup {[exists |-> e, ok |-> FALSE] : e \in IF exists THEN BOOLEAN ELSE {}}

(* Mutant: the task is created before the login item is known to be gone. *)
ReadingTaskFirst(wish, exists, item) ==
  [launch : {TRUE}, task : {TRUE}, legacy : {item, FALSE}]

\* readAppSettings up to the write of the file: what is told of launchAtWindowsStartup, and what
\* Windows has then.  known: the login item could be read; cleared: it could be removed.
Reading(wish, exists, item) ==
  {o \in [launch : BOOLEAN, task : BOOLEAN, legacy : BOOLEAN] :
     \E known \in BOOLEAN, cleared \in BOOLEAN, seen \in Query(exists) :
       LET found == known /\ item IN
       /\ o.legacy = (item /\ ~cleared)
       /\ IF ~cleared /\ (found \/ ~known)
            THEN /\ ~o.launch
                 /\ IF seen THEN \E done \in SetTask(exists, FALSE) : o.task = done.exists
                            ELSE o.task = exists
          ELSE IF wish \/ found
            THEN \E done \in SetTask(exists, TRUE) : o.task = done.exists /\ o.launch = done.ok
            ELSE o.task = exists /\ o.launch = seen}

Told(settings, launch) == [settings EXCEPT !.set = [@ EXCEPT ![Launch] = launch]]

-----------------------------------------------------------------------------
(* The main process *)

\* readStoredAppSettings: what is in memory, else the file, or the defaults when it cannot be read
Stored == IF state # NoSettings THEN {state} ELSE {file, Default}

\* readAppSettings: the memory is set, then the file is written
ReadAppSettings(written) ==
  \E settings \in Stored : \E o \in Reading(settings.set[Launch], task, legacy) :
    /\ state' = Told(settings, o.launch)
    /\ file' = IF written THEN state' ELSE file
    /\ task' = o.task /\ legacy' = o.legacy

\* bootstrap, or Retry: the window shows the application only when the settings could be read.
Bootstrap ==
  /\ ~page
  /\ \E written \in BOOLEAN : ReadAppSettings(written) /\ page' = written
  /\ UNCHANGED <<store, launches>>

Relaunch ==
  /\ launches < MaxLaunches /\ launches' = launches + 1
  /\ state' = NoSettings /\ page' = FALSE
  /\ snapshot' = Default.set /\ committed' = Default /\ load' = "asked" /\ loaded' = Default
  /\ queue' = <<>> /\ reply' = NoReply /\ updates' = 0 /\ confirmed' = FALSE
  /\ UNCHANGED <<file, task, legacy>>

\* appSettings:get
LoadHandled ==
  /\ page /\ load = "asked"
  /\ \/ ReadAppSettings(TRUE) /\ load' = "answered" /\ loaded' = state'
     \/ ReadAppSettings(FALSE) /\ load' = "failed" /\ UNCHANGED loaded
  /\ UNCHANGED <<snapshot, committed, queue, reply, updates, confirmed, page, launches>>

\* What setWindowsStartupTask and the second removal of the login item do to an order.
Ordering(patch, o) ==
  IF Launch \notin DOMAIN patch THEN {[exists |-> o.task, item |-> o.legacy, ok |-> TRUE]}
  ELSE {[exists |-> o.task, item |-> o.legacy, ok |-> FALSE]}
       \cup {[exists |-> done.exists, item |-> FALSE, ok |-> done.ok] :
               done \in SetTask(o.task, patch[Launch])}

\* writeAppSettings: read, change the task, write the file; each of the three may throw.
WriteAppSettings(patch) ==
  \E o \in Reading(state.set[Launch], task, legacy) :
    LET current == Told(state, o.launch) IN
    \/ /\ file' = file /\ state' = current /\ task' = o.task /\ legacy' = o.legacy
       /\ reply' = Refusal
    \/ \E done \in Ordering(patch, o) :
         /\ task' = done.exists /\ legacy' = done.item
         /\ \/ state' = current /\ file' = current /\ reply' = Refusal
            \/ /\ done.ok
               /\ \E launch \in Query(done.exists) :
                    state' = Told([set |-> Apply(current.set, patch), rev |-> current.rev + 1],
                                  launch)
               /\ file' = state' /\ reply' = [ok |-> TRUE, saved |-> state']

\* appSettings:update; requests are handled in the order they were sent
SaveHandled ==
  /\ page /\ queue # <<>> /\ reply = NoReply /\ load # "asked"
  /\ WriteAppSettings(Head(queue))
  /\ UNCHANGED <<snapshot, committed, load, loaded, queue, updates, confirmed, page, launches>>

-----------------------------------------------------------------------------
(* The store of the page *)

(* Mutant: the answer of the load is taken whatever the user has changed since. *)
LoadTakenAlways ==
  /\ committed' = loaded /\ snapshot' = loaded.set /\ load' = "taken"

\* initialize, when load answers: not when an update was made in the meantime
LoadTaken ==
  IF updates = 0 /\ loaded.rev >= committed.rev
    THEN committed' = loaded /\ snapshot' = loaded.set /\ load' = "taken"
    ELSE UNCHANGED <<committed, snapshot>> /\ load' = "discarded"

LoadDelivered ==
  /\ page
  /\ \/ load = "answered" /\ LoadTaken
     \/ load = "failed" /\ load' = "refused" /\ UNCHANGED <<committed, snapshot>>
  /\ UNCHANGED <<main, page, loaded, queue, reply, updates, confirmed, launches>>

Settled == load \in {"taken", "discarded", "refused"}

\* update: shown at once, saved after the updates before it
Update(patch) ==
  /\ page /\ updates < MaxUpdates /\ updates' = updates + 1
  /\ snapshot' = Apply(snapshot, patch)
  /\ queue' = Append(queue, patch)
  /\ UNCHANGED <<main, page, committed, load, loaded, reply, confirmed, launches>>

Latest == Len(queue) = 1

(* Mutant: a refused update leaves what it has shown. *)
SaveSettledKeeps ==
  IF "saved" \in DOMAIN reply /\ reply.saved.rev >= committed.rev
    THEN /\ committed' = reply.saved /\ confirmed' = TRUE
         /\ snapshot' = IF Latest THEN reply.saved.set ELSE snapshot
    ELSE UNCHANGED <<committed, snapshot, confirmed>>

\* The rest of the operation: only the latest update shows its outcome.
SaveSettled ==
  IF "saved" \in DOMAIN reply /\ reply.saved.rev >= committed.rev
    THEN /\ committed' = reply.saved /\ confirmed' = TRUE
         /\ snapshot' = IF Latest THEN reply.saved.set ELSE snapshot
    ELSE /\ UNCHANGED <<committed, confirmed>>
         /\ snapshot' = IF Latest THEN committed.set ELSE snapshot

SaveDelivered ==
  /\ page /\ reply # NoReply /\ Settled
  /\ SaveSettled
  /\ queue' = Tail(queue) /\ reply' = NoReply
  /\ UNCHANGED <<main, page, load, loaded, updates, launches>>

-----------------------------------------------------------------------------
Next ==
  \/ Bootstrap \/ Relaunch
  \/ LoadHandled \/ LoadDelivered
  \/ \E patch \in Patches : Update(patch)
  \/ SaveHandled \/ SaveDelivered

Spec == Init /\ [][Next]_vars

-----------------------------------------------------------------------------
(* Properties *)

TypeOK ==
  /\ file \in Settings /\ state \in Settings \cup {NoSettings}
  /\ task \in BOOLEAN /\ legacy \in BOOLEAN /\ page \in BOOLEAN
  /\ snapshot \in Values /\ committed \in Settings
  /\ load \in {"asked", "failed", "answered", "taken", "discarded", "refused"} /\ loaded \in Settings
  /\ queue \in Seq(Patches) /\ reply \in Answers
  /\ updates \in Nat /\ launches \in Nat /\ confirmed \in BOOLEAN

\* A setting the user has just changed stays as the user has put it until its save is over: no
\* late load and no answer to an earlier save shows another value (initialize, update).
PendingIsShown ==
  \A i \in 1 .. Len(queue) : \A f \in DOMAIN queue[i] :
    (\A j \in i + 1 .. Len(queue) : f \notin DOMAIN queue[j]) => snapshot[f] = queue[i][f]

\* When nothing is being saved, and the load is over, the page shows what the next launch will
\* read from the file, whichever saves, reads and commands have failed - or it shows the defaults
\* because it has taken nothing from main: the answer of its load came during an update, or was a
\* refusal, and none of its saves has gone through (initialize, update).
QuietIsStored ==
  page /\ Settled /\ queue = <<>> =>
    \/ \A f \in Own : snapshot[f] = file.set[f]
    \/ load # "taken" /\ ~confirmed /\ snapshot = Default.set

\* Windows never holds both the task and the old login item: the program is not started twice,
\* whatever fails while one replaces the other (readAppSettings, writeAppSettings).
OneAutostart == ~(task /\ legacy)

\* app-settings-store.test.mjs:93, of the page: "a failed latest write rolls back to the last
\* committed revision", which is what main keeps in the file.
FailedSaveRollsBack ==
  [][page' /\ reply = Refusal /\ queue # <<>> /\ queue' = <<>> =>
       \A f \in Own : snapshot'[f] = file.set[f]]_vars
=============================================================================
