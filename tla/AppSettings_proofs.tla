-------------------------- MODULE AppSettings_proofs --------------------------
(***************************************************************************)
(* Proofs about AppSettings, for every set of settings and defaults and    *)
(* every number of updates and launches.                                   *)
(*                                                                         *)
(* What a quiet page shows is two steps away from the file: it shows what  *)
(* is committed (ShownIsCommitted), and what is committed is the file, or  *)
(* the file is the answer under way (AnswerIsFile) - once the page has     *)
(* taken an answer of main; before, it is the defaults (Unheard).  That    *)
(* needs the memory of main to agree with the file as long as there is a   *)
(* page (Memory).                                                          *)
(***************************************************************************)
EXTENDS AppSettings, TLAPS

StoreTypes ==
  /\ snapshot \in Values /\ committed \in Settings
  /\ load \in {"asked", "failed", "answered", "taken", "discarded", "refused"} /\ loaded \in Settings
  /\ queue \in Seq(Patches) /\ reply \in Answers /\ updates \in Nat

MainTypes == file \in Settings /\ state \in Settings \cup {NoSettings}

Flags == task \in BOOLEAN /\ legacy \in BOOLEAN /\ page \in BOOLEAN /\ confirmed \in BOOLEAN

(* An answer is there for a save, and a save for an update. *)
Waiting == (queue = <<>> => reply = NoReply) /\ (updates = 0 => queue = <<>>)

(* Without a page there is no store. *)
NoPage == ~page => NewStore

(* The same settings, but for what Windows says. *)
Agree(s, t) == s.rev = t.rev /\ \A f \in Own : s.set[f] = t.set[f]

Memory == page => state \in Settings /\ Agree(state, file)

(* The answer of the load is what main has kept, until an update is saved. *)
LoadedIsFile == page /\ load = "answered" /\ updates = 0 => Agree(loaded, file)

(* What is committed has come from main. *)
Heard == load = "taken" \/ confirmed

Unheard == ~Heard => committed = Default

AnswerIsFile ==
  page => /\ committed.rev <= file.rev
          /\ "saved" \in DOMAIN reply => Agree(reply.saved, file)
          /\ Heard /\ "saved" \notin DOMAIN reply => Agree(committed, file)

ShownIsCommitted == queue = <<>> => snapshot = committed.set

Types == StoreTypes /\ MainTypes /\ Flags
Kept  == Memory /\ LoadedIsFile /\ AnswerIsFile /\ Unheard
Inv   == Types /\ Waiting /\ NoPage /\ Kept /\ ShownIsCommitted /\ PendingIsShown /\ OneAutostart

-----------------------------------------------------------------------------
(* Lemmas about the operators *)

LEMMA ApplyTypes ==
  ASSUME NEW v \in Values, NEW p \in Patches
  PROVE  Apply(v, p) \in Values
<1>1. PICK fields \in SUBSET Fields \ {{}} : p \in [fields -> BOOLEAN]  BY DEF Patches
<1> QED  BY <1>1 DEF Values, Apply

LEMMA ToldTypes ==
  ASSUME NEW s \in Settings, NEW b \in BOOLEAN
  PROVE  Told(s, b) \in Settings /\ Agree(Told(s, b), s)
BY AppSettingsAssumption DEF Settings, Values, Told, Agree, Own

LEMMA SetTaskFacts ==
  ASSUME NEW e \in BOOLEAN, NEW w \in BOOLEAN, NEW done \in SetTask(e, w)
  PROVE  done.exists \in BOOLEAN /\ done.ok \in BOOLEAN /\ (~w /\ done.exists => e)
<1>1. CASE w
  <2>1. done \in {[exists |-> TRUE, ok |-> TRUE]} \cup [exists : {e, TRUE}, ok : {FALSE}]
    BY <1>1 DEF SetTask
  <2>2. CASE done \in [exists : {e, TRUE}, ok : {FALSE}]
    <3>1. done.exists \in {e, TRUE} /\ done.ok \in {FALSE}  BY <2>2
    <3> QED  BY <1>1, <3>1
  <2>3. CASE done = [exists |-> TRUE, ok |-> TRUE]  BY <1>1, <2>3
  <2> QED  BY <2>1, <2>2, <2>3
<1>2. CASE ~w
  <2>1. \/ \E b \in {FALSE, e} : done = [exists |-> b, ok |-> TRUE]
        \/ \E b \in IF e THEN BOOLEAN ELSE {} : done = [exists |-> b, ok |-> FALSE]
    BY <1>2, Zenon DEF SetTask
  <2>2. CASE \E b \in {FALSE, e} : done = [exists |-> b, ok |-> TRUE]
    <3>1. PICK b \in {FALSE, e} : done = [exists |-> b, ok |-> TRUE]  BY <2>2
    <3>2. b = FALSE \/ b = e  BY Zenon
    <3>3. CASE b = FALSE  BY <3>1, <3>3
    <3>4. CASE b = e  BY <3>1, <3>4
    <3> QED  BY <3>2, <3>3, <3>4
  <2>3. CASE \E b \in IF e THEN BOOLEAN ELSE {} : done = [exists |-> b, ok |-> FALSE]
    <3>1. PICK b \in IF e THEN BOOLEAN ELSE {} : done = [exists |-> b, ok |-> FALSE]  BY <2>3
    <3>2. b \in BOOLEAN /\ e  BY <3>1
    <3> QED  BY <1>2, <3>1, <3>2
  <2> QED  BY <2>1, <2>2, <2>3
<1> QED  BY <1>1, <1>2

(* Reading never leaves a task beside the old login item. *)
LEMMA ReadingFacts ==
  ASSUME NEW w, NEW e \in BOOLEAN, NEW i \in BOOLEAN, ~(e /\ i), NEW o \in Reading(w, e, i)
  PROVE  /\ o.launch \in BOOLEAN /\ o.task \in BOOLEAN /\ o.legacy \in BOOLEAN
         /\ ~(o.task /\ o.legacy)
<1>1. o \in [launch : BOOLEAN, task : BOOLEAN, legacy : BOOLEAN]  BY DEF Reading
<1>2. PICK known \in BOOLEAN, cleared \in BOOLEAN, seen \in Query(e) :
        LET found == known /\ i IN
        /\ o.legacy = (i /\ ~cleared)
        /\ IF ~cleared /\ (found \/ ~known)
             THEN /\ ~o.launch
                  /\ IF seen THEN \E done \in SetTask(e, FALSE) : o.task = done.exists
                             ELSE o.task = e
           ELSE IF w \/ found
             THEN \E done \in SetTask(e, TRUE) : o.task = done.exists /\ o.launch = done.ok
             ELSE o.task = e /\ o.launch = seen
  BY DEF Reading
<1>3. CASE ~cleared /\ ((known /\ i) \/ ~known)
  <2>1. o.task => e
    <3>1. CASE seen
      <4>1. PICK done \in SetTask(e, FALSE) : o.task = done.exists  BY <1>2, <1>3, <3>1
      <4> QED  BY <4>1, SetTaskFacts
    <3>2. CASE ~seen  BY <1>2, <1>3, <3>2
    <3> QED  BY <3>1, <3>2
  <2>2. o.legacy => i  BY <1>2
  <2> QED  BY <1>1, <2>1, <2>2
<1>4. CASE ~(~cleared /\ ((known /\ i) \/ ~known))
  <2>1. ~o.legacy  BY <1>2, <1>4
  <2> QED  BY <1>1, <2>1
<1> QED  BY <1>3, <1>4

LEMMA OrderingFacts ==
  ASSUME NEW p \in Patches, NEW o, o.task \in BOOLEAN, o.legacy \in BOOLEAN,
         ~(o.task /\ o.legacy), NEW done \in Ordering(p, o)
  PROVE  done.exists \in BOOLEAN /\ done.item \in BOOLEAN /\ ~(done.exists /\ done.item)
<1>1. CASE Launch \notin DOMAIN p  BY <1>1 DEF Ordering
<1>2. CASE Launch \in DOMAIN p
  <2>1. CASE done = [exists |-> o.task, item |-> o.legacy, ok |-> FALSE]  BY <2>1
  <2>2. CASE \E d \in SetTask(o.task, p[Launch]) :
               done = [exists |-> d.exists, item |-> FALSE, ok |-> d.ok]
    <3>1. p[Launch] \in BOOLEAN  BY <1>2 DEF Patches
    <3> QED  BY <2>2, <3>1, SetTaskFacts
  <2> QED  BY <1>2, <2>1, <2>2 DEF Ordering
<1> QED  BY <1>1, <1>2

LEMMA NoSaves ==
  /\ "saved" \notin DOMAIN NoReply /\ "saved" \notin DOMAIN Refusal
  /\ NoSettings \notin Settings /\ Default \in Settings
  /\ NoReply \in Answers /\ Refusal \in Answers
<1>1. DOMAIN NoReply = {"ok"} /\ DOMAIN Refusal = {"ok"} /\ DOMAIN NoSettings = {"rev"}
  BY DEF NoReply, Refusal, NoSettings
<1>2. \A s \in Settings : DOMAIN s = {"set", "rev"}  BY DEF Settings
<1>3. Default \in Settings  BY AppSettingsAssumption DEF Default, Settings
<1> QED  BY <1>1, <1>2, <1>3 DEF Answers

-----------------------------------------------------------------------------
LEMMA InitInv == Init => Inv
<1> SUFFICES ASSUME Init PROVE Inv  OBVIOUS
<1>1. snapshot = Default.set /\ committed = Default /\ load = "asked" /\ loaded = Default
      /\ queue = <<>> /\ reply = NoReply /\ updates = 0 /\ confirmed = FALSE /\ page = FALSE
  BY DEF Init, NewStore
<1>2. StoreTypes
  BY <1>1, NoSaves, AppSettingsAssumption DEF StoreTypes, Default, Settings
<1>3. MainTypes  BY DEF Init, MainTypes, Settings
<1>4. Flags /\ OneAutostart  BY <1>1 DEF Init, Flags, OneAutostart
<1>5. Waiting /\ NoPage /\ Kept /\ ShownIsCommitted /\ PendingIsShown
  BY <1>1 DEF Waiting, NoPage, NewStore, Kept, Memory, LoadedIsFile, AnswerIsFile, Unheard,
              Heard, ShownIsCommitted, PendingIsShown
<1> QED  BY <1>2, <1>3, <1>4, <1>5 DEF Inv, Types

(* Inv is about the variables only. *)
LEMMA Stutter == ASSUME Inv, UNCHANGED vars PROVE Inv'
BY DEF vars, main, store, Inv, Types, StoreTypes, MainTypes, Flags, Waiting, NoPage, NewStore, Kept, Memory,
       LoadedIsFile, AnswerIsFile, Unheard, Heard, ShownIsCommitted, PendingIsShown, OneAutostart

(* What a reading does to main: the memory keeps what the file has, once there is a page. *)
LEMMA ReadFacts ==
  ASSUME Inv, NEW written \in BOOLEAN, ReadAppSettings(written)
  PROVE  /\ state' \in Settings /\ file' \in Settings
         /\ task' \in BOOLEAN /\ legacy' \in BOOLEAN /\ OneAutostart'
         /\ written => file' = state'
         /\ ~written => file' = file
         /\ page => Agree(state', file)
<1>0. PICK settings \in Stored : \E o \in Reading(settings.set[Launch], task, legacy) :
        /\ state' = Told(settings, o.launch)
        /\ file' = IF written THEN state' ELSE file
        /\ task' = o.task /\ legacy' = o.legacy
  BY DEF ReadAppSettings
<1>1. PICK o \in Reading(settings.set[Launch], task, legacy) :
        /\ state' = Told(settings, o.launch)
        /\ file' = IF written THEN state' ELSE file
        /\ task' = o.task /\ legacy' = o.legacy
  BY <1>0
<1>2. settings \in Settings /\ (page => settings = state)
  BY <1>1, NoSaves DEF Stored, Inv, Types, MainTypes, Kept, Memory
<1>3. o.launch \in BOOLEAN /\ o.task \in BOOLEAN /\ o.legacy \in BOOLEAN
      /\ ~(o.task /\ o.legacy)
  BY <1>1, ReadingFacts DEF Inv, Types, Flags, OneAutostart
<1>4. state' \in Settings /\ Agree(state', settings)  BY <1>1, <1>2, <1>3, ToldTypes
<1>5. page => Agree(state', file)
  BY <1>2, <1>4 DEF Inv, Kept, Memory, Agree
<1> QED  BY <1>1, <1>3, <1>4, <1>5 DEF Inv, Types, MainTypes, OneAutostart

(* bootstrap *)
LEMMA BootstrapKeepsInv == ASSUME Inv, Bootstrap PROVE Inv'
<1>1. page = FALSE  BY DEF Bootstrap, Inv, Types, Flags
<1>2. PICK written \in BOOLEAN : ReadAppSettings(written) /\ page' = written
  BY DEF Bootstrap
<1>3. UNCHANGED store  BY DEF Bootstrap
<1>4. /\ state' \in Settings /\ file' \in Settings /\ task' \in BOOLEAN /\ legacy' \in BOOLEAN
      /\ OneAutostart' /\ (written => file' = state')
  BY <1>2, ReadFacts
<1>5. Types'
  BY <1>2, <1>3, <1>4 DEF store, Inv, Types, StoreTypes, MainTypes, Flags
<1>6. Waiting' /\ NoPage' /\ ShownIsCommitted' /\ PendingIsShown'
  BY <1>1, <1>3 DEF store, Inv, Waiting, NoPage, NewStore, ShownIsCommitted, PendingIsShown
<1>7. Kept'
  <2>1. committed'.rev = 0 /\ committed' = Default /\ confirmed' = FALSE /\ reply' = NoReply
        /\ load' = "asked"
    BY <1>1, <1>3 DEF Inv, NoPage, NewStore, store, Default
  <2>2. file'.rev \in Nat  BY <1>4 DEF Settings
  <2> QED  BY <1>2, <1>4, <2>1, <2>2, NoSaves
           DEF Kept, Memory, LoadedIsFile, AnswerIsFile, Unheard, Heard, Agree
<1> QED  BY <1>4, <1>5, <1>6, <1>7 DEF Inv

(* A launch of the program. *)
LEMMA RelaunchKeepsInv == ASSUME Inv, Relaunch PROVE Inv'
<1>1. /\ snapshot' = Default.set /\ committed' = Default /\ load' = "asked" /\ loaded' = Default
      /\ queue' = <<>> /\ reply' = NoReply /\ updates' = 0 /\ confirmed' = FALSE
      /\ page' = FALSE /\ state' = NoSettings /\ UNCHANGED <<file, task, legacy>>
  BY DEF Relaunch
<1>2. StoreTypes'
  BY <1>1, NoSaves, AppSettingsAssumption DEF StoreTypes, Default, Settings
<1>3. MainTypes' /\ Flags'  BY <1>1 DEF Inv, Types, MainTypes, Flags
<1>4. Waiting' /\ NoPage' /\ Kept' /\ ShownIsCommitted' /\ PendingIsShown' /\ OneAutostart'
  BY <1>1 DEF Inv, Waiting, NoPage, NewStore, Kept, Memory, LoadedIsFile, AnswerIsFile, Unheard, Heard,
              ShownIsCommitted, PendingIsShown, OneAutostart
<1> QED  BY <1>2, <1>3, <1>4 DEF Inv, Types

(* appSettings:get *)
LEMMA LoadHandledKeepsInv == ASSUME Inv, LoadHandled PROVE Inv'
<1>1. page /\ load = "asked" /\ UNCHANGED <<snapshot, committed, queue, reply, updates, confirmed, page>>
  BY DEF LoadHandled
<1>2. PICK written \in BOOLEAN :
        /\ ReadAppSettings(written)
        /\ written => load' = "answered" /\ loaded' = state'
        /\ ~written => load' = "failed" /\ loaded' = loaded
  BY DEF LoadHandled
<1>3. /\ state' \in Settings /\ file' \in Settings /\ task' \in BOOLEAN /\ legacy' \in BOOLEAN
      /\ OneAutostart' /\ (written => file' = state') /\ (~written => file' = file)
      /\ Agree(state', file)
  BY <1>1, <1>2, ReadFacts
<1>4. Types'
  BY <1>1, <1>2, <1>3 DEF Inv, Types, StoreTypes, MainTypes, Flags
<1>5. Waiting' /\ NoPage' /\ ShownIsCommitted' /\ PendingIsShown'
  BY <1>1 DEF Inv, Waiting, NoPage, ShownIsCommitted, PendingIsShown
<1>6. Kept'
  BY <1>1, <1>2, <1>3 DEF Inv, Kept, Memory, LoadedIsFile, AnswerIsFile, Unheard, Heard, Agree
<1> QED  BY <1>3, <1>4, <1>5, <1>6 DEF Inv

(* The load answers. *)
LEMMA LoadDeliveredKeepsInv == ASSUME Inv, LoadDelivered PROVE Inv'
<1>1. /\ page /\ load' \in {"taken", "discarded", "refused"}
      /\ UNCHANGED <<file, state, task, legacy, page, loaded, queue, reply, updates, confirmed>>
  BY DEF LoadDelivered, LoadTaken, main
<1>2. \/ UNCHANGED <<committed, snapshot>> /\ load' # "taken" /\ load # "taken"
      \/ /\ load = "answered" /\ updates = 0 /\ load' = "taken"
         /\ committed' = loaded /\ snapshot' = loaded.set
  BY DEF LoadDelivered, LoadTaken
<1>3. Types'
  BY <1>1, <1>2 DEF Inv, Types, StoreTypes, MainTypes, Flags, Settings
<1>4. Waiting' /\ NoPage' /\ OneAutostart'
  BY <1>1 DEF Inv, Waiting, NoPage, OneAutostart
<1>5. PendingIsShown'
  BY <1>1, <1>2 DEF Inv, Waiting, PendingIsShown
<1>6. Kept'
  <2>1. committed'.rev <= file.rev
    BY <1>1, <1>2 DEF Inv, Types, MainTypes, Kept, LoadedIsFile, AnswerIsFile, Unheard, Heard, Agree, Settings
  <2> QED  BY <1>1, <1>2, <2>1, NoSaves
           DEF Inv, Waiting, Kept, Memory, LoadedIsFile, AnswerIsFile, Unheard, Heard, Agree
<1>7. ShownIsCommitted'
  BY <1>1, <1>2 DEF Inv, ShownIsCommitted
<1> QED  BY <1>1, <1>3, <1>4, <1>5, <1>6, <1>7 DEF Inv

(* The user changes settings. *)
LEMMA UpdateKeepsInv == ASSUME Inv, NEW patch \in Patches, Update(patch) PROVE Inv'
<1>1. /\ page /\ updates' = updates + 1 /\ snapshot' = Apply(snapshot, patch)
      /\ queue' = Append(queue, patch)
      /\ UNCHANGED <<file, state, task, legacy, page, committed, load, loaded, reply, confirmed>>
  BY DEF Update, main
<1>2. queue \in Seq(Patches) /\ queue' \in Seq(Patches) /\ queue' # <<>>
  BY <1>1 DEF Inv, Types, StoreTypes
<1>3. snapshot' \in Values  BY <1>1, ApplyTypes DEF Inv, Types, StoreTypes
<1>4. updates' \in Nat /\ updates' # 0  BY <1>1 DEF Inv, Types, StoreTypes
<1>5. Types'
  BY <1>1, <1>2, <1>3, <1>4 DEF Inv, Types, StoreTypes, MainTypes, Flags
<1>6. Waiting' /\ NoPage' /\ ShownIsCommitted' /\ OneAutostart' /\ Kept'
  BY <1>1, <1>2, <1>4 DEF Inv, Waiting, NoPage, ShownIsCommitted, OneAutostart, Kept, Memory,
                          LoadedIsFile, AnswerIsFile, Unheard, Heard
<1>7. PendingIsShown'
  <2> SUFFICES ASSUME NEW i \in 1 .. Len(queue'), NEW f \in DOMAIN queue'[i],
                      \A j \in i + 1 .. Len(queue') : f \notin DOMAIN queue'[j]
               PROVE  snapshot'[f] = queue'[i][f]
    BY DEF PendingIsShown
  <2>1. Len(queue') = Len(queue) + 1 /\ queue'[Len(queue) + 1] = patch
        /\ \A j \in 1 .. Len(queue) : queue'[j] = queue[j]
    BY <1>1, <1>2
  <2>2. f \in Fields
    <3>1. queue'[i] \in Patches  BY <1>2
    <3> QED  BY <3>1 DEF Patches
  <2>3. CASE i = Len(queue) + 1
    BY <1>1, <2>1, <2>2, <2>3 DEF Apply
  <2>4. CASE i \in 1 .. Len(queue)
    <3>1. f \notin DOMAIN patch  BY <1>2, <2>1, <2>4
    <3>2. \A j \in i + 1 .. Len(queue) : f \notin DOMAIN queue[j]  BY <1>2, <2>1, <2>4
    <3>3. snapshot[f] = queue[i][f]  BY <2>1, <2>4, <3>2 DEF Inv, PendingIsShown
    <3> QED  BY <1>1, <2>1, <2>2, <2>4, <3>1, <3>3 DEF Apply
  <2> QED  BY <1>2, <2>1, <2>3, <2>4
<1> QED  BY <1>5, <1>6, <1>7 DEF Inv

(* appSettings:update *)
LEMMA SaveHandledKeepsInv == ASSUME Inv, SaveHandled PROVE Inv'
<1>1. /\ page /\ queue # <<>> /\ reply = NoReply /\ load # "asked"
      /\ WriteAppSettings(Head(queue))
      /\ UNCHANGED <<snapshot, committed, load, loaded, queue, updates, confirmed, page>>
  BY DEF SaveHandled
<1>2. Head(queue) \in Patches  BY <1>1 DEF Inv, Types, StoreTypes
<1>3. state \in Settings /\ file \in Settings /\ Agree(state, file)
  BY <1>1 DEF Inv, Types, MainTypes, Kept, Memory
<1>4. /\ state' \in Settings /\ file' \in Settings /\ task' \in BOOLEAN /\ legacy' \in BOOLEAN
      /\ ~(task' /\ legacy')
      /\ \/ reply' = Refusal /\ Agree(state', file) /\ Agree(file', file)
         \/ reply' = [ok |-> TRUE, saved |-> state'] /\ file' = state'
            /\ state'.rev = file.rev + 1
  <2>1. PICK o \in Reading(state.set[Launch], task, legacy) :
          LET current == Told(state, o.launch) IN
          \/ /\ file' = file /\ state' = current /\ task' = o.task /\ legacy' = o.legacy
             /\ reply' = Refusal
          \/ \E done \in Ordering(Head(queue), o) :
               /\ task' = done.exists /\ legacy' = done.item
               /\ \/ state' = current /\ file' = current /\ reply' = Refusal
                  \/ /\ done.ok
                     /\ \E launch \in Query(done.exists) :
                          state' = Told([set |-> Apply(current.set, Head(queue)),
                                         rev |-> current.rev + 1], launch)
                     /\ file' = state' /\ reply' = [ok |-> TRUE, saved |-> state']
    BY <1>1 DEF WriteAppSettings
  <2>2. o.launch \in BOOLEAN /\ o.task \in BOOLEAN /\ o.legacy \in BOOLEAN
        /\ ~(o.task /\ o.legacy)
    BY ReadingFacts DEF Inv, Types, Flags, OneAutostart
  <2> DEFINE current == Told(state, o.launch)
             Outcome ==
               /\ state' \in Settings /\ file' \in Settings
               /\ task' \in BOOLEAN /\ legacy' \in BOOLEAN /\ ~(task' /\ legacy')
               /\ \/ reply' = Refusal /\ Agree(state', file) /\ Agree(file', file)
                  \/ reply' = [ok |-> TRUE, saved |-> state'] /\ file' = state'
                     /\ state'.rev = file.rev + 1
  <2>3. current \in Settings /\ Agree(current, file)
    BY <1>3, <2>2, ToldTypes DEF Agree
  <2>4. Agree(file, file)  BY DEF Agree
  <2> HIDE DEF current
  <2>5. CASE /\ file' = file /\ state' = current /\ task' = o.task /\ legacy' = o.legacy
             /\ reply' = Refusal
    BY <1>3, <2>2, <2>3, <2>4, <2>5
  <2>6. ASSUME NEW done \in Ordering(Head(queue), o), task' = done.exists, legacy' = done.item,
               state' = current, file' = current, reply' = Refusal
        PROVE  Outcome
    <3>1. done.exists \in BOOLEAN /\ done.item \in BOOLEAN /\ ~(done.exists /\ done.item)
      BY <1>2, <2>2, OrderingFacts
    <3> QED  BY <2>3, <2>6, <3>1
  <2>7. ASSUME NEW done \in Ordering(Head(queue), o), task' = done.exists, legacy' = done.item,
               NEW launch \in Query(done.exists),
               state' = Told([set |-> Apply(current.set, Head(queue)), rev |-> current.rev + 1],
                             launch),
               file' = state', reply' = [ok |-> TRUE, saved |-> state']
        PROVE  Outcome
    <3>1. done.exists \in BOOLEAN /\ done.item \in BOOLEAN /\ ~(done.exists /\ done.item)
      BY <1>2, <2>2, OrderingFacts
    <3>2. launch \in BOOLEAN  BY <3>1 DEF Query
    <3>3. Apply(current.set, Head(queue)) \in Values /\ current.rev \in Nat
      BY <1>2, <2>3, ApplyTypes DEF Settings
    <3> DEFINE next == [set |-> Apply(current.set, Head(queue)), rev |-> current.rev + 1]
    <3>4. next \in Settings /\ next.rev = current.rev + 1  BY <3>3 DEF Settings
    <3> HIDE DEF next
    <3>5. state' = Told(next, launch)  BY <2>7 DEF next
    <3>6. state' \in Settings /\ Agree(state', next)  BY <3>2, <3>4, <3>5, ToldTypes
    <3>7. state'.rev = file.rev + 1  BY <2>3, <3>4, <3>6 DEF Agree
    <3> QED  BY <2>7, <3>1, <3>6, <3>7
  <2>8. ASSUME \E done \in Ordering(Head(queue), o) :
               /\ task' = done.exists /\ legacy' = done.item
               /\ \/ state' = current /\ file' = current /\ reply' = Refusal
                  \/ /\ done.ok
                     /\ \E launch \in Query(done.exists) :
                          state' = Told([set |-> Apply(current.set, Head(queue)),
                                         rev |-> current.rev + 1], launch)
                     /\ file' = state' /\ reply' = [ok |-> TRUE, saved |-> state']
        PROVE  Outcome
    <3>1. PICK done \in Ordering(Head(queue), o) :
               /\ task' = done.exists /\ legacy' = done.item
               /\ \/ state' = current /\ file' = current /\ reply' = Refusal
                  \/ \E launch \in Query(done.exists) :
                       /\ state' = Told([set |-> Apply(current.set, Head(queue)),
                                        rev |-> current.rev + 1], launch)
                       /\ file' = state' /\ reply' = [ok |-> TRUE, saved |-> state']
      BY <2>8
    <3>2. CASE state' = current /\ file' = current /\ reply' = Refusal
      BY <3>1, <3>2, <2>6
    <3>3. CASE \E launch \in Query(done.exists) :
                       /\ state' = Told([set |-> Apply(current.set, Head(queue)),
                                        rev |-> current.rev + 1], launch)
                       /\ file' = state' /\ reply' = [ok |-> TRUE, saved |-> state']
      BY <3>1, <3>3, <2>7
    <3> QED  BY <3>1, <3>2, <3>3
  <2> QED  BY <2>1, <2>5, <2>8, Zenon DEF current
<1>5. file'.rev \in Nat /\ file.rev \in Nat /\ committed.rev \in Nat
      /\ (file'.rev = file.rev \/ file'.rev = file.rev + 1)
  BY <1>3, <1>4 DEF Agree, Settings, Inv, Types, StoreTypes
<1>6. Types'
  <2>1. [ok |-> TRUE, saved |-> state'] \in [ok : {TRUE}, saved : Settings]  BY <1>4
  <2>2. reply' \in Answers  BY <1>4, <2>1, NoSaves DEF Answers
  <2> QED  BY <1>1, <1>4, <2>2 DEF Inv, Types, StoreTypes, MainTypes, Flags
<1>7. Waiting' /\ NoPage' /\ ShownIsCommitted' /\ PendingIsShown' /\ OneAutostart'
  BY <1>1, <1>4 DEF Inv, Waiting, NoPage, ShownIsCommitted, PendingIsShown, OneAutostart
<1>8. Kept'
  <2>1. updates # 0  BY <1>1 DEF Inv, Waiting
  <2>2. CASE reply' = Refusal /\ Agree(state', file) /\ Agree(file', file)
    BY <1>1, <1>4, <1>5, <2>1, <2>2, NoSaves
       DEF Inv, Kept, Memory, LoadedIsFile, AnswerIsFile, Unheard, Heard, Agree
  <2>3. CASE reply' = [ok |-> TRUE, saved |-> state'] /\ file' = state'
             /\ state'.rev = file.rev + 1
    <3>1. "saved" \in DOMAIN reply' /\ reply'.saved = file'  BY <2>3
    <3>2. committed'.rev <= file'.rev
      BY <1>1, <1>5, <2>3 DEF Inv, Kept, AnswerIsFile
    <3>3. Unheard'  BY <1>1 DEF Inv, Kept, Unheard, Heard
    <3> QED  BY <1>1, <1>4, <2>1, <2>3, <3>1, <3>2, <3>3
             DEF Kept, Memory, LoadedIsFile, AnswerIsFile, Agree
  <2> QED  BY <1>4, <2>2, <2>3
<1> QED  BY <1>6, <1>7, <1>8 DEF Inv

(* The answer to a save reaches the page. *)
LEMMA SaveDeliveredKeepsInv == ASSUME Inv, SaveDelivered PROVE Inv'
<1>1. /\ page /\ reply # NoReply /\ queue' = Tail(queue) /\ reply' = NoReply
      /\ UNCHANGED <<file, state, task, legacy, page, load, loaded, updates>>
  BY DEF SaveDelivered, main
<1>2. queue # <<>> /\ queue \in Seq(Patches)  BY <1>1 DEF Inv, Types, StoreTypes, Waiting
<1>3. queue' \in Seq(Patches) /\ (queue' = <<>> <=> Latest)
  <2>1. queue' \in Seq(Patches) /\ Len(queue') = Len(queue) - 1  BY <1>1, <1>2
  <2>2. queue' = <<>> <=> Len(queue') = 0
    <3>1. queue' = <<>> => Len(queue') = 0  OBVIOUS
    <3>2. ASSUME Len(queue') = 0 PROVE queue' = <<>>
      <4>1. queue' \in [1 .. Len(queue') -> Patches]  BY <2>1
      <4>2. 1 .. Len(queue') = {}  BY <3>2
      <4> QED  BY <2>1, <3>2
    <3> QED  BY <3>1, <3>2
  <2>3. Len(queue) \in Nat  BY <1>2
  <2> QED  BY <2>1, <2>2, <2>3 DEF Latest
<1>4. Waiting' /\ NoPage' /\ OneAutostart'
  BY <1>1, <1>2 DEF Inv, Waiting, NoPage, OneAutostart
<1>5. ASSUME snapshot' = snapshot \/ queue' = <<>> PROVE PendingIsShown'
  <2>1. CASE queue' = <<>>  BY <2>1 DEF PendingIsShown
  <2>2. CASE snapshot' = snapshot
    <3> SUFFICES ASSUME NEW i \in 1 .. Len(queue'), NEW f \in DOMAIN queue'[i],
                        \A j \in i + 1 .. Len(queue') : f \notin DOMAIN queue'[j]
                 PROVE  snapshot'[f] = queue'[i][f]
      BY DEF PendingIsShown
    <3>1. Len(queue') = Len(queue) - 1 /\ \A j \in 1 .. Len(queue') : queue'[j] = queue[j + 1]
      BY <1>1, <1>2
    <3>2. i + 1 \in 1 .. Len(queue) /\ queue'[i] = queue[i + 1]  BY <1>2, <1>3, <3>1
    <3>3. ASSUME NEW k \in (i + 1) + 1 .. Len(queue) PROVE f \notin DOMAIN queue[k]
      <4>1. k - 1 \in i + 1 .. Len(queue') /\ queue'[k - 1] = queue[k]  BY <1>2, <1>3, <3>1, <3>3
      <4> QED  BY <4>1
    <3> QED  BY <2>2, <3>2, <3>3 DEF Inv, PendingIsShown
  <2> QED  BY <1>5, <2>1, <2>2
<1>6. CASE "saved" \in DOMAIN reply
  <2>1. reply.saved \in Settings
    <3>1. reply \in [ok : {TRUE}, saved : Settings]
      BY <1>6, NoSaves DEF Inv, Types, StoreTypes, Answers
    <3> QED  BY <3>1
  <2>2. Agree(reply.saved, file) /\ committed.rev <= file.rev
    BY <1>1, <1>6 DEF Inv, Kept, AnswerIsFile
  <2>3. committed' = reply.saved /\ confirmed' = TRUE
        /\ snapshot' = IF Latest THEN reply.saved.set ELSE snapshot
    BY <1>6, <2>2 DEF SaveDelivered, SaveSettled, Agree
  <2>4. Types'
    BY <1>1, <1>3, <2>1, <2>3, NoSaves DEF Inv, Types, StoreTypes, MainTypes, Flags, Settings
  <2>5. Kept'
    <3>1. committed'.rev <= file.rev
      BY <2>2, <2>3 DEF Agree, Inv, Types, MainTypes, StoreTypes, Settings
    <3> QED  BY <1>1, <2>2, <2>3, <3>1, NoSaves
             DEF Inv, Kept, Memory, LoadedIsFile, AnswerIsFile, Unheard, Heard, Agree
  <2>6. ShownIsCommitted'  BY <1>3, <2>3 DEF ShownIsCommitted
  <2>7. PendingIsShown'  BY <1>3, <1>5, <2>3
  <2> QED  BY <1>4, <2>4, <2>5, <2>6, <2>7 DEF Inv
<1>7. CASE "saved" \notin DOMAIN reply
  <2>1. UNCHANGED <<committed, confirmed>>
        /\ snapshot' = IF Latest THEN committed.set ELSE snapshot
    BY <1>7 DEF SaveDelivered, SaveSettled
  <2>2. Types'
    BY <1>1, <1>3, <2>1, NoSaves DEF Inv, Types, StoreTypes, MainTypes, Flags, Settings
  <2>3. Kept'
    BY <1>1, <1>7, <2>1, NoSaves DEF Inv, Kept, Memory, LoadedIsFile, AnswerIsFile, Unheard, Heard
  <2>4. ShownIsCommitted'  BY <1>3, <2>1 DEF ShownIsCommitted
  <2>5. PendingIsShown'  BY <1>3, <1>5, <2>1
  <2> QED  BY <1>4, <2>2, <2>3, <2>4, <2>5 DEF Inv
<1> QED  BY <1>6, <1>7

LEMMA NextKeepsInv == ASSUME Inv, Next PROVE Inv'
BY BootstrapKeepsInv, RelaunchKeepsInv, LoadHandledKeepsInv, LoadDeliveredKeepsInv,
   UpdateKeepsInv, SaveHandledKeepsInv, SaveDeliveredKeepsInv DEF Next

-----------------------------------------------------------------------------
(* The invariant holds in every state. *)
THEOREM Invariance == Spec => []Inv
<1>1. Inv /\ [Next]_vars => Inv'  BY NextKeepsInv, Stutter
<1> QED  BY InitInv, <1>1, PTL DEF Spec

(* A setting just changed stays as the user has put it until its save is over. *)
THEOREM PendingStaysShown == Spec => []PendingIsShown
<1>1. Inv => PendingIsShown  BY DEF Inv
<1> QED  BY Invariance, <1>1, PTL

(* A page at rest shows what the file has - or the defaults, when it has taken neither the answer  *)
(* of its load nor that of a save (initialize, update).                                            *)
THEOREM QuietShowsFile == Spec => []QuietIsStored
<1>1. Inv => QuietIsStored
  <2> SUFFICES ASSUME Inv, page, Settled, queue = <<>>
               PROVE  \/ \A f \in Own : snapshot[f] = file.set[f]
                      \/ load # "taken" /\ ~confirmed /\ snapshot = Default.set
    BY DEF QuietIsStored
  <2>1. snapshot = committed.set  BY DEF Inv, ShownIsCommitted
  <2>2. CASE Heard
    <3>1. "saved" \notin DOMAIN reply  BY NoSaves DEF Inv, Waiting
    <3>2. Agree(committed, file)  BY <2>2, <3>1 DEF Inv, Kept, AnswerIsFile
    <3> QED  BY <2>1, <3>2 DEF Agree
  <2>3. CASE ~Heard
    <3>1. committed = Default  BY <2>3 DEF Inv, Kept, Unheard
    <3> QED  BY <2>1, <2>3, <3>1 DEF Heard
  <2> QED  BY <2>2, <2>3
<1> QED  BY Invariance, <1>1, PTL

(* The task and the old login item are never there together. *)
THEOREM SingleAutostart == Spec => []OneAutostart
<1>1. Inv => OneAutostart  BY DEF Inv
<1> QED  BY Invariance, <1>1, PTL
=============================================================================
