--------------------------- MODULE Packaging_proofs ---------------------------
(***************************************************************************)
(* Proofs about Packaging, for every set of code files and any number of   *)
(* edits, builds and accidents.                                            *)
(*                                                                         *)
(* A manifest lists code only (Lists), so that the check of a launch says  *)
(* that tree and manifest agree on code and on foreign files               *)
(* (VerifiesMeans).  That a checked application is not refused needs the   *)
(* way of the check: it is made of the unpacked tree, and counts for the   *)
(* installer because both were assembled in one step (Twins).              *)
(***************************************************************************)
EXTENDS Packaging, TLAPS

Lists == {g \in Trees : \A n \in Names \ Code : g[n] = Absent}

(* Tree and manifest agree, but for what a running backend may write. *)
Same(app) == \A n \in Code \cup {"foreign"} : app.files[n] = app.manifest[n]

Real(app) == app.manifest \in generated

Typed ==
  /\ source \in Trees /\ (\A n \in {"state", "foreign"} : source[n] = Absent)
  /\ edits \in 0 .. MaxEdit /\ python \in {"none", "partial", "ready"}
  /\ unpacked \in Apps /\ setup \in Apps /\ pc \in Apps
  /\ env \in Environments

Listed == manifest \in generated /\ generated \subseteq Lists

(* Whatever can be installed or launched has a manifest that was made of sources. *)
AllReal ==
  /\ setup # NoApp \/ stage \in {"packed", "built", "verified", "summed"} => Real(setup)
  /\ pc # NoApp \/ launch \in {"preflight", "running"} => Real(pc)

(* The unpacked tree and the installer are of one assembly until the check is over. *)
Twins ==
  stage \in {"packed", "built"} =>
    /\ unpacked.files = setup.files /\ unpacked.manifest = setup.manifest
    /\ unpacked.python = setup.python

Sound(app) == app.checked => app.python = "ready" /\ Same(app) /\ Real(app)

Checked == Sound(setup) /\ Sound(pc) /\ (pc.checked => pc.locked)

Inv == Typed /\ Listed /\ AllReal /\ Twins /\ Checked /\ RefusedForCause

-----------------------------------------------------------------------------
(* Facts about the operators *)

LEMMA NamesFacts ==
  /\ Code \subseteq Names /\ "state" \in Names /\ "scratch" \in Names /\ "foreign" \in Names
  /\ "state" \notin Code /\ "scratch" \notin Code /\ "foreign" \notin Code
  /\ Absent \in Contents /\ Damaged \in Contents /\ 0 \in Contents /\ 0 # Absent
BY PackagingAssumption DEF Names, Absent, Damaged, Contents

LEMMA OnlyType ==
  ASSUME NEW tree \in Trees, NEW keep
  PROVE  Only(tree, keep) \in Trees
BY NamesFacts DEF Only, Trees

LEMMA NoAppType == NoApp \in Apps /\ ~NoApp.checked
BY NamesFacts DEF NoApp, Apps, Trees

(* The generator lists code only. *)
LEMMA GenerateLists ==
  ASSUME NEW tree \in Trees, \A n \in {"state", "foreign"} : tree[n] = Absent
  PROVE  Generate(tree) \in Lists
<1>1. Generate(tree) \in Trees  BY OnlyType DEF Generate
<1>2. ASSUME NEW n \in Names \ Code PROVE Generate(tree)[n] = Absent
  BY DEF Generate, Only, GeneratorIgnores, Names
<1> QED  BY <1>1, <1>2 DEF Lists

(* What the check of a launch says of an application with such a manifest. *)
LEMMA VerifiesMeans ==
  ASSUME NEW app \in Apps, app.manifest \in Lists
  PROVE  Verifies(app) <=> app.locked /\ Same(app)
<1>1. \A n \in Names : n \in Code \cup {"foreign"} <=> ~LaunchIgnores(n)
  BY NamesFacts DEF LaunchIgnores, Names
<1>2. \A n \in Names \ Code : app.manifest[n] = Absent  BY DEF Lists
<1>3. \A n \in Code \cup {"foreign"} : n \in Names  BY NamesFacts
<1>4. Verifies(app) => app.locked /\ Same(app)
  BY <1>1, <1>3 DEF Verifies, Same, Present
<1>5. app.locked /\ Same(app) => Verifies(app)
  BY <1>1, <1>2 DEF Verifies, Same, Present
<1> QED  BY <1>4, <1>5

(* Then the tree is, state and scratch aside, what was listed. *)
LEMMA SameIsListed ==
  ASSUME NEW app \in Apps, app.manifest \in Lists, Same(app)
  PROVE  Only(app.files, Code \cup {"foreign"}) = app.manifest
<1>1. app.manifest \in Trees  BY DEF Lists
<1>2. \A n \in Names : Only(app.files, Code \cup {"foreign"})[n] = app.manifest[n]
  BY DEF Only, Same, Lists
<1>3. Only(app.files, Code \cup {"foreign"}) = [n \in Names |-> app.manifest[n]]
  BY <1>2 DEF Only
<1> QED  BY <1>1, <1>3 DEF Trees

-----------------------------------------------------------------------------
(* The steps *)

LEMMA InitInv == Init => Inv
<1> SUFFICES ASSUME Init PROVE Inv  OBVIOUS
<1>1. source \in Trees /\ (\A n \in {"state", "foreign"} : source[n] = Absent)
  BY NamesFacts DEF Init, Trees
<1>2. Typed
  BY <1>1, NoAppType, PackagingAssumption DEF Init, Typed, NoEnv, Environments, Interpreters
<1>3. Listed  BY <1>1, GenerateLists DEF Init, Listed
<1>4. AllReal /\ Twins  BY DEF Init, AllReal, Twins
<1>5. Checked /\ RefusedForCause  BY NoAppType DEF Init, Checked, Sound, RefusedForCause
<1> QED  BY <1>2, <1>3, <1>4, <1>5 DEF Inv

(* A step that leaves the applications and manifests alone. *)
LEMMA QuietStep ==
  ASSUME Inv, UNCHANGED <<manifest, unpacked, setup, pc, launch, env, generated>>,
         source' \in Trees, \A n \in {"state", "foreign"} : source'[n] = Absent,
         edits' \in 0 .. MaxEdit, python' \in {"none", "partial", "ready"},
         stage' = stage \/ stage' \in {"idle", "listed", "runtime", "summed"},
         stage' = "summed" => stage \in {"verified", "summed"}
  PROVE  Inv'
<1>1. Typed'  BY DEF Inv, Typed
<1>2. Listed' /\ Checked' /\ RefusedForCause'
  BY DEF Inv, Listed, Checked, Sound, Same, Real, RefusedForCause
<1>3. AllReal' /\ Twins'  BY DEF Inv, AllReal, Twins, Real
<1> QED  BY <1>1, <1>2, <1>3 DEF Inv

LEMMA EditKeepsInv == ASSUME Inv, NEW n \in Code, Edit(n) PROVE Inv'
<1>1. PICK c \in {edits + 1, Absent} : source' = [source EXCEPT ![n] = c]  BY DEF Edit
<1>2. edits' \in 0 .. MaxEdit /\ c \in Contents
  BY PackagingAssumption DEF Edit, Inv, Typed, Contents, Damaged, Absent
<1>3. source' \in Trees  BY <1>1, <1>2 DEF Inv, Typed, Trees
<1>4. \A m \in {"state", "foreign"} : source'[m] = Absent
  BY <1>1, NamesFacts DEF Inv, Typed, Trees
<1> QED  BY <1>2, <1>3, <1>4, QuietStep DEF Edit, machine, Inv, Typed

LEMMA CleanKeepsInv == ASSUME Inv, Clean PROVE Inv'
<1>1. /\ unpacked' = NoApp /\ setup' = NoApp /\ stage' = "cleaned"
      /\ UNCHANGED <<source, edits, manifest, python, generated, pc, launch, env>>
  BY DEF Clean, Step, machine
<1>2. Typed'  BY <1>1, NoAppType DEF Inv, Typed
<1>3. Listed' /\ RefusedForCause'  BY <1>1 DEF Inv, Listed, RefusedForCause
<1>4. AllReal' /\ Twins'  BY <1>1 DEF Inv, AllReal, Twins, Real
<1>5. Checked'  BY <1>1, NoAppType DEF Inv, Checked, Sound, Same, Real
<1> QED  BY <1>2, <1>3, <1>4, <1>5 DEF Inv

LEMMA ManifestKeepsInv == ASSUME Inv, Manifest PROVE Inv'
<1>1. /\ manifest' = Generate(source) /\ generated' = generated \cup {manifest'}
      /\ stage' = "listed"
      /\ UNCHANGED <<source, edits, python, unpacked, setup, pc, launch, env>>
  BY DEF Manifest, Step, machine
<1>2. Typed'  BY <1>1 DEF Inv, Typed
<1>3. Listed'  BY <1>1, GenerateLists DEF Inv, Typed, Listed
<1>4. AllReal' /\ Twins' /\ RefusedForCause'
  BY <1>1 DEF Inv, AllReal, Twins, Real, RefusedForCause
<1>5. Checked'  BY <1>1 DEF Inv, Checked, Sound, Same, Real
<1> QED  BY <1>2, <1>3, <1>4, <1>5 DEF Inv

LEMMA PreparePythonKeepsInv == ASSUME Inv, PreparePython PROVE Inv'
<1>1. UNCHANGED <<source, edits, manifest, unpacked, setup, generated, pc, launch, env>>
  BY DEF PreparePython, machine
<1>2. python' \in {"none", "partial", "ready"} /\ stage' \in {"runtime", "idle"}
  BY DEF PreparePython, Step, Stops
<1> QED  BY <1>1, <1>2, QuietStep DEF Inv, Typed

LEMMA PackageKeepsInv == ASSUME Inv, Package PROVE Inv'
<1>1. /\ unpacked' = Assembled
      /\ UNCHANGED <<source, edits, manifest, python, generated, pc, launch, env>>
  BY DEF Package, machine
<1>2. /\ Assembled \in Apps /\ ~Assembled.checked /\ Assembled.manifest = manifest
  BY DEF Assembled, Apps, Inv, Typed, Listed, Lists
<1>3. \/ stage' = "packed" /\ setup' = Assembled
      \/ stage' = "idle" /\ setup' = setup
  BY DEF Package, Step, Stops
<1>4. Typed'  BY <1>1, <1>2, <1>3 DEF Inv, Typed
<1>5. Listed' /\ RefusedForCause'  BY <1>1 DEF Inv, Listed, RefusedForCause
<1>6. AllReal'
  <2>1. CASE stage' = "packed" /\ setup' = Assembled
    BY <1>1, <1>2, <2>1 DEF Inv, AllReal, Real, Listed
  <2>2. CASE stage' = "idle" /\ setup' = setup
    BY <1>1, <2>2 DEF Inv, AllReal, Real
  <2> QED  BY <1>3, <2>1, <2>2
<1>7. Twins'  BY <1>1, <1>3 DEF Twins
<1>8. Checked'  BY <1>1, <1>2, <1>3 DEF Inv, Checked, Sound, Same, Real
<1> QED  BY <1>4, <1>5, <1>6, <1>7, <1>8 DEF Inv

LEMMA HardenKeepsInv == ASSUME Inv, Harden PROVE Inv'
<1>1. /\ unpacked' = [unpacked EXCEPT !.locked = TRUE] /\ stage = "packed" /\ stage' = "built"
      /\ UNCHANGED <<source, edits, manifest, python, setup, generated, pc, launch, env>>
  BY DEF Harden, Step, machine
<1>2. /\ unpacked' \in Apps /\ unpacked'.files = unpacked.files
      /\ unpacked'.manifest = unpacked.manifest /\ unpacked'.python = unpacked.python
  BY <1>1 DEF Inv, Typed, Apps
<1>3. Typed'  BY <1>1, <1>2 DEF Inv, Typed
<1>4. Listed' /\ RefusedForCause' /\ AllReal'
  BY <1>1 DEF Inv, Listed, RefusedForCause, AllReal, Real
<1>5. Twins'  BY <1>1, <1>2 DEF Inv, Twins
<1>6. Checked'  BY <1>1 DEF Inv, Checked, Sound, Same, Real
<1> QED  BY <1>3, <1>4, <1>5, <1>6 DEF Inv

LEMMA VerifyPackagedKeepsInv == ASSUME Inv, VerifyPackaged PROVE Inv'
<1>1. /\ stage = "built"
      /\ UNCHANGED <<source, edits, manifest, python, generated, pc, launch, env>>
  BY DEF VerifyPackaged, machine
<1>2. CASE stage' = "idle" /\ UNCHANGED <<unpacked, setup>>
  BY <1>1, <1>2, QuietStep DEF Inv, Typed
<1>3. CASE /\ unpacked.python = "ready" /\ Verifies(unpacked) /\ stage' = "verified"
           /\ setup' = [setup EXCEPT !.checked = TRUE]
           /\ unpacked' = [unpacked EXCEPT !.files["scratch"] = 0]
  <2>1. unpacked \in Apps /\ setup \in Apps  BY DEF Inv, Typed
  <2>2. /\ setup' \in Apps /\ setup'.files = setup.files /\ setup'.manifest = setup.manifest
        /\ setup'.python = setup.python
    BY <1>3, <2>1 DEF Apps
  <2>3. unpacked' \in Apps  BY <1>3, <2>1, NamesFacts DEF Apps, Trees
  <2>4. Real(setup) /\ setup.manifest \in Lists  BY <1>1 DEF Inv, AllReal, Listed, Real
  <2>5. /\ unpacked.files = setup.files /\ unpacked.manifest = setup.manifest
        /\ unpacked.python = setup.python
    BY <1>1 DEF Inv, Twins
  <2>6. Same(unpacked)  BY <1>3, <2>1, <2>4, <2>5, VerifiesMeans
  <2>7. Typed'  BY <1>1, <2>2, <2>3 DEF Inv, Typed
  <2>8. Listed' /\ RefusedForCause'  BY <1>1 DEF Inv, Listed, RefusedForCause
  <2>9. AllReal' /\ Twins'  BY <1>1, <1>3, <2>2, <2>4 DEF Inv, AllReal, Real, Twins
  <2>10. Checked'
    BY <1>1, <1>3, <2>2, <2>4, <2>5, <2>6 DEF Inv, Checked, Sound, Same, Real
  <2> QED  BY <2>7, <2>8, <2>9, <2>10 DEF Inv
<1> QED  BY <1>2, <1>3 DEF VerifyPackaged

LEMMA ChecksumsKeepsInv == ASSUME Inv, Checksums PROVE Inv'
BY QuietStep DEF Checksums, Step, machine, Inv, Typed

LEMMA FinishKeepsInv == ASSUME Inv, Finish PROVE Inv'
<1>1. /\ stage' = "idle" /\ unpacked' \in {unpacked, NoApp}
      /\ UNCHANGED <<source, edits, manifest, python, setup, generated, pc, launch, env>>
  BY DEF Finish, machine
<1>2. Typed'  BY <1>1, NoAppType DEF Inv, Typed
<1>3. Listed' /\ RefusedForCause' /\ AllReal' /\ Twins'
  BY <1>1 DEF Inv, Listed, RefusedForCause, AllReal, Real, Twins
<1>4. Checked'  BY <1>1 DEF Inv, Checked, Sound, Same, Real
<1> QED  BY <1>2, <1>3, <1>4 DEF Inv

LEMMA VerifyInstalledKeepsInv == ASSUME Inv, NEW skip \in BOOLEAN, VerifyInstalled(skip) PROVE Inv'
<1>1. UNCHANGED <<source, edits, stage, manifest, python, unpacked, setup, generated, pc, launch, env>>
  BY DEF VerifyInstalled, machine
<1> QED
  BY <1>1 DEF Inv, Typed, Listed, AllReal, Twins, Checked, Sound, Same, Real, RefusedForCause

-----------------------------------------------------------------------------
(* A step of the user's machine: the copy becomes another one that is real and sound. *)
LEMMA MachineStep ==
  ASSUME Inv, UNCHANGED workshop, pc' \in Apps, env' \in Environments,
         Real(pc)',
         pc'.checked => pc'.python = "ready" /\ Same(pc') /\ pc'.locked,
         launch' = "refused" /\ pc'.checked => env'.python # "unset"
  PROVE  Inv'
<1>1. UNCHANGED <<source, edits, stage, manifest, python, unpacked, setup, generated>>
  BY DEF workshop
<1>2. Typed'  BY <1>1 DEF Inv, Typed
<1>3. Listed' /\ Twins' /\ AllReal'  BY <1>1 DEF Inv, Listed, Twins, AllReal, Real
<1>4. Checked'  BY <1>1 DEF Inv, Checked, Sound, Same, Real
<1>5. RefusedForCause'  BY DEF RefusedForCause
<1> QED  BY <1>2, <1>3, <1>4, <1>5 DEF Inv

LEMMA InstallKeepsInv == ASSUME Inv, Install PROVE Inv'
<1>1. PICK whole :
        pc' = [setup EXCEPT !.locked = TRUE, !.files = Only(@, whole), !.checked = @ /\ whole = Names]
  BY DEF Install
<1>2. /\ setup \in Apps /\ setup.files \in Trees /\ setup.checked \in BOOLEAN
      /\ setup # NoApp /\ launch' = "off" /\ env' = NoEnv /\ UNCHANGED workshop
  BY DEF Install, Inv, Typed, Apps
<1>3. Only(setup.files, whole) \in Trees  BY <1>2, OnlyType
<1>4. /\ pc' \in Apps /\ pc'.locked /\ pc'.manifest = setup.manifest /\ pc'.python = setup.python
      /\ pc'.files = Only(setup.files, whole)
      /\ (pc'.checked <=> setup.checked /\ whole = Names)
  BY <1>1, <1>2, <1>3 DEF Apps
<1>5. Real(pc)'
  <2>1. generated' = generated /\ setup.manifest \in generated
    BY <1>2 DEF workshop, Inv, AllReal, Real
  <2> QED  BY <1>4, <2>1 DEF Real
<1>6. ASSUME pc'.checked PROVE pc'.python = "ready" /\ Same(pc') /\ pc'.locked
  <2>1. setup.python = "ready" /\ Same(setup)  BY <1>4, <1>6 DEF Inv, Checked, Sound
  <2>2. Only(setup.files, whole) = setup.files  BY <1>2, <1>4, <1>6 DEF Only, Trees
  <2> QED  BY <1>4, <2>1, <2>2 DEF Same
<1> QED
  BY <1>2, <1>4, <1>5, <1>6, MachineStep DEF NoEnv, Environments, Interpreters

LEMMA LaunchKeepsInv == ASSUME Inv, NEW e \in Environments, Launch(e) PROVE Inv'
<1>1. /\ pc # NoApp /\ env' = e /\ pc' = pc /\ UNCHANGED workshop /\ pc \in Apps
      /\ launch' = IF Verifies(pc) /\ Resolves(e, pc) THEN "preflight" ELSE "refused"
  BY DEF Launch, Inv, Typed
<1>2. Real(pc) /\ pc.manifest \in Lists  BY <1>1 DEF Inv, AllReal, Real, Listed
<1>3. Real(pc)'  BY <1>1, <1>2 DEF Real, workshop
<1>4. pc.checked => pc.python = "ready" /\ Same(pc) /\ pc.locked  BY DEF Inv, Checked, Sound
<1>5. ASSUME launch' = "refused", pc.checked PROVE e.python # "unset"
  <2>1. Verifies(pc)  BY <1>1, <1>2, <1>4, <1>5, VerifiesMeans
  <2>2. ~Resolves(e, pc)  BY <1>1, <1>5, <2>1
  <2> QED  BY <1>4, <1>5, <2>2 DEF Resolves
<1> QED  BY <1>1, <1>3, <1>4, <1>5, MachineStep DEF Same

LEMMA PreflightKeepsInv == ASSUME Inv, Preflight PROVE Inv'
<1>1. /\ launch = "preflight" /\ pc' = pc /\ UNCHANGED workshop /\ pc \in Apps
      /\ launch' = IF env.python = "unset" /\ pc.python # "ready" THEN "refused" ELSE "running"
      /\ env' \in Environments
  BY DEF Preflight, Inv, Typed, NoEnv, Environments, Interpreters
<1>2. Real(pc)'  BY <1>1 DEF Inv, AllReal, Real, workshop
<1>3. pc.checked => pc.python = "ready" /\ Same(pc) /\ pc.locked  BY DEF Inv, Checked, Sound
<1>4. ~(launch' = "refused" /\ pc'.checked)  BY <1>1, <1>3
<1> QED  BY <1>1, <1>2, <1>3, <1>4, MachineStep DEF Same

(* The backend writes or removes what the check of a launch does not look at. *)
LEMMA BackendFileKeepsInv ==
  ASSUME Inv, NEW n \in {"state", "scratch"}, NEW c \in Contents, launch = "running",
         pc' = [pc EXCEPT !.files[n] = c], UNCHANGED <<launch, env, workshop>>
  PROVE  Inv'
<1>1. pc \in Apps /\ pc.files \in Trees /\ env \in Environments  BY DEF Inv, Typed, Apps
<1>2. /\ pc' \in Apps /\ pc'.manifest = pc.manifest /\ pc'.python = pc.python
      /\ pc'.locked = pc.locked /\ pc'.checked = pc.checked
      /\ pc'.files = [pc.files EXCEPT ![n] = c]
  BY <1>1 DEF Apps, Trees
<1>3. \A m \in Code \cup {"foreign"} : pc'.files[m] = pc.files[m]
  BY <1>1, <1>2, NamesFacts DEF Trees
<1>4. Real(pc)'  BY <1>2 DEF Inv, AllReal, Real, workshop
<1>5. pc'.checked => pc'.python = "ready" /\ Same(pc') /\ pc'.locked
  BY <1>2, <1>3 DEF Inv, Checked, Sound, Same
<1> QED  BY <1>1, <1>2, <1>4, <1>5, MachineStep

LEMMA WritesKeepsInv ==
  ASSUME Inv, NEW n \in Names, BackendWrites(n) \/ BackendRemoves(n)
  PROVE  Inv'
BY BackendFileKeepsInv, NamesFacts DEF BackendWrites, BackendRemoves

LEMMA BackendEndsKeepsInv == ASSUME Inv, BackendEnds PROVE Inv'
<1>1. /\ launch = "running" /\ launch' = "off" /\ pc' = pc /\ env' = env /\ UNCHANGED workshop
      /\ pc \in Apps /\ env \in Environments
  BY DEF BackendEnds, Inv, Typed
<1>2. Real(pc)'  BY <1>1 DEF Inv, AllReal, Real, workshop
<1>3. pc.checked => pc.python = "ready" /\ Same(pc) /\ pc.locked  BY DEF Inv, Checked, Sound
<1> QED  BY <1>1, <1>2, <1>3, MachineStep DEF Same

LEMMA AccidentKeepsInv == ASSUME Inv, Accident PROVE Inv'
<1>1. /\ pc # NoApp /\ env' = env /\ UNCHANGED workshop
      /\ pc \in Apps /\ pc.files \in Trees /\ env \in Environments
  BY DEF Accident, Inv, Typed, Apps
<1>2. pc' \in Apps /\ pc'.manifest = pc.manifest /\ ~pc'.checked
  <2>1. ASSUME NEW n \in Code, NEW c \in {Damaged, Absent},
               pc' = [pc EXCEPT !.files[n] = c, !.checked = FALSE]
        PROVE  pc' \in Apps /\ pc'.manifest = pc.manifest /\ ~pc'.checked
    <3>1. n \in Names /\ c \in Contents  BY NamesFacts
    <3>2. [pc.files EXCEPT ![n] = c] \in Trees  BY <1>1, <3>1 DEF Trees
    <3>3. pc' = [pc EXCEPT !.files = [pc.files EXCEPT ![n] = c], !.checked = FALSE]
      BY <1>1, <2>1 DEF Apps
    <3> QED  BY <1>1, <3>2, <3>3 DEF Apps
  <2>2. CASE pc' = [pc EXCEPT !.files["foreign"] = Damaged, !.checked = FALSE]
    BY <1>1, <2>2, NamesFacts DEF Apps, Trees
  <2>3. CASE pc' = [pc EXCEPT !.locked = FALSE, !.checked = FALSE]
    BY <1>1, <2>3 DEF Apps
  <2>4. CASE \E p \in {"none", "partial"} : pc' = [pc EXCEPT !.python = p, !.checked = FALSE]
    BY <1>1, <2>4 DEF Apps
  <2> QED  BY <2>1, <2>2, <2>3, <2>4 DEF Accident
<1>3. Real(pc)'  BY <1>1, <1>2 DEF Inv, AllReal, Real, workshop
<1> QED  BY <1>1, <1>2, <1>3, MachineStep

LEMMA Stutter == ASSUME Inv, UNCHANGED vars PROVE Inv'
BY DEF vars, Inv, Typed, Listed, AllReal, Twins, Checked, Sound, Same, Real, RefusedForCause

LEMMA NextKeepsInv == ASSUME Inv, [Next]_vars PROVE Inv'
<1>1. CASE Building
  BY <1>1, EditKeepsInv, CleanKeepsInv, ManifestKeepsInv, PreparePythonKeepsInv, PackageKeepsInv,
     HardenKeepsInv, VerifyPackagedKeepsInv, ChecksumsKeepsInv, FinishKeepsInv,
     VerifyInstalledKeepsInv DEF Building
<1>2. CASE Using
  BY <1>2, InstallKeepsInv, PreflightKeepsInv, BackendEndsKeepsInv, AccidentKeepsInv,
     LaunchKeepsInv, WritesKeepsInv DEF Using
<1> QED  BY <1>1, <1>2, Stutter DEF Next

-----------------------------------------------------------------------------
(* The invariant holds in every state. *)
THEOREM Invariance == Spec => []Inv
BY InitInv, NextKeepsInv, PTL DEF Spec

(* A checked application, installed whole and not spoiled, is not refused. *)
THEOREM NeverRefusedWithoutCause == Spec => []RefusedForCause
<1>1. Inv => RefusedForCause  BY DEF Inv
<1> QED  BY Invariance, <1>1, PTL

(* What a launch lets start is, file for file, a state of the sources that was listed. *)
THEOREM StartsListedOnly == Spec => StartsWhatWasListed
<1>1. ASSUME Inv, [Next]_vars, launch # "preflight", launch' = "preflight"
      PROVE  Only(pc'.files, Code \cup {"foreign"}) \in generated'
  <2>1. PICK e \in Environments : Launch(e)
    BY <1>1 DEF Next, Using, Building, Edit, Clean, Manifest, PreparePython, Package, Harden,
                VerifyPackaged, Checksums, Finish, VerifyInstalled, Install, Preflight, BackendEnds,
                Accident, BackendWrites, BackendRemoves, vars, machine
  <2>2. pc # NoApp /\ pc' = pc /\ generated' = generated /\ Verifies(pc)
    BY <1>1, <2>1 DEF Launch, workshop
  <2>3. pc \in Apps /\ pc.manifest \in generated /\ pc.manifest \in Lists
    BY <1>1, <2>2 DEF Inv, Typed, AllReal, Real, Listed
  <2>4. Same(pc)  BY <2>2, <2>3, VerifiesMeans
  <2> QED  BY <2>2, <2>3, <2>4, SameIsListed
<1>2. Inv /\ [Next]_vars =>
        [launch # "preflight" /\ launch' = "preflight"
           => Only(pc'.files, Code \cup {"foreign"}) \in generated]_vars
  <2> SUFFICES ASSUME Inv, [Next]_vars, launch # "preflight", launch' = "preflight"
               PROVE  Only(pc'.files, Code \cup {"foreign"}) \in generated
    OBVIOUS
  <2>1. generated' = generated
    BY DEF Next, Using, Building, Edit, Clean, Manifest, PreparePython, Package, Harden,
           VerifyPackaged, Checksums, Finish, VerifyInstalled, Install, Preflight, BackendEnds,
           Accident, BackendWrites, BackendRemoves, Launch, vars, machine, workshop
  <2> QED  BY <1>1, <2>1
<1> QED  BY Invariance, <1>2, PTL DEF Spec, StartsWhatWasListed
=============================================================================
