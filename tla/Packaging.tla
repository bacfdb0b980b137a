------------------------------ MODULE Packaging ------------------------------
(***************************************************************************)
(* From the sources to a running backend: the build chain of               *)
(* ui/package.json and its scripts, the checks of a finished package, the  *)
(* installed copy, and the checks of backend-runtime.js before every       *)
(* launch.  The developer may edit the sources while a build runs; on the  *)
(* user's machine the backend writes state, cache and temporary files into *)
(* the tree that is verified, and files are damaged from outside.          *)
(***************************************************************************)
EXTENDS Naturals, FiniteSets

CONSTANTS
  Code,         \* files of server/ and isolator/ that the backend is made of
  MaxEdit,      \* bound: edits of the sources
  MaxBuild,     \* bound: builds
  MaxDamage     \* bound: accidents to the installed copy

ASSUME PackagingAssumption ==
  /\ MaxEdit \in Nat /\ MaxBuild \in Nat /\ MaxDamage \in Nat
  /\ Code \cap {"state", "scratch", "foreign"} = {}

VARIABLES
  source,     \* the sources: a content per name
  edits,      \* edits so far; the next one writes content edits + 1
  stage,      \* where `npm run build` and release-check are
  manifest,   \* ui/backend-manifest.json: a hash per listed name
  python,     \* ui/.runtime/python
  unpacked,   \* dist-packaged/win-unpacked
  setup,      \* the installer: an application, or NoApp
  root,       \* the other files in dist-packaged
  gate,       \* what verify-installed-artifacts said of this build
  pc,         \* the installed application
  launch,     \* the launch of the backend on the user's machine
  env,        \* EII_PYTHON and the override, as the launch under way found them
  builds, damage,       \* bounds used up
  generated   \* history: every manifest generated so far

vars == <<source, edits, stage, manifest, python, unpacked, setup, root, gate, pc, launch, env,
          builds, damage, generated>>
workshop == <<source, edits, stage, manifest, python, unpacked, setup, root, gate, builds, generated>>
machine  == <<pc, launch, env, damage>>

(* "state": the state files of DYNAMIC_BACKEND_STATE_FILES.  "scratch": caches, logs, *.tmp. *)
(* "foreign": a file or link that belongs to nothing.                                        *)
Names    == Code \cup {"state", "scratch", "foreign"}
Absent   == MaxEdit + 1
Damaged  == MaxEdit + 2
Contents == 0..Damaged
Trees    == [Names -> Contents]
NoApp    == [files |-> [n \in Names |-> Absent], manifest |-> [n \in Names |-> Absent],
             python |-> "none", locked |-> FALSE, checked |-> FALSE]
Apps     == [files : Trees, manifest : Trees, python : {"none", "partial", "ready"},
             locked : BOOLEAN, checked : BOOLEAN]

Present(tree)    == {n \in Names : tree[n] # Absent}
Only(tree, keep) == [n \in Names |-> IF n \in keep THEN tree[n] ELSE Absent]

-----------------------------------------------------------------------------
(* What the two sides leave out of the manifest.                           *)

(* shouldIgnore of the generator; it knows nothing of the state files. *)
GeneratorIgnores(n) == n = "scratch"

(* isIgnoredBackendPath of the launch. *)
LaunchIgnores(n) == n \in {"state", "scratch"}

(* The generator hashes every regular file it does not ignore. *)
Generate(tree) == Only(tree, {n \in Names : ~GeneratorIgnores(n)})

(* Faulty variant: a file the manifest does not list is let through. *)
VerifiesListed(app) ==
  /\ app.locked
  /\ \A n \in Present(app.manifest) : app.files[n] = app.manifest[n]

(* Faulty variant: the backend's own state files count as foreign. *)
VerifiesEverything(app) ==
  /\ app.locked
  /\ \A n \in Present(app.manifest) : app.files[n] = app.manifest[n]
  /\ \A n \in Present(app.files) : ~GeneratorIgnores(n) => n \in Present(app.manifest)

(* verifyBackendResourceIntegrity: the tree and the manifest are not writable for standard *)
(* users, every listed file is there with its hash, and nothing else that is not ignored.  *)
Verifies(app) ==
  /\ app.locked
  /\ \A n \in Present(app.manifest) : app.files[n] = app.manifest[n]
  /\ \A n \in Present(app.files) : LaunchIgnores(n) \/ n \in Present(app.manifest)

(* What EII_PYTHON may be: unset, or a path that is relative, outside the trusted roots, not *)
(* a file, writable for standard users, or none of these.                                    *)
Interpreters == {"unset", "relative", "outside", "missing", "writable", "trusted"}
Environments == [python : Interpreters, override : BOOLEAN]
NoEnv == [python |-> "unset", override |-> FALSE]

(* resolvePackagedPythonCommand in a production build: the override only ever refuses. *)
Resolves(e, app) ==
  CASE e.python = "unset"   -> app.python # "none" /\ app.locked
    [] e.python = "trusted" -> ~e.override
    [] OTHER                -> FALSE

-----------------------------------------------------------------------------
Init ==
  /\ source = [n \in Names |-> IF n \in Code \cup {"scratch"} THEN 0 ELSE Absent]
  /\ edits = 0 /\ stage = "idle" /\ python = "none" /\ unpacked = NoApp /\ setup = NoApp
  /\ manifest = Generate(source) /\ generated = {Generate(source)}
  /\ root = {} /\ gate = "none" /\ pc = NoApp /\ launch = "off" /\ builds = 0 /\ damage = 0
  /\ env = NoEnv

(* The developer changes, adds or removes a source file, whatever is running. *)
Edit(n) ==
  /\ edits < MaxEdit /\ edits' = edits + 1
  /\ \E c \in {edits + 1, Absent} : c # source[n] /\ source' = [source EXCEPT ![n] = c]
  /\ UNCHANGED <<stage, manifest, python, unpacked, setup, root, gate, builds, generated, machine>>

Step(from, to) == stage = from /\ stage' = to

(* A step of the && chain fails: the steps after it do not run. *)
Stops(from) == Step(from, "idle")

(* clean-packaged-output without arguments: all of dist-packaged goes. *)
Clean ==
  /\ Step("idle", "cleaned") /\ builds < MaxBuild /\ builds' = builds + 1
  /\ unpacked' = NoApp /\ setup' = NoApp /\ root' = {} /\ gate' = "none"
  /\ UNCHANGED <<source, edits, manifest, python, generated, machine>>

(* vite build, the icons, and generate-backend-manifest over the sources as they are now. *)
Manifest ==
  /\ Step("cleaned", "listed")
  /\ manifest' = Generate(source) /\ generated' = generated \cup {manifest'}
  /\ UNCHANGED <<source, edits, python, unpacked, setup, root, gate, builds, machine>>

(* prepare-python-runtime removes the old runtime first and assembles a new one. *)
PreparePython ==
  /\ \/ Step("listed", "runtime") /\ python' = "ready"
     \/ Stops("listed") /\ python' \in {"none", "partial"}
  /\ UNCHANGED <<source, edits, manifest, unpacked, setup, root, gate, builds, generated, machine>>

(* The application electron-builder assembles from the sources as they are now. *)
Assembled == [files |-> source, manifest |-> manifest, python |-> python, locked |-> FALSE,
              checked |-> FALSE]

(* electron-builder copies the tree, locks backend and python (afterPack), and makes the *)
(* installer, which leaves a block map and a debug file beside it.                       *)
Package ==
  /\ \/ Step("runtime", "packed") /\ setup' = Assembled /\ root' = {"byproducts"}
     \/ Stops("runtime") /\ UNCHANGED <<setup, root>>
  /\ unpacked' = Assembled
  /\ UNCHANGED <<source, edits, manifest, python, gate, builds, generated, machine>>

(* harden-packaged-backend-acl locks all of resources, the bundle with the manifest too. *)
Harden ==
  /\ Step("packed", "built")
  /\ unpacked' = [unpacked EXCEPT !.locked = TRUE]
  /\ UNCHANGED <<source, edits, manifest, python, setup, root, gate, builds, generated, machine>>

(* verify-packaged-runtime: the interpreter works (which leaves byte code behind), then the *)
(* tree is verified as a launch would.                                                      *)
VerifyPackaged ==
  /\ stage = "built"
  /\ IF unpacked.python = "ready" /\ Verifies(unpacked)
     THEN /\ stage' = "verified" /\ setup' = [setup EXCEPT !.checked = TRUE]
          /\ unpacked' = [unpacked EXCEPT !.files["scratch"] = 0]
     ELSE stage' = "idle" /\ UNCHANGED <<unpacked, setup>>
  /\ UNCHANGED <<source, edits, manifest, python, root, gate, builds, generated, machine>>

(* release-check removes the by-products and writes SHA256SUMS.txt. *)
Checksums ==
  /\ Step("verified", "summed") /\ root' = {"sums"}
  /\ UNCHANGED <<source, edits, manifest, python, unpacked, setup, gate, builds, generated, machine>>

(* verifyReleaseArtifacts: the installer, its line in SHA256SUMS.txt, and nothing else. *)
ReleaseArtifactsOk == setup # NoApp /\ root = {"sums"}

(* verify-installed-artifacts of a build.  Past the artifacts it calls verifyPackagedRuntime, *)
(* which verify-packaged-runtime.js does not export: the call throws.  Only the switch that   *)
(* skips the whole check (skip) lets it end well.                                             *)
VerifyInstalled(skip) ==
  /\ stage \in {"built", "verified", "summed"}
  /\ gate' = CASE skip -> "skipped" [] ~skip /\ ~ReleaseArtifactsOk -> "artifacts" [] OTHER -> "threw"
  /\ UNCHANGED <<source, edits, stage, manifest, python, unpacked, setup, root, builds, generated,
                 machine>>

(* release-check takes win-unpacked away and ends; so does a build that is not checked. *)
Finish ==
  /\ stage \in {"built", "summed"} /\ stage' = "idle"
  /\ unpacked' = IF stage = "summed" THEN NoApp ELSE unpacked
  /\ UNCHANGED <<source, edits, manifest, python, setup, root, gate, builds, generated, machine>>

-----------------------------------------------------------------------------
(* The user's machine.                                                     *)

(* The per-machine installer puts the application under Program Files, whose protection it *)
(* inherits; what an earlier copy left there goes.  It may be cut short.                    *)
Install ==
  /\ setup # NoApp /\ pc # setup /\ launch \in {"off", "refused"} /\ launch' = "off" /\ env' = NoEnv
  /\ \E whole \in {Names} \cup (IF damage < MaxDamage THEN {Names \ {n} : n \in Code} ELSE {}) :
       /\ pc' = [setup EXCEPT !.locked = TRUE, !.files = Only(@, whole), !.checked = @ /\ whole = Names]
       /\ damage' = IF whole = Names THEN damage ELSE damage + 1
  /\ UNCHANGED workshop

(* launchBackendProcess of the packaged application, up to the interpreter it chose. *)
Launch(e) ==
  /\ pc # NoApp /\ launch \in {"off", "refused"} /\ env' = e
  /\ launch' = IF Verifies(pc) /\ Resolves(e, pc) THEN "preflight" ELSE "refused"
  /\ UNCHANGED <<pc, damage, workshop>>

(* preflightPythonRuntime: the version and psutil of the interpreter chosen, then the spawn. *)
Preflight ==
  /\ launch = "preflight"
  /\ launch' = IF env.python = "unset" /\ pc.python # "ready" THEN "refused" ELSE "running"
  /\ env' = IF launch' = "running" THEN NoEnv ELSE env
  /\ UNCHANGED <<pc, damage, workshop>>

(* The backend saves its state by way of a temporary file; Python caches byte code. *)
BackendWrites(n) ==
  /\ launch = "running" /\ n \in {"state", "scratch"} /\ pc.files[n] = Absent
  /\ pc' = [pc EXCEPT !.files[n] = 0]
  /\ UNCHANGED <<launch, env, damage, workshop>>

(* The state is put away, or the temporary file becomes the state. *)
BackendRemoves(n) ==
  /\ launch = "running" /\ n \in {"state", "scratch"} /\ pc.files[n] # Absent
  /\ pc' = [pc EXCEPT !.files[n] = Absent]
  /\ UNCHANGED <<launch, env, damage, workshop>>

(* It ends, or crashes at any point. *)
BackendEnds == launch = "running" /\ launch' = "off" /\ UNCHANGED <<pc, env, damage, workshop>>

(* Something outside the program spoils the installed copy, while it runs or not. *)
Accident ==
  /\ pc # NoApp /\ damage < MaxDamage /\ damage' = damage + 1
  /\ \/ \E n \in Code : pc' = [pc EXCEPT !.files[n] = Damaged, !.checked = FALSE]
     \/ \E n \in Code : pc' = [pc EXCEPT !.files[n] = Absent, !.checked = FALSE]
     \/ pc' = [pc EXCEPT !.files["foreign"] = Damaged, !.checked = FALSE]
     \/ pc' = [pc EXCEPT !.locked = FALSE, !.checked = FALSE]
     \/ \E p \in {"none", "partial"} : pc' = [pc EXCEPT !.python = p, !.checked = FALSE]
  /\ UNCHANGED <<launch, env, workshop>>

-----------------------------------------------------------------------------
Building ==
  \/ \E n \in Code : Edit(n)
  \/ Clean \/ Manifest \/ PreparePython \/ Package \/ Harden \/ VerifyPackaged \/ Checksums \/ Finish
  \/ \E skip \in BOOLEAN : VerifyInstalled(skip)

Using ==
  \/ Install \/ Preflight \/ BackendEnds \/ Accident
  \/ \E e \in Environments : Launch(e)
  \/ \E n \in Names : BackendWrites(n) \/ BackendRemoves(n)

Next == Building \/ Using

Spec == Init /\ [][Next]_vars

-----------------------------------------------------------------------------
(* Every variable holds a value of its kind. *)
TypeOK ==
  /\ source \in Trees /\ manifest \in Trees /\ edits \in 0..MaxEdit /\ python \in {"none", "partial", "ready"}
  /\ unpacked \in Apps /\ setup \in Apps /\ pc \in Apps /\ root \subseteq {"sums", "byproducts"}
  /\ stage \in {"idle", "cleaned", "listed", "runtime", "packed", "built", "verified", "summed"}
  /\ gate \in {"none", "skipped", "artifacts", "threw"}
  /\ launch \in {"off", "preflight", "refused", "running"} /\ env \in Environments
  /\ builds \in 0..MaxBuild /\ damage \in 0..MaxDamage /\ generated \subseteq Trees

(* backend-runtime.js:432-545 with verify-packaged-runtime.js: an application whose package *)
(* passed its check, installed whole and not spoiled since, is never refused, whatever      *)
(* state, cache and temporary files its own backend left in the tree, crashes included.     *)
RefusedForCause ==
  launch = "refused" /\ pc.checked => env.python # "unset"

(* generate-backend-manifest.js and backend-runtime.js:500-545: what is started is, file for *)
(* file, a state of the sources that a manifest was made of: never sources edited between     *)
(* the manifest and the package, a half-finished installation, or a spoiled file.             *)
StartsWhatWasListed ==
  [][launch # "preflight" /\ launch' = "preflight"
       => Only(pc'.files, Code \cup {"foreign"}) \in generated]_vars

(* docs/release-candidate-1.1.1.md:47, "verify:installed-artifacts - passed": the check of *)
(* the release artifacts ends well when they are as they should be.                         *)
GateAcceptsRelease == gate # "threw"
=============================================================================
