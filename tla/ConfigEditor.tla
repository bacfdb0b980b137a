---------------------------- MODULE ConfigEditor ----------------------------
(***************************************************************************)
(* The two editors of config.json, the settings page and the first-run     *)
(* wizard that lies over every page, with the backend's config store, in   *)
(* which each update has a thread of its own and no lock: it writes        *)
(* config.json.tmp and replaces config.json by it.                         *)
(*                                                                         *)
(* A configuration has a part that a preset decides and the rest.  An      *)
(* update has a time limit in the main process, and its page may be left:  *)
(* nobody waits for it then, and it goes on.                               *)
(*                                                                         *)
(* Whether the wizard is open is an application setting                    *)
(* (firstRunCompleted), which AppSettingsStore shows before it is saved,   *)
(* and takes back when the save fails: the wizard closes and opens under   *)
(* the hands of the user, with whatever it waits for.  The store (see      *)
(* AppSettings) has been loaded, which the wizard waits for (ready); here  *)
(* it is followed in that one setting only.                                *)
(***************************************************************************)
EXTENDS Naturals, FiniteSets, Sequences

CONSTANTS
  Presets,       \* the session profiles
  Rests,         \* what the other fields can be
  NoConfig,
  Updates,       \* threads of the backend that run an update
  MaxAbandoned,  \* bound: updates nobody waits for any more; none is asked after the last of them
  MaxSaves       \* bound: application settings on their way to the main process

VARIABLES
  file,       \* config.json: a configuration, or Torn
  tmp,        \* config.json.tmp: NoConfig, Empty, a configuration, or Torn
  update,     \* per thread: pc, what it writes, who waits for it, who has asked for it
  editor,     \* the settings page: pc "off", "loading", "ready", "saving", and the draft
  wizard,     \* step, preset, review, applied, busy; open: firstRunCompleted is shown as false
  saves,      \* the updates of the application settings that have not settled: "completed", "reset"
              \* or, of other settings, "other"
  kept,       \* open, by what main has confirmed
  by,         \* history: who asked for the last update of the file
  abandoned,  \* history: how many updates nobody waits for any more
  undone      \* history: a save that failed has opened or closed the wizard

firstRun == <<saves, kept, undone>>
config == <<file, tmp, update, editor, wizard, firstRun, by, abandoned>>

Configs == [preset : Presets, rest : Rests]
Torn == [preset |-> "torn", rest |-> "torn"]
Empty == [preset |-> "empty", rest |-> "empty"]
Invalid == [preset |-> "invalid", rest |-> "invalid"]
\* The words for what is no configuration are not names of presets.
ASSUME ConfigAssumption ==
  /\ Presets # {} /\ Rests # {}
  /\ {"torn", "empty", "invalid"} \cap Presets = {}
  /\ NoConfig \notin Configs \cup {Torn, Empty, Invalid}
  /\ MaxAbandoned \in Nat /\ MaxSaves \in Nat

Default == CHOOSE c \in Configs : TRUE

Idle == [pc |-> "idle", new |-> NoConfig, for |-> "nobody", from |-> "nobody"]
Off == [pc |-> "off", draft |-> NoConfig]

EditorInit ==
  /\ file = Default /\ tmp = NoConfig
  /\ update = [u \in Updates |-> Idle]
  /\ editor = Off
  /\ \E first \in Presets, open \in BOOLEAN :
       wizard = [open |-> open, step |-> 1, preset |-> first, review |-> NoConfig,
                 applied |-> FALSE, busy |-> "no"]
  /\ saves = <<>> /\ kept = wizard.open /\ undone = FALSE
  /\ by = "nobody" /\ abandoned = 0

-----------------------------------------------------------------------------
(* The config store *)

\* A page sends an update.
Ask(who, new) ==
  \E u \in Updates :
    /\ update[u] = Idle /\ (abandoned > 0 => abandoned < MaxAbandoned)
    /\ update' = [update EXCEPT ![u] = [pc |-> "sent", new |-> new, for |-> who, from |-> who]]

At(u, pc) == update[u].pc = pc
Goes(u, pc) == update' = [update EXCEPT ![u] = [@ EXCEPT !.pc = pc]]

\* An open file can be neither replaced nor removed.
OpenElsewhere(u) == \E v \in Updates \ {u} : At(v, "opened")

Removed(u) == IF OpenElsewhere(u) THEN tmp ELSE NoConfig

\* read_raw and validate: a file that cannot be parsed refuses every update, like invalid fields
Refuses(u) ==
  /\ At(u, "sent") /\ Goes(u, "refused")
  /\ UNCHANGED <<file, tmp, editor, wizard, firstRun, by, abandoned>>

\* open(tmp, "w") leaves an empty file, whoever is writing it
Opens(u) ==
  /\ At(u, "sent") /\ file # Torn
  /\ Goes(u, "opened") /\ tmp' = Empty
  /\ UNCHANGED <<file, editor, wizard, firstRun, by, abandoned>>

\* The text covers what another thread has written since, or only its beginning.
Writes(u) ==
  /\ At(u, "opened") /\ Goes(u, "written")
  /\ tmp' \in {update[u].new} \cup (IF tmp = Empty THEN {} ELSE {Torn})
  /\ UNCHANGED <<file, editor, wizard, firstRun, by, abandoned>>

WriteFails(u) ==
  /\ At(u, "opened") /\ Goes(u, "refused") /\ tmp' = Removed(u)
  /\ UNCHANGED <<file, editor, wizard, firstRun, by, abandoned>>

Replaces(u) ==
  /\ At(u, "written")
  /\ IF tmp # NoConfig /\ ~OpenElsewhere(u)
       THEN file' = tmp /\ tmp' = NoConfig /\ by' = update[u].from /\ Goes(u, "saved")
       ELSE tmp' = Removed(u) /\ Goes(u, "refused") /\ UNCHANGED <<file, by>>
  /\ UNCHANGED <<editor, wizard, firstRun, abandoned>>

-----------------------------------------------------------------------------
(* The application settings *)

\* updateSettings: shown at once, saved after the updates before it
UpdateSettings(what) ==
  Len(saves) < MaxSaves /\ saves' = Append(saves, what) /\ UNCHANGED <<kept, undone>>

\* Language, intervals, what toasts to show: they carry firstRunCompleted along as it is shown.
OtherSettings ==
  /\ UpdateSettings("other")
  /\ UNCHANGED <<file, tmp, update, editor, wizard, by, abandoned>>

\* A save settles: the latest one shows its outcome; whoever waits for the completion has it.
\* The component stays mounted, and all its state with it.
SettingsSettled ==
  /\ saves # <<>> /\ saves' = Tail(saves)
  /\ \/ kept' = IF Head(saves) = "other" THEN kept ELSE Head(saves) = "reset"
     \/ UNCHANGED kept
  /\ LET open == IF Tail(saves) = <<>> THEN kept' ELSE wizard.open IN
     /\ wizard' = [wizard EXCEPT !.open = open,
                      !.busy = IF Head(saves) = "completed" THEN "no" ELSE wizard.busy]
     /\ undone' = (undone \/ open # wizard.open)
  /\ UNCHANGED <<file, tmp, update, editor, by, abandoned>>

-----------------------------------------------------------------------------
(* The settings page; the wizard lies over it *)

OpenSettings == editor' = [pc |-> "loading", draft |-> NoConfig]

\* loadConfig
Loads ==
  /\ editor.pc = "loading"
  /\ \/ file # Torn /\ editor' = [pc |-> "ready", draft |-> file]
     \/ editor' = [editor EXCEPT !.pc = "ready"]
  /\ UNCHANGED <<file, tmp, update, wizard, firstRun, by, abandoned>>

Reload ==
  /\ ~wizard.open /\ editor.pc = "ready" /\ editor' = [editor EXCEPT !.pc = "loading"]
  /\ UNCHANGED <<file, tmp, update, wizard, firstRun, by, abandoned>>

\* updateDraftField, the profiles, applyPresetToDraft: also while the draft is being saved
Edit ==
  /\ ~wizard.open /\ editor.pc \in {"ready", "saving"} /\ editor.draft # NoConfig
  /\ \E draft \in Configs \cup {Invalid} : editor' = [editor EXCEPT !.draft = draft]
  /\ UNCHANGED <<file, tmp, update, wizard, firstRun, by, abandoned>>

\* resetToDefaults: the draft, and all application settings, firstRunCompleted with them
Reset ==
  /\ ~wizard.open /\ editor.pc = "ready" /\ editor.draft # NoConfig
  /\ editor' = [editor EXCEPT !.draft = Default]
  /\ UpdateSettings("reset") /\ wizard' = [wizard EXCEPT !.open = TRUE]
  /\ UNCHANGED <<file, tmp, update, by, abandoned>>

(* Mutant: Save is not disabled while a save is running. *)
SaveSettingsAgain ==
  /\ ~wizard.open /\ editor.pc \in {"ready", "saving"} /\ editor.draft \in Configs
  /\ Ask("page", editor.draft)
  /\ editor' = [editor EXCEPT !.pc = "saving"]
  /\ UNCHANGED <<file, tmp, wizard, firstRun, by, abandoned>>

\* saveSettings: a draft that does not validate is not sent
SaveSettings ==
  /\ ~wizard.open /\ editor.pc = "ready" /\ editor.draft \in Configs
  /\ Ask("page", editor.draft)
  /\ editor' = [editor EXCEPT !.pc = "saving"]
  /\ UNCHANGED <<file, tmp, wizard, firstRun, by, abandoned>>

\* Its answer: the draft is what has been saved, whatever it has become.
SettingsSaved(u) ==
  /\ update[u].for = "page"
  /\ \/ At(u, "saved") /\ editor' = [pc |-> "ready", draft |-> update[u].new]
     \/ At(u, "refused") /\ editor' = [editor EXCEPT !.pc = "ready"]
  /\ update' = [update EXCEPT ![u] = Idle]
  /\ UNCHANGED <<file, tmp, wizard, firstRun, by, abandoned>>

-----------------------------------------------------------------------------
(* The wizard *)

WizardIdle == wizard.open /\ wizard.busy = "no"

\* moveToStep; the preset buttons of the second step
MoveToStep ==
  /\ WizardIdle
  /\ \E step \in {wizard.step - 1, wizard.step + 1} \cap {1, 2} :
       wizard' = [wizard EXCEPT !.step = step, !.applied = FALSE]
  /\ UNCHANGED <<file, tmp, update, editor, firstRun, by, abandoned>>

SelectPreset ==
  /\ WizardIdle /\ wizard.step = 2
  /\ \E p \in Presets :
       wizard' = [wizard EXCEPT !.preset = p, !.review = NoConfig, !.applied = FALSE]
  /\ UNCHANGED <<file, tmp, update, editor, firstRun, by, abandoned>>

\* prepareReview, and what has become of its two requests
PrepareReview ==
  /\ WizardIdle /\ wizard.step = 2
  /\ wizard' = [wizard EXCEPT !.busy = "review", !.applied = FALSE]
  /\ UNCHANGED <<file, tmp, update, editor, firstRun, by, abandoned>>

Reviewed ==
  /\ wizard.busy = "review"
  /\ \/ /\ file # Torn
        /\ wizard' = [wizard EXCEPT !.busy = "no", !.step = 3,
                        !.review = [file EXCEPT !.preset = wizard.preset]]
     \/ wizard' = [wizard EXCEPT !.busy = "no"]
  /\ UNCHANGED <<file, tmp, update, editor, firstRun, by, abandoned>>

(* Mutant: the profile counts as applied before the backend has answered. *)
ApplyPresetEarly ==
  /\ WizardIdle /\ wizard.step = 3
  /\ Ask("wizard", wizard.review)
  /\ wizard' = [wizard EXCEPT !.busy = "apply", !.applied = TRUE]
  /\ UNCHANGED <<file, tmp, editor, firstRun, by, abandoned>>

\* completeFirstRun, which closes the wizard at once
CompleteFirstRun(busy, applied) ==
  /\ UpdateSettings("completed")
  /\ wizard' = [wizard EXCEPT !.busy = busy, !.applied = applied, !.open = FALSE]

\* applyPreset: the configuration is sent unless it was
ApplyPreset ==
  /\ WizardIdle /\ wizard.step = 3
  /\ \/ wizard.applied /\ CompleteFirstRun("complete", TRUE) /\ UNCHANGED update
     \/ /\ ~wizard.applied /\ Ask("wizard", wizard.review)
        /\ wizard' = [wizard EXCEPT !.busy = "apply"] /\ UNCHANGED firstRun
  /\ UNCHANGED <<file, tmp, editor, by, abandoned>>

Applied(u) ==
  /\ update[u].for = "wizard"
  /\ \/ At(u, "saved") /\ CompleteFirstRun("complete", TRUE)
     \/ At(u, "refused") /\ wizard' = [wizard EXCEPT !.busy = "no"] /\ UNCHANGED firstRun
  /\ update' = [update EXCEPT ![u] = Idle]
  /\ UNCHANGED <<file, tmp, editor, by, abandoned>>

SkipFirstRun ==
  /\ WizardIdle /\ CompleteFirstRun("skip", wizard.applied)
  /\ UNCHANGED <<file, tmp, update, editor, by, abandoned>>

-----------------------------------------------------------------------------
\* The time limit of the main process.
TimesOut(u) ==
  /\ update[u].for # "nobody" /\ abandoned < MaxAbandoned /\ abandoned' = abandoned + 1
  /\ IF update[u].for = "page"
       THEN editor' = [editor EXCEPT !.pc = "ready"] /\ UNCHANGED wizard
       ELSE wizard' = [wizard EXCEPT !.busy = "no"] /\ UNCHANGED editor
  /\ update' = [update EXCEPT ![u] = [@ EXCEPT !.for = "nobody", !.from = "nobody"]]
  /\ UNCHANGED <<file, tmp, firstRun, by>>

\* An answer nobody waits for.
Unheard(u) ==
  /\ update[u].for = "nobody" /\ update[u].pc \in {"saved", "refused"}
  /\ update' = [update EXCEPT ![u] = Idle]
  /\ UNCHANGED <<file, tmp, editor, wizard, firstRun, by, abandoned>>

\* The settings page is left; an update it waits for goes on.
CloseSettings ==
  /\ editor.pc # "off" /\ editor' = Off
  /\ IF editor.pc = "saving"
       THEN /\ abandoned < MaxAbandoned /\ abandoned' = abandoned + 1
            /\ update' = [u \in Updates |-> IF update[u].for = "page"
                            THEN [update[u] EXCEPT !.for = "nobody", !.from = "nobody"]
                            ELSE update[u]]
       ELSE UNCHANGED <<update, abandoned>>
  /\ UNCHANGED <<file, tmp, wizard, firstRun, by>>

EditorStep ==
  \/ Loads \/ Reload \/ Edit \/ Reset \/ SaveSettings
  \/ MoveToStep \/ SelectPreset \/ PrepareReview \/ Reviewed \/ ApplyPreset
  \/ SkipFirstRun \/ OtherSettings \/ SettingsSettled
  \/ \E u \in Updates :
       \/ Refuses(u) \/ Opens(u) \/ Writes(u) \/ WriteFails(u) \/ Replaces(u)
       \/ SettingsSaved(u) \/ Applied(u) \/ TimesOut(u) \/ Unheard(u)
=============================================================================
