------------------------------ MODULE Renderer ------------------------------
(***************************************************************************)
(* The dashboard's window: App.jsx mounts one page at a time, so reports   *)
(* and settings page take turns, with the wizard over both of them.        *)
(***************************************************************************)
EXTENDS PageRequests, ConfigEditor

windowVars == <<reports, config>>

WindowInit == ReportsInit /\ EditorInit

\* Bound: nothing has been done to the configuration.  A report and the configuration have nothing
\* in common, so those that load by themselves are followed in this case only.
Untouched ==
  /\ wizard.step = 1 /\ by = "nobody" /\ abandoned = 0 /\ saves = <<>> /\ ~undone
  /\ \A u \in Updates : update[u] = Idle

\* A page is left and another mounted; the wizard is modal.
Navigate ==
  /\ ~wizard.open
  /\ \/ panel # "settings" /\ Leave /\ OpenSettings
        /\ UNCHANGED <<file, tmp, update, wizard, firstRun, by, abandoned>>
     \/ \E p \in Panels \ {panel} :
          /\ p = "overview" \/ Untouched
          /\ Mount(p)
          /\ IF panel = "settings" THEN CloseSettings ELSE UNCHANGED config

Reports == (ReportsStep \/ (~wizard.open /\ Clicked)) /\ UNCHANGED config
Editor == EditorStep /\ UNCHANGED reports

WindowNext == Navigate \/ Reports \/ Editor

(* The interval of the log page fires, requests end, and the backend goes on answering: not *)
(* every request fails.                                                                      *)
WindowFairness ==
  /\ WF_reports(Tick)
  /\ \A s \in Slots :
       /\ WF_reports(Handled(s) \/ Taken(s) \/ Fails(s))
       /\ SF_reports(Handled(s)) /\ SF_reports(Taken(s))

WindowSpec == WindowInit /\ [][WindowNext]_windowVars
WindowFairSpec == WindowSpec /\ WindowFairness

-----------------------------------------------------------------------------
(* Properties *)

WindowTypeOK ==
  /\ panel \in Panels \cup {"settings"} /\ liveVisible \in BOOLEAN /\ game \in BOOLEAN
  /\ data \in {NoData, PausedData} \cup 1 .. truth
  /\ busy \in BOOLEAN /\ truth \in 1 .. MaxTruth
  /\ \A s \in Slots : sent[s].at \in {"free", "sent", "answered"}
  /\ file \in Configs \cup {Torn} /\ tmp \in Configs \cup {NoConfig, Empty, Torn}
  /\ editor.pc # "off" <=> panel = "settings"
  /\ editor.draft \in Configs \cup {NoConfig, Invalid}
  /\ editor.pc = "saving" <=> \E u \in Updates : update[u].for = "page"
  /\ wizard.busy = "apply" <=> \E u \in Updates : update[u].for = "wizard"
  /\ saves \in Seq({"completed", "reset", "other"}) /\ kept \in BOOLEAN /\ undone \in BOOLEAN
  /\ \A i \in 1 .. Len(saves) : saves[i] = "completed" => wizard.busy \in {"complete", "skip"}
  /\ wizard.step = 3 => wizard.review \in Configs

\* No part waits for an answer that cannot come: a flag is set only while one of its requests is
\* outstanding, whatever pauses, failures and late answers there have been.
BusyHasRequest == busy => Outstanding # {}

\* What a part asks for is what the backend is asked for: the page's names for the operations and
\* main's table of them agree, parameters included.
RequestsArrive == \A s \in Outstanding : sent[s].arrives

\* The log page ends up with the latest lines, although the answers of overlapping refreshes
\* come in any order and some never come.
LogsConverge ==
  <>[](panel = "logs" /\ liveVisible /\ ~game) => <>[](data = truth)

\* config.json is never half of one configuration and half of another, as long as the pages wait
\* for their updates and no save that fails opens or closes the wizard under them: the store has no
\* lock, the disabled buttons and the wizard over the page stand in for it.
FileIsWhole == abandoned = 0 /\ ~undone => file # Torn

\* When the wizard holds a profile for applied, so that a retry would not send it again, the last
\* update of the file, if it was the wizard's, has written the configuration under review.
AppliedIsWritten ==
  wizard.applied /\ by = "wizard" /\ abandoned = 0 /\ ~undone => file = wizard.review

\* BUILDING.md: "First-run presets write config.json": when Apply closes the wizard, the chosen
\* preset is in the file.
PresetIsWritten ==
  [][wizard.open /\ ~wizard'.open /\ wizard'.busy = "complete"
       => file.preset = wizard.preset]_windowVars

\* config_store.py:1: "Config file loading, validation, and atomic writes for the API server."
WritesAreAtomic == file # Torn
=============================================================================
