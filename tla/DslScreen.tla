------------------------------ MODULE DslScreen ------------------------------
(***************************************************************************)
(* The administration of the DSL (useDslAdmin): the state on top, the tabs *)
(* of the preview, the submission and the history, and the operations,     *)
(* asked for first when they replace or take something.  A preview is      *)
(* named by a number.  Ghost: fresh says that what is shown, or what a     *)
(* reading brings, contains every operation this page was told is done.    *)
(***************************************************************************)
EXTENDS Requests

CONSTANT MaxPlacements   \* bound: how many previews may be placed

DslScreenAssumption == MaxPlacements \in Nat

VARIABLES
  dslS,      \* on the server: the previews placed so far and the one there is (0: none)
  dslStatus, \* the state shown on top
  panel,     \* the tab of the preview
  hist,      \* the tab of the history; stale: to be read when it is opened; asked: a reading is wanted
  tab,
  statusReqs, panelReqs, \* readings in flight
  busy,      \* the operation the buttons wait for
  calls,     \* the operations in flight
  fileRead,  \* the file to submit is being read
  asked,     \* the dialog
  downloads, \* a download of the preview that found none; late: an operation was heard done since
  disturbed  \* ghost: two operations were in flight at once, or a late download said there is no preview

dslVars == <<dslS, dslStatus, panel, hist, tab, statusReqs, panelReqs, busy, calls, fileRead, asked, downloads, disturbed>>

PreviewIds == 0..MaxPlacements
Placing == {"generate", "submit", "restore"}
DslOps == Placing \cup {"apply", "discard"}
LoadStates == {"gone", "loading", "loaded", "failed"}

NoStatus == [state |-> "gone", fresh |-> FALSE, preview |-> 0]
NoPanel == [state |-> "gone", fresh |-> FALSE, preview |-> 0, invalid |-> FALSE, replaced |-> FALSE]
NoHist == [state |-> "gone", stale |-> TRUE, asked |-> FALSE]
\* seen: ghost, the preview it is about was on show when it was asked for.
NotAsked == [op |-> "none", about |-> 0, seen |-> TRUE]
About(op, id) == [op |-> op, about |-> id, seen |-> id \in {0, panel.preview}]
Reading == [stage |-> "sent", mine |-> TRUE, fresh |-> FALSE, preview |-> 0]

DslTypeOK ==
  /\ dslS \in [placed : PreviewIds, preview : PreviewIds] /\ dslS.preview <= dslS.placed
  /\ dslStatus \in [state : LoadStates, fresh : BOOLEAN, preview : PreviewIds]
  /\ panel \in [state : LoadStates, fresh : BOOLEAN, preview : PreviewIds, invalid : BOOLEAN, replaced : BOOLEAN]
  /\ hist \in [state : LoadStates, stale : BOOLEAN, asked : BOOLEAN] /\ tab \in {"preview", "submit", "history"}
  /\ statusReqs \subseteq [mine : BOOLEAN, about : PreviewIds] /\ panelReqs \subseteq [stage : {"sent", "served"}, mine : {TRUE}, fresh : BOOLEAN, preview : PreviewIds]
  /\ busy \in DslOps \cup {"none"} /\ calls \subseteq [op : DslOps, about : PreviewIds, seen : BOOLEAN, stage : {"sent", "checking"}]
  /\ fileRead \in BOOLEAN /\ asked \in [op : DslOps \cup {"none"}, about : PreviewIds, seen : BOOLEAN]
  /\ downloads \in {"none", "missing", "late"} /\ disturbed \in BOOLEAN
  /\ (busy # "none" => \E c \in calls : c.op = busy) /\ (panel.state = "loading" => Wanted(panelReqs))
  /\ (dslStatus.state = "loading" => Wanted(statusReqs)) /\ (hist.state = "loading" => hist.asked) /\ (panel.invalid => panel.preview = 0)

DslInit ==
  /\ dslS = [placed |-> 0, preview |-> 0] /\ dslStatus = NoStatus /\ panel = NoPanel /\ hist = NoHist /\ tab = "preview"
  /\ statusReqs = {} /\ panelReqs = {} /\ busy = "none" /\ calls = {} /\ fileRead = FALSE /\ asked = NotAsked /\ downloads = "none"
  /\ disturbed = FALSE

screenOnly == <<tab, busy, calls, fileRead, asked, downloads, disturbed>>

-----------------------------------------------------------------------------
\* loadStatus, loadPreview: the latest request counts; older ones are forgotten, but for one that an application waits for.
LoadStatus(about) ==
  /\ MayAsk({q \in statusReqs : q.mine \/ q.about # 0})
  /\ statusReqs' = {q \in Dropped(statusReqs) : q.about # 0} \cup {[mine |-> TRUE, about |-> about]}
ForgetPreviewReads == panelReqs' = {}
loadPreview == panelReqs' = {Reading}
loadHistory(h) == hist' = [h EXCEPT !.state = "loading", !.stale = FALSE, !.asked = TRUE]

OpenDsl ==
  /\ panel.state = "gone" /\ dslStatus' = [NoStatus EXCEPT !.state = "loading"] /\ panel' = [NoPanel EXCEPT !.state = "loading"]
  /\ LoadStatus(0) /\ loadPreview /\ hist' = NoHist
  /\ tab' = "preview" /\ UNCHANGED <<dslS, busy, calls, fileRead, asked, downloads, disturbed>>

\* The page is left, or the right or the session is gone.
DslGone ==
  /\ panel.state # "gone" /\ dslStatus' = NoStatus /\ panel' = NoPanel /\ hist' = NoHist /\ tab' = "preview" /\ statusReqs' = {}
  /\ panelReqs' = {} /\ busy' = "none" /\ calls' = {} /\ fileRead' = FALSE /\ asked' = NotAsked /\ downloads' = "none"
  /\ disturbed' = FALSE /\ UNCHANGED dslS

\* What the operations do to the server.
Places(s) == [placed |-> s.placed + 1, preview |-> s.placed + 1]
Takes(s) == [s EXCEPT !.preview = 0]   \* applies it or discards it
MayPlace == dslS.placed < MaxPlacements

\* Other administrators.
DslChange ==
  /\ \/ MayPlace /\ dslS' = Places(dslS)
     \/ dslS.preview # 0 /\ dslS' = Takes(dslS)
  /\ UNCHANGED <<dslStatus, panel, hist, statusReqs, panelReqs, screenOnly>>

ServePreview(q) ==
  /\ q \in panelReqs /\ q.stage = "sent"
  /\ panelReqs' = (panelReqs \ {q}) \cup {[q EXCEPT !.stage = "served", !.fresh = TRUE, !.preview = dslS.preview]}
  /\ UNCHANGED <<dslS, dslStatus, panel, hist, statusReqs, screenOnly>>

ClearedPanel(fresh) == [state |-> "loaded", fresh |-> fresh, preview |-> 0, invalid |-> FALSE, replaced |-> FALSE]
Finish(c) == calls' = calls \ {c} /\ busy' = "none"

\* handleApplyRejected: what the state says of the preview that could not be applied.
ApplyRejected(q, ok) ==
  LET waiting == {c \in calls : c.stage = "checking" /\ c.about = q.about} IN
  IF waiting = {} THEN UNCHANGED <<panel, panelReqs, calls, busy>>
  ELSE /\ calls' = calls \ waiting /\ busy' = "none"
       /\ IF ~ok THEN UNCHANGED <<panel, panelReqs>>
          ELSE IF dslS.preview \notin {0, q.about} THEN panel' = [panel EXCEPT !.replaced = TRUE] /\ UNCHANGED panelReqs
          ELSE panel' = ClearedPanel(TRUE) /\ ForgetPreviewReads

\* Readings of the state (and of the history below) are served and answered in one step.
StatusRead(q) ==
  /\ q \in statusReqs /\ statusReqs' = statusReqs \ {q}
  /\ dslStatus' = IF q.mine THEN [state |-> "loaded", fresh |-> TRUE, preview |-> dslS.preview] ELSE dslStatus
  /\ ApplyRejected(q, TRUE) /\ UNCHANGED <<dslS, hist, tab, fileRead, asked, downloads, disturbed>>
StatusFails(q) ==
  /\ q \in statusReqs /\ statusReqs' = statusReqs \ {q}
  /\ dslStatus' = IF q.mine THEN [dslStatus EXCEPT !.state = "failed"] ELSE dslStatus
  /\ ApplyRejected(q, FALSE) /\ UNCHANGED <<dslS, hist, tab, fileRead, asked, downloads, disturbed>>

\* invalid: what is placed cannot be read any more (DSL_INVALID).
PreviewRead(q, invalid) ==
  /\ q \in panelReqs /\ q.stage = "served" /\ panelReqs' = panelReqs \ {q} /\ (invalid => q.preview # 0)
  /\ panel' = [panel EXCEPT !.state = "loaded", !.fresh = q.fresh, !.preview = IF invalid THEN 0 ELSE q.preview, !.invalid = invalid]
  /\ UNCHANGED <<dslS, dslStatus, hist, statusReqs, tab, busy, calls, fileRead, asked, downloads, disturbed>>
PreviewFails(q) ==
  /\ q \in panelReqs /\ panelReqs' = panelReqs \ {q} /\ panel' = [panel EXCEPT !.state = "failed"]
  /\ UNCHANGED <<dslS, dslStatus, hist, statusReqs, screenOnly>>

HistoryAnswered(ok) ==
  /\ hist.asked /\ hist' = [hist EXCEPT !.asked = FALSE, !.state = IF ok THEN "loaded" ELSE "failed"]
  /\ UNCHANGED <<dslS, dslStatus, panel, statusReqs, panelReqs, screenOnly>>

-----------------------------------------------------------------------------
\* DslAdminPage behind the dialog is inert.
DslPageFree == panel.state # "gone" /\ asked.op = "none"
ButtonsFree == DslPageFree /\ busy = "none"
\* DslStatusPanel, DslPreviewPanel, DslSubmitForm, DslHistoryTable: what can be pressed in each state.
StatusFailed == DslPageFree /\ dslStatus.state = "failed"
PanelShows == DslPageFree /\ tab = "preview" /\ panel.state = "loaded"
InvalidShown == PanelShows /\ panel.invalid
ContentShown == PanelShows /\ panel.preview # 0
SubmitShown == ButtonsFree /\ tab = "submit"
HistoryShown == DslPageFree /\ tab = "history" /\ hist.state = "loaded"

selectTab(t) ==
  /\ DslPageFree /\ t # tab /\ tab' = t
  /\ IF t = "history" /\ hist.stale THEN loadHistory(hist) ELSE UNCHANGED hist
  /\ UNCHANGED <<dslS, dslStatus, panel, statusReqs, panelReqs, busy, calls, fileRead, asked, downloads, disturbed>>
retryStatus ==
  /\ StatusFailed /\ dslStatus' = [dslStatus EXCEPT !.state = "loading"] /\ LoadStatus(0)
  /\ UNCHANGED <<dslS, panel, hist, panelReqs, screenOnly>>
retryPreview ==
  /\ DslPageFree /\ tab = "preview" /\ panel.state = "failed" /\ panel' = [panel EXCEPT !.state = "loading"] /\ loadPreview
  /\ UNCHANGED <<dslS, dslStatus, hist, statusReqs, screenOnly>>
retryHistory ==
  /\ DslPageFree /\ tab = "history" /\ hist.state = "failed" /\ loadHistory(hist)
  /\ UNCHANGED <<dslS, dslStatus, panel, statusReqs, panelReqs, screenOnly>>
showLatest ==
  /\ ContentShown /\ panel.replaced /\ panel' = [panel EXCEPT !.state = "loading", !.replaced = FALSE] /\ LoadStatus(0) /\ loadPreview
  /\ UNCHANGED <<dslS, dslStatus, hist, screenOnly>>

\* The state on top says what would be replaced; without one, the preview shown.
currentPreview == IF dslStatus.preview # 0 THEN dslStatus.preview ELSE panel.preview

\* runOperation
RunOperation(a) ==
  /\ Cardinality(calls) < MaxInFlight /\ calls' = calls \cup {[op |-> a.op, about |-> a.about, seen |-> a.seen, stage |-> "sent"]} /\ busy' = a.op
  /\ disturbed' = (disturbed \/ calls # {})
withReplaceConfirm(op) ==
  IF currentPreview = 0 THEN RunOperation(About(op, 0)) /\ UNCHANGED asked ELSE asked' = About(op, 0) /\ UNCHANGED <<calls, busy, disturbed>>
loaded == <<dslS, dslStatus, panel, hist, statusReqs, panelReqs>>

generate == ButtonsFree /\ withReplaceConfirm("generate") /\ UNCHANGED <<loaded, tab, fileRead, downloads>>
restore == HistoryShown /\ ButtonsFree /\ withReplaceConfirm("restore") /\ UNCHANGED <<loaded, tab, fileRead, downloads>>
\* The file is read before the submission is asked for; nothing is looked at again afterwards.
handleSubmit == SubmitShown /\ fileRead' = TRUE /\ UNCHANGED <<loaded, tab, busy, calls, asked, downloads, disturbed>>
submit ==
  /\ fileRead /\ fileRead' = FALSE
  /\ withReplaceConfirm("submit") \/ UNCHANGED <<calls, busy, disturbed, asked>>
  /\ UNCHANGED <<loaded, tab, downloads>>
apply ==
  /\ ContentShown /\ ButtonsFree /\ asked' = About("apply", panel.preview)
  /\ UNCHANGED <<loaded, tab, busy, calls, fileRead, downloads, disturbed>>
discardPreview ==
  /\ (ContentShown \/ InvalidShown) /\ ButtonsFree /\ currentPreview # 0 /\ asked' = About("discard", 0)
  /\ UNCHANGED <<loaded, tab, busy, calls, fileRead, downloads, disturbed>>

\* DslConfirmDialog
DialogShown == asked.op # "none"
confirmDialog ==
  /\ DialogShown /\ asked' = NotAsked /\ RunOperation(asked) /\ UNCHANGED <<loaded, tab, fileRead, downloads>>
cancelDialog == DialogShown /\ asked' = NotAsked /\ UNCHANGED <<loaded, tab, busy, calls, fileRead, downloads, disturbed>>

-----------------------------------------------------------------------------
\* What was served before the operation was heard done does not contain it.
Unfresh(reqs) == {[q EXCEPT !.fresh = FALSE] : q \in reqs}
HeardDone(c) == Finish(c) /\ downloads' = IF downloads = "none" THEN "none" ELSE "late"

\* showPlacedPreview
PreviewPlaced(c) ==
  /\ c \in calls /\ c.op \in Placing /\ MayPlace /\ dslS' = Places(dslS) /\ HeardDone(c)
  /\ panel' = [ClearedPanel(TRUE) EXCEPT !.preview = dslS'.preview] /\ ForgetPreviewReads /\ tab' = "preview" /\ LoadStatus(0)
  /\ dslStatus' = [dslStatus EXCEPT !.fresh = FALSE] /\ UNCHANGED <<hist, fileRead, asked, disturbed>>

\* The state comes with the answer; the history is read when its tab is opened next.
Applied(c) ==
  /\ c \in calls /\ c.op = "apply" /\ c.stage = "sent" /\ dslS.preview = c.about /\ dslS' = Takes(dslS) /\ HeardDone(c)
  /\ dslStatus' = [state |-> "loaded", fresh |-> TRUE, preview |-> 0] /\ statusReqs' = {}
  /\ panel' = ClearedPanel(TRUE) /\ ForgetPreviewReads /\ hist' = [hist EXCEPT !.stale = TRUE]
  /\ UNCHANGED <<tab, fileRead, asked, disturbed>>
Discarded(c) ==
  /\ c \in calls /\ c.op = "discard" /\ dslS.preview # 0 /\ dslS' = Takes(dslS) /\ HeardDone(c)
  /\ panel' = ClearedPanel(TRUE) /\ ForgetPreviewReads /\ LoadStatus(0) /\ dslStatus' = [dslStatus EXCEPT !.fresh = FALSE]
  /\ UNCHANGED <<hist, tab, fileRead, asked, disturbed>>

\* DSL_PREVIEW_CHANGED: the state is read before anything is said.
ApplyChanged(c) ==
  /\ c \in calls /\ c.op = "apply" /\ c.stage = "sent" /\ dslS.preview # c.about
  /\ calls' = (calls \ {c}) \cup {[c EXCEPT !.stage = "checking"]} /\ LoadStatus(c.about)
  /\ UNCHANGED <<dslS, dslStatus, panel, hist, panelReqs, tab, busy, fileRead, asked, downloads, disturbed>>
\* DSL_INVALID
OpInvalid(c) ==
  /\ c \in calls /\ c.stage = "sent" /\ Finish(c)
  /\ \/ c.op = "submit" /\ UNCHANGED <<panel, panelReqs, tab>>
     \/ c.op = "restore" /\ tab' = "history" /\ UNCHANGED <<panel, panelReqs>>
     \/ c.op = "apply" /\ panel' = [panel EXCEPT !.state = "loaded", !.preview = 0, !.invalid = TRUE] /\ ForgetPreviewReads /\ UNCHANGED tab
  /\ UNCHANGED <<dslS, dslStatus, hist, statusReqs, fileRead, asked, downloads, disturbed>>
\* handleFailure: there is no preview, no such revision, or the operation was refused or its answer lost, done or not.
\* The tab is the one that was open at the click.
OpMissesPreview(c) ==
  /\ c \in calls /\ c.stage = "sent" /\ c.op \in {"apply", "discard"} /\ dslS.preview = 0 /\ Finish(c)
  /\ panel' = ClearedPanel(TRUE) /\ ForgetPreviewReads /\ LoadStatus(0)
  /\ UNCHANGED <<dslS, dslStatus, hist, tab, fileRead, asked, downloads, disturbed>>
OpMissesRevision(c) ==
  /\ c \in calls /\ c.op = "restore" /\ Finish(c) /\ LoadStatus(0) /\ loadHistory(hist)
  /\ UNCHANGED <<dslS, dslStatus, panel, panelReqs, tab, fileRead, asked, downloads, disturbed>>
DslOpFails(c) ==
  /\ c \in calls /\ c.stage = "sent" /\ Finish(c)
  /\ \/ UNCHANGED dslS
     \/ c.op \in Placing /\ MayPlace /\ dslS' = Places(dslS)
     \/ c.op \notin Placing /\ dslS.preview # 0 /\ (c.op = "apply" => dslS.preview = c.about) /\ dslS' = Takes(dslS)
  /\ UNCHANGED <<dslStatus, panel, hist, statusReqs, panelReqs, tab, fileRead, asked, downloads, disturbed>>

\* download (of the preview), never waited for: what is found is saved, and that there is none is told late.
downloadMissing ==
  /\ (ContentShown \/ InvalidShown) /\ dslS.preview = 0 /\ downloads = "none" /\ downloads' = "missing"
  /\ UNCHANGED <<loaded, tab, busy, calls, fileRead, asked, disturbed>>
DownloadFailed ==
  /\ downloads # "none" /\ downloads' = "none" /\ panel' = ClearedPanel(panel.fresh) /\ ForgetPreviewReads /\ LoadStatus(0)
  /\ disturbed' = (disturbed \/ downloads = "late")
  /\ UNCHANGED <<dslS, dslStatus, hist, tab, busy, calls, fileRead, asked>>

DslUndisturbed ==
  \/ OpenDsl \/ DslChange \/ retryStatus \/ retryPreview \/ retryHistory \/ showLatest \/ generate \/ restore \/ handleSubmit
  \/ submit \/ apply \/ discardPreview \/ confirmDialog \/ cancelDialog \/ downloadMissing \/ DownloadFailed
  \/ \E q \in statusReqs : StatusRead(q) \/ StatusFails(q)
  \/ \E q \in panelReqs : ServePreview(q) \/ PreviewFails(q) \/ \E invalid \in BOOLEAN : PreviewRead(q, invalid)
  \/ \E ok \in BOOLEAN : HistoryAnswered(ok)
  \/ \E t \in {"preview", "submit", "history"} : selectTab(t)
  \/ \E c \in calls : PreviewPlaced(c) \/ Applied(c) \/ Discarded(c) \/ ApplyChanged(c) \/ OpInvalid(c) \/ OpMissesPreview(c)
                      \/ OpMissesRevision(c) \/ DslOpFails(c)

\* Bound: a disturbed page is not followed any further.
DslNext == DslGone \/ (~disturbed /\ DslUndisturbed)

-----------------------------------------------------------------------------
\* Unless two operations of the page overlapped or a download came late, the preview and the state shown contain
\* every operation the page was told is done, whatever readings were in flight (useDslAdmin.ts:20 "古い応答で上書きしない").
ShownFollows ==
  ~disturbed => /\ (panel.state = "loaded" => panel.fresh)
                /\ (dslStatus.state = "loaded" /\ ~Wanted(statusReqs) => dslStatus.fresh)

\* A preview this page applies is one whose content it shows: never one it only knows from the state, or one placed
\* by somebody else since (apply with its guard on previewId, the server's comparison).
AppliesWhatItShowed == \A c \in calls : c.op = "apply" => c.about # 0 /\ c.seen
=============================================================================
