-------------------------------- MODULE GroupScreens --------------------------------
(***************************************************************************)
(* The screens of the groups: the list of groups, which the list of roles  *)
(* is made like, and the page of one group.                                *)
(***************************************************************************)
EXTENDS Requests

(***************************************************************************)
(* The lists of groups and of roles (useGroupList, useRoleList, the same   *)
(* but for names): pages, and creating, renaming and deleting in a dialog. *)
(* After a success the list is read again once the dialog has closed.      *)
(***************************************************************************)
VARIABLES
  named,      \* version of the groups (roles) on the server
  namedList,  \* what the page shows
  namedReqs,  \* readings in flight
  namedDialog,
  namedOp,    \* the operation in flight
  afterClose, \* a reading waits for the dialog to have closed
  ackedNamed, \* ghost: the version after the last operation this page heard done
  askedPage   \* ghost: the page asked for last

namedVars == <<named, namedList, namedReqs, namedDialog, namedOp, afterClose, ackedNamed, askedPage>>

Pages == {"first", "second"}
DialogKinds == {"none", "create", "rename", "delete"}
Refusals == {"missing", "inUse", "name", "other"}

NoNamedList == [state |-> "gone", shown |-> FALSE, version |-> 0, page |-> "first"]
NoNamedOp == [stage |-> "none", result |-> "none"]

loadingNamed == Wanted(namedReqs)
submittingNamed == namedOp.stage # "none"

NamedTypeOK ==
  /\ named \in Versions /\ ackedNamed \in Versions /\ askedPage \in Pages
  /\ namedList \in [state : {"gone", "loading", "reloading", "loaded", "failed"}, shown : BOOLEAN,
                    version : Versions, page : Pages]
  /\ namedReqs \subseteq RequestsAbout([page : Pages, corrected : BOOLEAN])
  /\ (namedList.state \in {"loading", "reloading"}) = loadingNamed
  /\ namedList.shown = (namedList.state \in {"loaded", "reloading"})
  /\ namedDialog \in DialogKinds /\ namedOp \in [stage : {"none", "sent", "served"}, result : {"none", "done"} \cup Refusals]
  /\ (submittingNamed => namedDialog # "none") /\ (namedDialog # "none" => ~loadingNamed)
  /\ afterClose \in BOOLEAN

NamedInit ==
  /\ named = 0 /\ namedList = NoNamedList /\ namedReqs = {} /\ namedDialog = "none"
  /\ namedOp = NoNamedOp /\ afterClose = FALSE /\ ackedNamed = 0 /\ askedPage = "first"

-----------------------------------------------------------------------------
loadNamed(l, page) ==
  /\ MayAsk(namedReqs)
  /\ namedReqs' = Asked(namedReqs, [page |-> page, corrected |-> FALSE])
  /\ namedList' = [l EXCEPT !.state = IF l.shown THEN "reloading" ELSE "loading"]

OpenNamed ==
  /\ namedList.state = "gone" /\ loadNamed(NoNamedList, "first") /\ askedPage' = "first" /\ ackedNamed' = 0
  /\ UNCHANGED <<named, namedDialog, namedOp, afterClose>>

\* load.invalidate, and the reading that waited for the dialog is given up.
NamedGone ==
  /\ namedList' = NoNamedList /\ namedReqs' = Dropped(namedReqs) /\ namedDialog' = "none"
  /\ namedOp' = NoNamedOp /\ afterClose' = FALSE /\ ackedNamed' = 0
LeaveNamed == namedList.state # "gone" /\ NamedGone /\ UNCHANGED <<named, askedPage>>

NamedChange ==
  /\ named < MaxVersion /\ named' = named + 1
  /\ UNCHANGED <<namedList, namedReqs, namedDialog, namedOp, afterClose, ackedNamed, askedPage>>

ServeNamed(q) ==
  /\ q \in namedReqs /\ q.stage = "sent" /\ namedReqs' = ServedAt(namedReqs, q, named)
  /\ UNCHANGED <<named, namedList, namedDialog, namedOp, afterClose, ackedNamed, askedPage>>

\* The page is past the last one: the last one is read, once.
EmptyNamedPage(q) ==
  /\ q \in namedReqs /\ q.stage = "served" /\ q.about = [page |-> "second", corrected |-> FALSE]
  /\ namedReqs' = (namedReqs \ {q}) \cup (IF q.mine THEN {Request([page |-> "first", corrected |-> TRUE])} ELSE {})
  /\ UNCHANGED <<named, namedList, namedDialog, namedOp, afterClose, ackedNamed, askedPage>>

NamedRead(q) ==
  /\ q \in namedReqs /\ q.stage = "served" /\ namedReqs' = namedReqs \ {q}
  /\ namedList' = IF q.mine THEN [state |-> "loaded", shown |-> TRUE, version |-> q.version, page |-> q.about.page] ELSE namedList
  /\ askedPage' = IF q.mine THEN q.about.page ELSE askedPage
  /\ UNCHANGED <<named, namedDialog, namedOp, afterClose, ackedNamed>>

\* A session or a right that ended takes the page, any other failure the list.
NamedReadFails(q, away) ==
  /\ q \in namedReqs
  /\ IF ~q.mine THEN namedReqs' = namedReqs \ {q} /\ UNCHANGED <<namedList, namedDialog, namedOp, afterClose, ackedNamed>>
     ELSE IF away THEN NamedGone
     ELSE /\ namedReqs' = namedReqs \ {q} /\ namedList' = [namedList EXCEPT !.state = "failed", !.shown = FALSE]
          /\ UNCHANGED <<namedDialog, namedOp, afterClose, ackedNamed>>
  /\ UNCHANGED <<named, askedPage>>

-----------------------------------------------------------------------------
groupListViewOf(l) ==
  CASE l.state = "failed" -> "load-error"
    [] ~l.shown -> "loading"
    [] OTHER -> l.state

\* The background of a dialog is inert until it has closed.
NamedPageFree == namedList.state # "gone" /\ namedDialog = "none" /\ ~afterClose /\ ~loadingNamed

goToNamedPage(page) ==
  /\ NamedPageFree /\ groupListViewOf(namedList) = "loaded" /\ page # namedList.page
  /\ loadNamed(namedList, page) /\ askedPage' = page
  /\ UNCHANGED <<named, namedDialog, namedOp, afterClose, ackedNamed>>

retryNamed ==
  /\ NamedPageFree /\ groupListViewOf(namedList) = "load-error"
  /\ loadNamed(namedList, namedList.page) /\ askedPage' = namedList.page
  /\ UNCHANGED <<named, namedDialog, namedOp, afterClose, ackedNamed>>

\* RoleRowActions, GroupRowActions: the menu of a row.
RowFree == NamedPageFree /\ namedList.shown

\* A new one can be made while the list could not be read; a row has to be shown.
openDialog(kind) ==
  /\ NamedPageFree
  /\ kind # "none" /\ (kind = "create" \/ RowFree)
  /\ namedDialog' = kind
  /\ UNCHANGED <<named, namedList, namedReqs, namedOp, afterClose, ackedNamed, askedPage>>

\* GroupNameDialog, RoleNameDialog and DeleteConfirmDialog hold still while submitting.
NameDialogFree == namedDialog \in {"create", "rename"} /\ ~submittingNamed
DeleteDialogFree == namedDialog = "delete" /\ ~submittingNamed

closeNamedDialog ==
  /\ (NameDialogFree \/ DeleteDialogFree) /\ namedDialog' = "none"
  /\ UNCHANGED <<named, namedList, namedReqs, namedOp, afterClose, ackedNamed, askedPage>>

submitName ==
  /\ NameDialogFree
  /\ namedOp' = [NoNamedOp EXCEPT !.stage = "sent"]
  /\ UNCHANGED <<named, namedList, namedReqs, namedDialog, afterClose, ackedNamed, askedPage>>
confirmDelete ==
  /\ DeleteDialogFree
  /\ namedOp' = [NoNamedOp EXCEPT !.stage = "sent"]
  /\ UNCHANGED <<named, namedList, namedReqs, namedDialog, afterClose, ackedNamed, askedPage>>

ServeNamedOp ==
  /\ namedOp.stage = "sent"
  /\ \/ named < MaxVersion /\ named' = named + 1 /\ namedOp' = [stage |-> "served", result |-> "done"]
     \/ /\ \E why \in Refusals :
             /\ (why = "missing" => namedDialog # "create") /\ (why = "inUse" => namedDialog = "delete")
             /\ (why = "name" => namedDialog # "delete") /\ namedOp' = [stage |-> "served", result |-> why]
        /\ UNCHANGED named
  /\ UNCHANGED <<namedList, namedReqs, namedDialog, afterClose, ackedNamed, askedPage>>

NamedDone ==
  /\ namedOp.result = "done" /\ namedOp' = NoNamedOp /\ namedDialog' = "none"
  /\ afterClose' = TRUE /\ ackedNamed' = named
  /\ UNCHANGED <<named, namedList, namedReqs, askedPage>>

\* handleNameFailure and the failure of confirmDelete.  Only what is known to be
\* gone is read again; a failure that tells nothing leaves the dialog open.
NamedFailed(lost) ==
  /\ submittingNamed /\ (lost \/ namedOp.result \in Refusals)
  /\ LET result == IF lost THEN "other" ELSE namedOp.result IN
     /\ namedDialog' = IF result \in {"missing", "inUse"} THEN "none" ELSE namedDialog
     /\ afterClose' = (result = "missing")
  /\ namedOp' = NoNamedOp /\ UNCHANGED <<named, namedList, namedReqs, ackedNamed, askedPage>>
NamedRefusedAway == submittingNamed /\ NamedGone /\ UNCHANGED <<named, askedPage>>

\* runAfterModalClosed
ReloadAfterClose ==
  /\ afterClose /\ afterClose' = FALSE
  /\ loadNamed(namedList, namedList.page) /\ askedPage' = namedList.page
  /\ UNCHANGED <<named, namedDialog, namedOp, ackedNamed>>

NamedNext ==
  \/ OpenNamed \/ LeaveNamed \/ NamedChange \/ retryNamed \/ closeNamedDialog \/ submitName \/ confirmDelete
  \/ ServeNamedOp \/ NamedDone \/ NamedRefusedAway \/ ReloadAfterClose
  \/ \E kind \in DialogKinds : openDialog(kind)
  \/ \E page \in Pages : goToNamedPage(page)
  \/ \E b \in BOOLEAN : NamedFailed(b)
  \/ \E q \in namedReqs : ServeNamed(q) \/ EmptyNamedPage(q) \/ NamedRead(q) \/ \E away \in BOOLEAN : NamedReadFails(q, away)

-----------------------------------------------------------------------------
\* A list the administrator may act on contains every change this page was told
\* of: no row is offered that an acknowledged operation renamed or deleted.
ActsOnOwnChanges ==
  (namedList.shown /\ NamedPageFree) \/ namedDialog \in {"rename", "delete"} => namedList.version >= ackedNamed

\* The page shown is the one asked for last, whatever was read again in between.
NamedPageIsAsked == NamedPageFree /\ namedList.shown => namedList.page = askedPage

-----------------------------------------------------------------------------
(***************************************************************************)
(* The page of one group (useGroupDetail): its members and its roles are   *)
(* read by two calls at once, members are added in a dialog that stays     *)
(* open (CandidateDialog) and removed without one, after which the roles   *)
(* of the removed user are read for the notice.                            *)
(***************************************************************************)
VARIABLES
  grp,        \* the group on the server
  grpPage,    \* the page
  grpLoads,   \* its readings in flight
  grpOp,      \* the operation in flight
  noting,     \* removals done whose notice waits for the roles of the user
  grpAfter,   \* a reading waits for the dialog to have closed
  ackedGrp    \* ghost: the version after the last operation this page heard done

grpVars == <<grp, grpPage, grpLoads, grpOp, noting, grpAfter, ackedGrp>>

\* stale: the last reading failed; learned: the page was told that the group is gone.
NoGrpPage == [phase |-> "gone", version |-> 0, roles |-> "loaded", dialog |-> "none", stale |-> FALSE, learned |-> FALSE]
NoGrpOp == [kind |-> "none", stage |-> "none", result |-> "none"]
GrpLoad == [mine |-> TRUE, detail |-> "sent", version |-> 0, roles |-> "sent"]

loadingGrp == \E q \in grpLoads : q.mine
\* slowNotice.submitting: of the rename and the removal, not of an addition.
submittingGrp == grpOp.kind \in {"rename", "remove"}

GrpTypeOK ==
  /\ grp \in [exists : BOOLEAN, version : Versions] /\ ackedGrp \in Versions
  /\ grpPage \in [phase : {"gone", "loading", "ready", "missing", "load-error"}, version : Versions, roles : {"loaded", "failed"},
                  dialog : {"none", "rename", "picker"}, stale : BOOLEAN, learned : BOOLEAN]
  /\ grpLoads \subseteq [mine : BOOLEAN, detail : {"sent", "ok", "missing"}, version : Versions, roles : {"sent", "ok", "missing"}]
  /\ grpOp \in [kind : {"none", "rename", "add", "remove"}, stage : {"none", "sent", "served"},
                result : {"none", "done", "missing", "noChange", "other"}]
  /\ noting \in 0..2 /\ grpAfter \in BOOLEAN
  /\ (grpPage.phase = "loading" => loadingGrp) /\ (grpPage.dialog # "none" => grpPage.phase = "ready")
  /\ ~grpPage.learned =>
       /\ (grpPage.dialog = "rename" => grpOp.kind \in {"none", "rename"}) /\ (grpPage.dialog = "picker" => grpOp.kind \in {"none", "add"})
       /\ (grpPage.dialog = "none" => grpOp.kind \in {"none", "remove"})

GrpInit ==
  /\ grp = [exists |-> TRUE, version |-> 0] /\ grpPage = NoGrpPage /\ grpLoads = {} /\ grpOp = NoGrpOp
  /\ noting = 0 /\ grpAfter = FALSE /\ ackedGrp = 0

-----------------------------------------------------------------------------
DropGrp(loads) == {[q EXCEPT !.mine = FALSE] : q \in loads}

loadGrp == MayAsk(grpLoads) /\ grpLoads' = DropGrp(grpLoads) \cup {GrpLoad}

\* parseGroupId: a path without a usable number shows no group at all.
OpenGrp(parsed) ==
  /\ grpPage.phase = "gone"
  /\ IF parsed THEN loadGrp ELSE UNCHANGED grpLoads
  /\ grpPage' = [NoGrpPage EXCEPT !.phase = IF parsed THEN "loading" ELSE "missing"] /\ ackedGrp' = 0
  /\ UNCHANGED <<grp, grpOp, noting, grpAfter>>

GrpGone ==
  /\ grpPage' = NoGrpPage /\ grpLoads' = DropGrp(grpLoads) /\ grpOp' = NoGrpOp
  /\ noting' = 0 /\ grpAfter' = FALSE /\ ackedGrp' = 0
LeaveGrp == grpPage.phase # "gone" /\ GrpGone /\ UNCHANGED grp

\* handledCommonly with GROUP_NOT_FOUND.
Missing(p) == [p EXCEPT !.phase = "missing", !.dialog = "none", !.learned = TRUE]

GrpChange ==
  /\ grp.exists
  /\ \/ grp.version < MaxVersion /\ grp' = [grp EXCEPT !.version = @ + 1]
     \/ grp' = [grp EXCEPT !.exists = FALSE]
  /\ UNCHANGED <<grpPage, grpLoads, grpOp, noting, grpAfter, ackedGrp>>

Found == IF grp.exists THEN "ok" ELSE "missing"
ServeDetail(q) ==
  /\ q \in grpLoads /\ q.detail = "sent"
  /\ grpLoads' = (grpLoads \ {q}) \cup {[q EXCEPT !.detail = Found, !.version = grp.version]}
  /\ UNCHANGED <<grp, grpPage, grpOp, noting, grpAfter, ackedGrp>>
ServeGroupRoles(q) ==
  /\ q \in grpLoads /\ q.roles = "sent"
  /\ grpLoads' = (grpLoads \ {q}) \cup {[q EXCEPT !.roles = Found]}
  /\ UNCHANGED <<grp, grpPage, grpOp, noting, grpAfter, ackedGrp>>

\* load, once both calls have settled.  The page becomes ready with the members,
\* whatever became of the roles, even when these said that the group is gone.
AfterGrpLoad(q, lostDetail, lostRoles) ==
  CASE lostDetail -> [grpPage EXCEPT !.phase = IF @ = "ready" THEN @ ELSE "load-error", !.stale = TRUE]
    [] ~lostDetail /\ q.detail = "missing" -> Missing(grpPage)
    [] OTHER -> [(IF ~lostRoles /\ q.roles = "missing" THEN Missing(grpPage)
                  ELSE [grpPage EXCEPT !.roles = IF lostRoles THEN "failed" ELSE "loaded"])
                 EXCEPT !.phase = "ready", !.version = q.version, !.stale = FALSE]

MutAnyGrpLoad(q, lostDetail, lostRoles) ==
  /\ q \in grpLoads /\ (lostDetail \/ q.detail # "sent") /\ (lostRoles \/ q.roles # "sent")
  /\ grpLoads' = grpLoads \ {q}
  /\ grpPage' = IF grpPage.phase = "gone" THEN grpPage ELSE AfterGrpLoad(q, lostDetail, lostRoles)
  /\ UNCHANGED <<grp, grpOp, noting, grpAfter, ackedGrp>>
GrpLoaded(q, lostDetail, lostRoles) ==
  /\ q \in grpLoads /\ (lostDetail \/ q.detail # "sent") /\ (lostRoles \/ q.roles # "sent")
  /\ grpLoads' = grpLoads \ {q}
  /\ grpPage' = IF q.mine THEN AfterGrpLoad(q, lostDetail, lostRoles) ELSE grpPage
  /\ UNCHANGED <<grp, grpOp, noting, grpAfter, ackedGrp>>

retryGrp ==
  /\ grpPage.phase = "load-error" /\ loadGrp /\ grpPage' = [grpPage EXCEPT !.phase = "loading"]
  /\ UNCHANGED <<grp, grpOp, noting, grpAfter, ackedGrp>>

-----------------------------------------------------------------------------
GrpPageFree == grpPage.phase = "ready" /\ grpPage.dialog = "none" /\ ~submittingGrp /\ ~grpAfter

openRename == GrpPageFree /\ grpPage' = [grpPage EXCEPT !.dialog = "rename"] /\ UNCHANGED <<grp, grpLoads, grpOp, noting, grpAfter, ackedGrp>>
openPicker == GrpPageFree /\ grpPage' = [grpPage EXCEPT !.dialog = "picker"] /\ UNCHANGED <<grp, grpLoads, grpOp, noting, grpAfter, ackedGrp>>

SendGrp(kind) == grpOp.kind = "none" /\ grpOp' = [NoGrpOp EXCEPT !.kind = kind, !.stage = "sent"]

submitGrpName ==
  /\ grpPage.dialog = "rename" /\ SendGrp("rename") /\ UNCHANGED <<grp, grpPage, grpLoads, noting, grpAfter, ackedGrp>>
removeMember ==
  /\ GrpPageFree /\ SendGrp("remove") /\ UNCHANGED <<grp, grpPage, grpLoads, noting, grpAfter, ackedGrp>>
\* CandidateDialog.add: one at a time.
add ==
  /\ grpPage.dialog = "picker" /\ SendGrp("add") /\ UNCHANGED <<grp, grpPage, grpLoads, noting, grpAfter, ackedGrp>>

closeRename ==
  /\ grpPage.dialog = "rename" /\ ~submittingGrp /\ grpPage' = [grpPage EXCEPT !.dialog = "none"]
  /\ UNCHANGED <<grp, grpLoads, grpOp, noting, grpAfter, ackedGrp>>
\* handleClose of the dialog, then closePicker.
closePicker ==
  /\ grpPage.dialog = "picker" /\ grpOp.kind = "none"
  /\ grpPage' = [grpPage EXCEPT !.dialog = "none"] /\ grpAfter' = TRUE
  /\ UNCHANGED <<grp, grpLoads, grpOp, noting, ackedGrp>>

ServeGrpOp ==
  /\ grpOp.stage = "sent"
  /\ \/ /\ grp.exists /\ grp.version < MaxVersion /\ grp' = [grp EXCEPT !.version = @ + 1]
        /\ grpOp' = [grpOp EXCEPT !.stage = "served", !.result = "done"]
     \/ /\ \E why \in IF grp.exists THEN {"noChange", "other"} ELSE {"missing"} :
             grpOp' = [grpOp EXCEPT !.stage = "served", !.result = why]
        /\ UNCHANGED grp
  /\ UNCHANGED <<grpPage, grpLoads, noting, grpAfter, ackedGrp>>

\* The page may have become missing meanwhile; its operation is answered all the same.
RenameDone ==
  /\ grpOp.kind = "rename" /\ grpOp.result = "done" /\ grpOp' = NoGrpOp /\ ackedGrp' = grp.version
  /\ grpPage' = [grpPage EXCEPT !.dialog = "none"] /\ grpAfter' = TRUE
  /\ UNCHANGED <<grp, grpLoads, noting>>
AddDone ==
  /\ grpOp.kind = "add" /\ grpOp.result = "done" /\ grpOp' = NoGrpOp /\ ackedGrp' = grp.version
  /\ UNCHANGED <<grp, grpPage, grpLoads, noting, grpAfter>>
RemoveDone ==
  /\ grpOp.kind = "remove" /\ grpOp.result = "done" /\ noting < 2 /\ noting' = noting + 1
  /\ grpOp' = NoGrpOp /\ ackedGrp' = grp.version
  /\ UNCHANGED <<grp, grpPage, grpLoads, grpAfter>>

\* removalNotice is there (its reading answered or failed), and the page is read again.
removalNotice ==
  /\ noting > 0 /\ noting' = noting - 1 /\ loadGrp
  /\ UNCHANGED <<grp, grpPage, grpOp, grpAfter, ackedGrp>>

GrpOpFails(lost) ==
  /\ grpOp.kind # "none" /\ (lost \/ grpOp.result \in {"missing", "noChange", "other"})
  /\ LET result == IF lost THEN "other" ELSE grpOp.result
         reads == result = "noChange" /\ grpOp.kind = "remove"
     IN /\ grpPage' = IF result = "missing" THEN Missing(grpPage) ELSE grpPage
        /\ CASE result = "missing" -> grpLoads' = DropGrp(grpLoads)
             [] reads -> loadGrp
             [] OTHER -> UNCHANGED grpLoads
  /\ grpOp' = NoGrpOp /\ UNCHANGED <<grp, noting, grpAfter, ackedGrp>>

ReloadGrpAfterClose ==
  /\ grpAfter /\ grpAfter' = FALSE /\ loadGrp
  /\ UNCHANGED <<grp, grpPage, grpOp, noting, ackedGrp>>

GrpNext ==
  \/ LeaveGrp \/ GrpChange \/ retryGrp \/ openRename \/ openPicker \/ submitGrpName \/ removeMember \/ add
  \/ closeRename \/ closePicker \/ ServeGrpOp \/ RenameDone \/ AddDone \/ RemoveDone \/ removalNotice \/ ReloadGrpAfterClose
  \/ \E b \in BOOLEAN : OpenGrp(b) \/ GrpOpFails(b)
  \/ \E q \in grpLoads : ServeDetail(q) \/ ServeGroupRoles(q) \/ \E x, y \in BOOLEAN : GrpLoaded(q, x, y)

-----------------------------------------------------------------------------
\* An idle page of a group that is still there, its last reading answered, shows every change it was told of: also
\* with two removals on their way at once, whose readings cross.
GroupFollowsOwnOps ==
  grpPage.phase = "ready" /\ grpPage.dialog = "none" /\ ~loadingGrp /\ grpOp.kind = "none" /\ noting = 0 /\ ~grpAfter
    /\ ~grpPage.stale /\ ~grpPage.learned => grpPage.version >= ackedGrp

\* What the page promises (GroupDetailPage.tsx, useGroupDetail.ts): a group known to
\* be gone is shown as missing.
\* The code does not keep it: see the README.
MissingIsShown == grpPage.learned => grpPage.phase = "missing"
=============================================================================
