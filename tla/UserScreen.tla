------------------------------ MODULE UserScreen ------------------------------
(***************************************************************************)
(* The list of users (useUserAdmin): reading pages, acting on a row through *)
(* a confirmation or an edit dialog, and reading the list again after.  An  *)
(* operation and a reading may be in flight at once; each may be lost,      *)
(* before the server has worked on it or after.                             *)
(***************************************************************************)
EXTENDS Requests

VARIABLES
  users,       \* version of the users on the server
  userList,    \* what the page shows
  userReqs,    \* readings of the list in flight
  userDialog,  \* the dialog on top of it
  userOp,      \* the operation in flight
  rolesReqs,   \* readings of a user's roles in flight
  ownUsers,    \* ghost: the users after the last own operation of this page
  askedUsers   \* ghost: the page or search the administrator asked for last

userVars == <<users, userList, userReqs, userDialog, userOp, rolesReqs, ownUsers, askedUsers>>

\* The first page, the page after it, and the first page of a search the server
\* takes or refuses.
Targets == {"first", "second", "found", "wrong"}

NoUserList == [state |-> "gone", shown |-> FALSE, version |-> 0, target |-> "first", refused |-> FALSE]
NoUserDialog == [kind |-> "none", status |-> "open", row |-> "none"]
NoUserOp == [stage |-> "none", result |-> "none"]

ROW_ACTION_KINDS == {"grantAdmin", "revokeAdmin", "suspend", "resume", "resetFailures", "editProfile", "viewRoles"}
Rows == [admin : BOOLEAN, suspended : BOOLEAN, resettable : BOOLEAN, self : BOOLEAN]

\* The actions a row offers, those shown as disabled left out.
rowActions(row) ==
  {"editProfile", "viewRoles"}
  \cup (IF row.resettable THEN {"resetFailures"} ELSE {})
  \cup (IF row.suspended THEN {"resume"} ELSE IF ~row.admin THEN {"grantAdmin"} ELSE IF row.self THEN {} ELSE {"revokeAdmin"})
  \cup (IF row.suspended \/ row.self THEN {} ELSE {"suspend"})

loadingUsers == Wanted(userReqs)
submittingUser == userOp.stage # "none"

UserTypeOK ==
  /\ users \in Versions /\ ownUsers \in Versions /\ askedUsers \in Targets
  /\ userList \in [state : {"gone", "loading", "reloading", "loaded", "failed"}, shown : BOOLEAN,
                   version : Versions, target : Targets, refused : BOOLEAN]
  /\ userReqs \subseteq RequestsAbout([target : Targets, corrected : BOOLEAN])
  /\ userList.shown = (userList.state \in {"loaded", "reloading"})
  /\ (userList.state \in {"loading", "reloading"}) = loadingUsers
  /\ userDialog \in [kind : {"none", "confirm", "edit", "roles"}, status : {"open", "submitting", "failed", "notFound", "ready"},
                     row : {"none", "own", "other"}]
  /\ (userDialog.status = "submitting") = submittingUser
  /\ userDialog.kind = "confirm" => userDialog.status \in {"open", "submitting"}
  /\ (userDialog.kind = "roles" /\ userDialog.status = "open") = Wanted(rolesReqs)
  /\ userOp \in [stage : {"none", "sent", "served"}, result : {"none", "done", "refused", "notFound", "invalid"}]
  /\ rolesReqs \subseteq RequestsAbout({"roles"})

UserInit ==
  /\ users = 0 /\ userList = NoUserList /\ userReqs = {} /\ userDialog = NoUserDialog
  /\ userOp = NoUserOp /\ rolesReqs = {} /\ ownUsers = 0 /\ askedUsers = "first"

-----------------------------------------------------------------------------
\* load: the latest reading counts, and a list that is shown stays during it.
loadUsers(l, target) ==
  /\ MayAsk(userReqs)
  /\ userReqs' = Asked(userReqs, [target |-> target, corrected |-> FALSE])
  /\ userList' = [l EXCEPT !.state = IF l.shown THEN "reloading" ELSE "loading"]

reloadUsers == loadUsers(userList, userList.target)

OpenUsers ==
  /\ userList.state = "gone" /\ loadUsers([NoUserList EXCEPT !.state = "loading"], "first")
  /\ askedUsers' = "first" /\ ownUsers' = 0
  /\ UNCHANGED <<users, userDialog, userOp, rolesReqs>>

\* The page goes away: left, refused to this user, or at the end of the session.
UsersGone ==
  /\ userList' = NoUserList /\ userReqs' = {} /\ userDialog' = NoUserDialog
  /\ userOp' = NoUserOp /\ rolesReqs' = {} /\ ownUsers' = 0
LeaveUsers == userList.state # "gone" /\ UsersGone /\ UNCHANGED <<users, askedUsers>>

UsersChange ==
  /\ users < MaxVersion /\ users' = users + 1
  /\ UNCHANGED <<userList, userReqs, userDialog, userOp, rolesReqs, ownUsers, askedUsers>>

ServeUsers(q) ==
  /\ q \in userReqs /\ q.stage = "sent" /\ userReqs' = ServedAt(userReqs, q, users)
  /\ UNCHANGED <<users, userList, userDialog, userOp, rolesReqs, ownUsers, askedUsers>>

\* correctedPage: the page is past the last one, once per reading.
EmptyPage(q) ==
  /\ q \in userReqs /\ q.stage = "served"
  /\ q.about.target = "second" /\ ~q.about.corrected
  /\ userReqs' = (userReqs \ {q}) \cup
       (IF q.mine THEN {[Request([target |-> "first", corrected |-> TRUE]) EXCEPT !.mine = TRUE]} ELSE {})
  /\ UNCHANGED <<users, userList, userDialog, userOp, rolesReqs, ownUsers, askedUsers>>

UsersRead(q) ==
  /\ q \in userReqs /\ q.stage = "served" /\ q.about.target # "wrong" /\ userReqs' = userReqs \ {q}
  /\ userList' = IF ~q.mine THEN userList ELSE
                    [userList EXCEPT !.state = "loaded", !.shown = TRUE, !.version = q.version,
                                     !.target = q.about.target, !.refused = FALSE]
  /\ askedUsers' = IF q.mine /\ q.about.corrected THEN "first" ELSE askedUsers
  /\ UNCHANGED <<users, userDialog, userOp, rolesReqs, ownUsers>>

\* handleListFailure: a search the server refuses leaves the list as it was; with
\* any other failure it is gone.  A session or a right that ended takes the page.
handleListFailure(q, kind) ==
  /\ q \in userReqs
  /\ IF ~q.mine THEN userReqs' = userReqs \ {q} /\ UNCHANGED <<userList, userDialog, userOp, rolesReqs, ownUsers>>
     ELSE \/ kind = "away" /\ UsersGone
          \/ /\ kind = "refused" /\ q.stage = "served" /\ q.about.target = "wrong" /\ userList.shown
             /\ userReqs' = userReqs \ {q} /\ userList' = [userList EXCEPT !.state = "loaded", !.refused = TRUE]
             /\ UNCHANGED <<userDialog, userOp, rolesReqs, ownUsers>>
          \/ /\ kind = "lost" /\ userReqs' = userReqs \ {q}
             /\ userList' = [userList EXCEPT !.state = "failed", !.shown = FALSE]
             /\ UNCHANGED <<userDialog, userOp, rolesReqs, ownUsers>>
  /\ askedUsers' = IF q.mine /\ kind = "refused" THEN userList.target ELSE askedUsers
  /\ UNCHANGED users

\* viewOf: what the page draws in place of the list.
viewOf(l) ==
  CASE l.state = "failed" -> "load-error"
    [] ~l.shown -> "loading"
    [] l.state = "reloading" -> "reloading"
    [] OTHER -> "list"

\* What the page lets the administrator do: a dialog covers it (Modal), and while a
\* reading is in flight the search, the pager and the rows do nothing.
UserPageFree == userList.state # "gone" /\ ~submittingUser /\ userDialog.kind = "none"
SearchBoxFree == UserPageFree /\ ~loadingUsers
PagerFree == UserPageFree /\ viewOf(userList) = "list"
RowActionsFree == UserPageFree /\ viewOf(userList) = "list"
ConfirmDialogFree == userDialog.kind = "confirm" /\ userDialog.status = "open"
EditDialogFree == userDialog.kind = "edit" /\ userDialog.status \notin {"submitting", "notFound"}

goToUserPage(target) ==
  /\ PagerFree /\ target # userList.target /\ {target, userList.target} = {"first", "second"}
  /\ loadUsers(userList, target) /\ askedUsers' = target
  /\ UNCHANGED <<users, userDialog, userOp, rolesReqs, ownUsers>>

submitSearch ==
  /\ SearchBoxFree /\ \E target \in {"found", "wrong"} : loadUsers(userList, target) /\ askedUsers' = target
  /\ UNCHANGED <<users, userDialog, userOp, rolesReqs, ownUsers>>

clearSearch ==
  /\ SearchBoxFree /\ loadUsers([userList EXCEPT !.refused = FALSE], "first") /\ askedUsers' = "first"
  /\ UNCHANGED <<users, userDialog, userOp, rolesReqs, ownUsers>>

\* The page that was shown last is read, not the one whose reading failed.
retryUsers ==
  /\ UserPageFree /\ viewOf(userList) = "load-error" /\ reloadUsers /\ askedUsers' = userList.target
  /\ UNCHANGED <<users, userDialog, userOp, rolesReqs, ownUsers>>

DialogOf(action) == IF action = "viewRoles" THEN "roles" ELSE IF action = "editProfile" THEN "edit" ELSE "confirm"

\* Not while the list is being read: what is chosen is a row of what is shown.
selectAction(row, action) ==
  /\ RowActionsFree
  /\ action \in rowActions(row) /\ (action = "viewRoles" => MayAsk(rolesReqs))
  /\ userDialog' = [kind |-> DialogOf(action), status |-> "open", row |-> IF row.self THEN "own" ELSE "other"]
  /\ rolesReqs' = IF action = "viewRoles" THEN Asked(rolesReqs, "roles") ELSE rolesReqs
  /\ UNCHANGED <<users, userList, userReqs, userOp, ownUsers, askedUsers>>

MutClosesWhileSubmitting ==
  /\ userDialog.kind # "none"
  /\ userDialog' = NoUserDialog /\ rolesReqs' = {}
  /\ UNCHANGED <<users, userList, userReqs, userOp, ownUsers, askedUsers>>
\* closeConfirm, closeEdit and the close of the roles: not while submitting.
closeUserDialog ==
  /\ userDialog.kind # "none" /\ userDialog.status # "submitting"
  /\ userDialog' = NoUserDialog /\ rolesReqs' = {}
  /\ UNCHANGED <<users, userList, userReqs, userOp, ownUsers, askedUsers>>

ServeRoles(q) ==
  /\ q \in rolesReqs /\ q.stage = "sent" /\ rolesReqs' = ServedAt(rolesReqs, q, 0)
  /\ UNCHANGED <<users, userList, userReqs, userDialog, userOp, ownUsers, askedUsers>>
RolesAnswered(q, ok) ==
  /\ q \in rolesReqs /\ Arrives(q, ok) /\ rolesReqs' = rolesReqs \ {q}
  /\ userDialog' = IF ~q.mine THEN userDialog ELSE [userDialog EXCEPT !.status = IF ok THEN "ready" ELSE "failed"]
  /\ UNCHANGED <<users, userList, userReqs, userOp, ownUsers, askedUsers>>

\* The call of an operation: beginSubmit, and the dialog that waits for it.
beginSubmit ==
  /\ userDialog' = [userDialog EXCEPT !.status = "submitting"] /\ userOp' = [NoUserOp EXCEPT !.stage = "sent"]
  /\ UNCHANGED <<users, userList, userReqs, rolesReqs, ownUsers, askedUsers>>
confirmAction == ConfirmDialogFree /\ beginSubmit
saveEdit == EditDialogFree /\ beginSubmit

ServeUserOp ==
  /\ userOp.stage = "sent"
  /\ \/ /\ users < MaxVersion /\ users' = users + 1 /\ ownUsers' = users'
        /\ userOp' = [stage |-> "served", result |-> "done"]
     \/ /\ \E why \in {"refused", "notFound", "invalid"} :
             (why = "invalid" => userDialog.kind = "edit") /\ userOp' = [stage |-> "served", result |-> why]
        /\ UNCHANGED <<users, ownUsers>>
  /\ UNCHANGED <<userList, userReqs, userDialog, rolesReqs, askedUsers>>

OpDone ==
  /\ userOp = [stage |-> "served", result |-> "done"]
  /\ userOp' = NoUserOp /\ userDialog' = NoUserDialog /\ reloadUsers
  /\ UNCHANGED <<users, rolesReqs, ownUsers, askedUsers>>

\* A confirmation closes with its failure; the edit stays open, and what is wrong
\* with a field says nothing about the list.
AfterUserFailure(result) ==
  IF userDialog.kind = "confirm" THEN NoUserDialog
  ELSE [userDialog EXCEPT !.status = IF result = "invalid" THEN "open" ELSE IF result = "notFound" THEN "notFound" ELSE "failed"]

\* The list is read again also when it is not known what the server did.
OpFailed(lost) ==
  /\ userOp.stage = "served" \/ (lost /\ userOp.stage = "sent")
  /\ lost \/ userOp.result # "done"
  /\ LET result == IF lost THEN "lost" ELSE userOp.result IN
     /\ userDialog' = AfterUserFailure(result)
     /\ IF result = "invalid" THEN UNCHANGED <<userList, userReqs>> ELSE reloadUsers
  /\ userOp' = NoUserOp /\ UNCHANGED <<users, rolesReqs, ownUsers, askedUsers>>

\* handledCommonly: the session or the right of the page has ended.
OpRefusedAway == submittingUser /\ UsersGone /\ UNCHANGED <<users, askedUsers>>

UserNext ==
  \/ OpenUsers \/ LeaveUsers \/ UsersChange \/ submitSearch \/ clearSearch \/ retryUsers
  \/ closeUserDialog \/ confirmAction \/ saveEdit \/ ServeUserOp \/ OpDone \/ OpRefusedAway
  \/ \E lost \in BOOLEAN : OpFailed(lost)
  \/ \E target \in Targets : goToUserPage(target)
  \/ \E row \in Rows, action \in ROW_ACTION_KINDS : selectAction(row, action)
  \/ \E q \in userReqs : ServeUsers(q) \/ EmptyPage(q) \/ UsersRead(q)
                         \/ \E kind \in {"away", "refused", "lost"} : handleListFailure(q, kind)
  \/ \E q \in rolesReqs : ServeRoles(q) \/ \E ok \in BOOLEAN : RolesAnswered(q, ok)

-----------------------------------------------------------------------------
UsersSettled == userList.state = "loaded" /\ ~submittingUser

\* Once a page is idle again after an own operation, its list was read after that
\* operation, also when the answer of the operation was lost on the way.
ListFollowsOwnOps == UsersSettled => userList.version >= ownUsers

\* The page shown is the one asked for last: the reading after an operation never
\* takes the place of a page or a search the administrator was waiting for.
ShownIsAsked == UsersSettled => userList.target = askedUsers
=============================================================================
