-------------------------- MODULE RequestInvariants --------------------------
(***************************************************************************)
(* The invariants of the lists and the forms, whose calls are those of     *)
(* Requests, each with the proof that its first state has it and its steps *)
(* keep it, for any number of changes on the server and of requests in     *)
(* flight.  An invariant says of every request that is still wanted what   *)
(* its answer will be worth.                                               *)
(***************************************************************************)
EXTENDS Forms, Preferences, UserScreen, GroupScreens, InvitationScreen, RoleScreens, TLAPS

-----------------------------------------------------------------------------
(* Requests in flight *)

\* At most one request is wanted: a new one supersedes those before it.
InFlight(reqs, A) ==
  /\ reqs \subseteq RequestsAbout(A)
  /\ \A p, q \in reqs : p.mine /\ q.mine => p = q

\* No request is in flight at first.
LEMMA NoRequests == \A A : InFlight({}, A) /\ ~Wanted({})
  BY DEF InFlight, Wanted

\* What is dropped is not wanted.
LEMMA DroppedRequests ==
  ASSUME NEW A, NEW reqs, InFlight(reqs, A)
  PROVE  InFlight(Dropped(reqs), A) /\ ~Wanted(Dropped(reqs))
  <1>1. ASSUME NEW q \in reqs
        PROVE  [q EXCEPT !.mine = FALSE] \in RequestsAbout(A) /\ ~[q EXCEPT !.mine = FALSE].mine
    <2>1. q \in RequestsAbout(A)
      BY DEF InFlight
    <2> QED
      BY <2>1 DEF RequestsAbout
  <1> QED
    BY <1>1 DEF InFlight, Dropped, Wanted

\* The request asked last is the one that is wanted.
LEMMA AskedRequests ==
  ASSUME RequestsAssumption, NEW A, NEW a \in A, NEW reqs, InFlight(reqs, A)
  PROVE  /\ InFlight(Asked(reqs, a), A) /\ Wanted(Asked(reqs, a))
         /\ \A q \in Asked(reqs, a) : q.mine => q.stage = "sent" /\ q.about = a
  <1>1. Request(a) \in RequestsAbout(A) /\ Request(a).mine /\ Request(a).stage = "sent" /\ Request(a).about = a
    BY DEF Request, RequestsAbout, Versions, RequestsAssumption
  <1>2. InFlight(Dropped(reqs), A) /\ ~Wanted(Dropped(reqs))
    BY DroppedRequests
  <1>3. Asked(reqs, a) = Dropped(reqs) \cup {Request(a)}
    BY DEF Asked
  <1> QED
    BY <1>1, <1>2, <1>3 DEF InFlight, Wanted

\* The server works on a request: what it is about and whether it is wanted stay.
LEMMA ServedRequests ==
  ASSUME NEW A, NEW reqs, InFlight(reqs, A), NEW q \in reqs, NEW v \in Versions
  PROVE  /\ InFlight(ServedAt(reqs, q, v), A)
         /\ Wanted(ServedAt(reqs, q, v)) <=> Wanted(reqs)
         /\ \A p \in ServedAt(reqs, q, v) :
              p \in reqs \/ (p.mine = q.mine /\ p.about = q.about /\ p.stage = "served" /\ p.version = v)
  <1> DEFINE s == [q EXCEPT !.stage = "served", !.version = v]
  <1>1. s \in RequestsAbout(A) /\ s.mine = q.mine /\ s.about = q.about /\ s.stage = "served" /\ s.version = v
    <2>1. q \in RequestsAbout(A)
      BY DEF InFlight
    <2> QED
      BY <2>1 DEF RequestsAbout
  <1>2. ServedAt(reqs, q, v) = (reqs \ {q}) \cup {s}
    BY DEF ServedAt
  <1> HIDE DEF s
  <1>3. InFlight(ServedAt(reqs, q, v), A)
    BY <1>1, <1>2 DEF InFlight
  <1>4. Wanted(ServedAt(reqs, q, v)) <=> Wanted(reqs)
    BY <1>1, <1>2 DEF Wanted
  <1> QED
    BY <1>1, <1>2, <1>3, <1>4

\* With the answer of the request that is wanted none is.
LEMMA AnsweredRequests ==
  ASSUME NEW A, NEW reqs, InFlight(reqs, A), NEW q \in reqs
  PROVE  /\ InFlight(reqs \ {q}, A)
         /\ q.mine => ~Wanted(reqs \ {q})
         /\ ~q.mine => (Wanted(reqs \ {q}) <=> Wanted(reqs))
         /\ q \in RequestsAbout(A)
  BY DEF InFlight, Wanted

-----------------------------------------------------------------------------
(* The list of users *)

UserAbout == [target : Targets, corrected : BOOLEAN]
UserLists == [state : {"gone", "loading", "reloading", "loaded", "failed"}, shown : BOOLEAN,
              version : Versions, target : Targets \ {"wrong"}, refused : BOOLEAN]

UserTypes ==
  /\ users \in Versions /\ ownUsers \in Versions /\ askedUsers \in Targets /\ userList \in UserLists
  /\ userDialog \in [kind : {"none", "confirm", "edit", "roles"}, status : {"open", "submitting", "failed", "notFound", "ready"},
                     row : {"none", "own", "other"}]
  /\ userOp \in [stage : {"none", "sent", "served"}, result : {"none", "done", "refused", "notFound", "invalid"}]
  /\ InFlight(userReqs, UserAbout) /\ InFlight(rolesReqs, {"roles"})

\* Who waits for what.
UserTies ==
  /\ userList.shown <=> userList.state \in {"loaded", "reloading"}
  /\ userList.state \in {"loading", "reloading"} <=> Wanted(userReqs)
  /\ userDialog.status = "submitting" <=> userOp.stage # "none"
  /\ userDialog.status = "submitting" => userDialog.kind \in {"confirm", "edit"}
  /\ userDialog.kind = "confirm" => userDialog.status \in {"open", "submitting"}
  /\ userDialog.kind = "roles" /\ userDialog.status = "open" <=> Wanted(rolesReqs)
  /\ userList.state = "gone" => userDialog.kind = "none"
  /\ userDialog.kind = "none" => userDialog.status = "open"
  /\ userOp.stage \in {"none", "sent"} => userOp.result = "none"

\* Until an operation is known to be done, what is shown, and what is on its way to
\* be shown, was read after the operations before it.  A search that the server
\* refuses leaves the list that is shown, which was read after them too.
UserFresh ==
  /\ ownUsers <= users
  /\ userOp.result # "done" =>
       /\ userList.state = "loaded" => userList.version >= ownUsers
       /\ \A q \in userReqs : q.mine /\ q.stage = "served" => q.version >= ownUsers
       /\ userList.shown /\ (\E q \in userReqs : q.mine /\ q.about.target = "wrong") => userList.version >= ownUsers

\* A dialog is opened on a page that was asked for, and none is asked for under it.
UserAsked ==
  /\ userList.state = "loaded" \/ userDialog.kind # "none" => userList.target = askedUsers
  /\ \A q \in userReqs : q.mine => q.about.target = IF q.about.corrected THEN "first" ELSE askedUsers

UserInv == UserTypes /\ UserTies /\ UserFresh /\ UserAsked

\* Initially the invariant of the list of users holds.
LEMMA UserStart == ASSUME RequestsAssumption, UserInit PROVE UserInv
  BY NoRequests DEF RequestsAssumption, UserInit, UserInv, UserTypes, UserTies, UserFresh, UserAsked, NoUserList, NoUserDialog,
     NoUserOp, Versions, Targets, UserLists

\* The latest reading is the one that is wanted.
UserReading(l, target) ==
  /\ InFlight(userReqs', UserAbout) /\ Wanted(userReqs')
  /\ \A q \in userReqs' : q.mine => q.stage = "sent" /\ q.about.target = target /\ q.about.corrected = FALSE
  /\ userList' \in UserLists /\ userList'.target = l.target
  /\ userList'.state = (IF l.shown THEN "reloading" ELSE "loading")
  /\ userList'.shown = l.shown /\ userList'.version = l.version

\* A list that is asked for supersedes the readings before it.
LEMMA UserLoad ==
  ASSUME RequestsAssumption, UserInv, NEW l \in UserLists, NEW target \in Targets, loadUsers(l, target)
  PROVE  UserReading(l, target)
  <1> DEFINE a == [target |-> target, corrected |-> FALSE]
  <1>1. a \in UserAbout /\ a.target = target /\ a.corrected = FALSE
    BY DEF UserAbout
  <1>2. userReqs' = Asked(userReqs, a) /\ userList' = [l EXCEPT !.state = IF l.shown THEN "reloading" ELSE "loading"]
    BY DEF loadUsers
  <1> HIDE DEF a
  <1>3. /\ InFlight(userReqs', UserAbout) /\ Wanted(userReqs')
        /\ \A q \in userReqs' : q.mine => q.stage = "sent" /\ q.about.target = target /\ q.about.corrected = FALSE
    BY <1>1, <1>2, AskedRequests DEF UserInv, UserTypes
  <1> QED
    BY <1>2, <1>3 DEF UserLists, UserReading

\* Whatever the page lets go of is gone with it.
LEMMA UserLeaves ==
  ASSUME RequestsAssumption, UserInv, UsersGone, UNCHANGED users, askedUsers' \in Targets
  PROVE  UserInv'
  <1>1. InFlight(userReqs', UserAbout) /\ ~Wanted(userReqs') /\ InFlight(rolesReqs', {"roles"}) /\ ~Wanted(rolesReqs')
    BY NoRequests DEF UsersGone
  <1>2. NoUserList \in UserLists /\ 0 \in Versions
    BY DEF RequestsAssumption, NoUserList, UserLists, Versions, Targets
  <1>3. UserTypes'
    BY <1>1, <1>2 DEF UserInv, UserTypes, UsersGone, NoUserDialog, NoUserOp
  <1>4. UserTies' /\ UserFresh' /\ UserAsked'
    BY <1>1 DEF UserInv, UserTypes, UserTies, UserFresh, UserAsked, UsersGone, NoUserList, NoUserDialog, NoUserOp, Versions
  <1> QED
    BY <1>3, <1>4 DEF UserInv

\* A page or a search is asked for: no dialog is open.
LEMMA UserAsks ==
  ASSUME RequestsAssumption, UserInv, NEW l \in UserLists, NEW target \in Targets, loadUsers(l, target), askedUsers' = target,
         userDialog.kind = "none", userOp.stage = "none", UNCHANGED <<users, userDialog, userOp, rolesReqs>>, ownUsers' \in {ownUsers, 0},
         l.shown /\ target = "wrong" => l.version >= ownUsers'
  PROVE  UserInv'
  <1> USE DEF UserReading
  <1>0. UserReading(l, target)
    BY UserLoad
  <1>1. UserTypes'
    BY <1>0 DEF UserInv, UserTypes, RequestsAssumption, Versions
  <1>2. UserTies'
    BY <1>0 DEF UserInv, UserTypes, UserTies
  <1>3. UserFresh'
    BY <1>0 DEF UserInv, UserTypes, UserTies, UserFresh, Versions
  <1>4. UserAsked'
    BY <1>0 DEF UserInv, UserTypes, UserTies, UserAsked
  <1> QED
    BY <1>1, <1>2, <1>3, <1>4 DEF UserInv

\* The list is read again once the answer of an operation is there, or was lost.
LEMMA UserReloads ==
  ASSUME RequestsAssumption, UserInv, reloadUsers, userOp.stage # "none", userOp' = NoUserOp,
         userDialog' \in {NoUserDialog, [userDialog EXCEPT !.status = "notFound"], [userDialog EXCEPT !.status = "failed"]},
         userDialog.kind = "confirm" => userDialog' = NoUserDialog,
         UNCHANGED <<users, rolesReqs, ownUsers, askedUsers>>
  PROVE  UserInv'
  <1> USE DEF UserReading
  <1>1. userDialog.status = "submitting" /\ ~Wanted(rolesReqs) /\ userDialog.kind # "none"
    BY DEF UserInv, UserTies
  <1>2. UserReading(userList, userList.target)
    BY UserLoad DEF reloadUsers, UserInv, UserTypes, UserLists
  <1>3. UserTypes'
    BY <1>2 DEF UserInv, UserTypes, NoUserOp, NoUserDialog
  <1>4. UserTies'
    BY <1>1, <1>2 DEF UserInv, UserTypes, UserTies, NoUserOp, NoUserDialog
  <1>5. UserFresh'
    <2>1. userList.target # "wrong" /\ userList'.state # "loaded" /\ \A q \in userReqs' : q.mine => q.stage = "sent" /\ q.about.target # "wrong"
      BY <1>2 DEF UserInv, UserTypes, UserLists
    <2> QED
      BY <2>1 DEF UserInv, UserFresh
  <1>6. UserAsked'
    BY <1>1, <1>2 DEF UserInv, UserTypes, UserTies, UserAsked, NoUserDialog
  <1> QED
    BY <1>3, <1>4, <1>5, <1>6 DEF UserInv

\* What a reading in flight carries.
LEMMA UserRequest ==
  ASSUME UserInv, NEW q \in userReqs
  PROVE  /\ q.version \in Versions /\ q.about.target \in Targets /\ q.about.corrected \in BOOLEAN /\ q.mine \in BOOLEAN
         /\ q.stage \in {"sent", "served"}
  <1>1. q \in RequestsAbout(UserAbout)
    BY DEF UserInv, UserTypes, InFlight
  <1> QED
    BY <1>1 DEF RequestsAbout, UserAbout

\* The answer of a reading, whichever it is.
LEMMA UserAnswered ==
  ASSUME RequestsAssumption, UserInv, NEW q \in userReqs,
         UsersRead(q) \/ \E kind \in {"away", "refused", "lost"} : handleListFailure(q, kind)
  PROVE  UserInv'
  <1>1. /\ InFlight(userReqs \ {q}, UserAbout) /\ (q.mine => ~Wanted(userReqs \ {q}))
        /\ (~q.mine => (Wanted(userReqs \ {q}) <=> Wanted(userReqs)))
    BY AnsweredRequests DEF UserInv, UserTypes
  <1>2. \A p \in userReqs \ {q} : q.mine => ~p.mine
    BY DEF UserInv, UserTypes, InFlight
  <1>3. /\ q.version \in Versions /\ q.about.target \in Targets
        /\ userList \in UserLists /\ userList.target \in Targets \ {"wrong"}
    BY UserRequest DEF UserInv, UserTypes, UserLists
  <1>4. CASE ~q.mine /\ userReqs' = userReqs \ {q} /\ UNCHANGED <<users, userList, userDialog, userOp, rolesReqs, ownUsers, askedUsers>>
    BY <1>1, <1>4 DEF UserInv, UserTypes, UserTies, UserFresh, UserAsked
  <1>5. CASE q.mine /\ UsersRead(q)
    <2>1. /\ userReqs' = userReqs \ {q} /\ UNCHANGED <<users, userDialog, userOp, rolesReqs, ownUsers>>
          /\ userList' = [userList EXCEPT !.state = "loaded", !.shown = TRUE, !.version = q.version,
                                          !.target = q.about.target, !.refused = FALSE]
          /\ askedUsers' = IF q.about.corrected THEN "first" ELSE askedUsers
          /\ q.stage = "served" /\ q.about.target # "wrong"
      BY <1>5 DEF UsersRead
    <2>2. /\ userList' \in UserLists /\ userList'.state = "loaded" /\ userList'.shown /\ userList'.version = q.version
          /\ userList'.target = q.about.target
      BY <1>3, <2>1 DEF UserLists
    <2>3. UserTypes'
      BY <1>1, <2>1, <2>2 DEF UserInv, UserTypes, Targets
    <2>4. UserTies'
      BY <1>1, <1>5, <2>1, <2>2 DEF UserInv, UserTies
    <2>5. UserFresh'
      BY <1>2, <1>5, <2>1, <2>2 DEF UserInv, UserFresh
    <2>6. UserAsked'
      BY <1>2, <1>5, <2>1, <2>2 DEF UserInv, UserAsked
    <2> QED
      BY <2>3, <2>4, <2>5, <2>6 DEF UserInv
  <1>6. CASE q.mine /\ UsersGone /\ UNCHANGED users /\ askedUsers' \in Targets
    BY <1>6, UserLeaves
  <1>7. CASE /\ q.mine /\ userReqs' = userReqs \ {q} /\ UNCHANGED <<users, userDialog, userOp, rolesReqs, ownUsers>>
             /\ \/ /\ userList.shown /\ userList' = [userList EXCEPT !.state = "loaded", !.refused = TRUE]
                   /\ askedUsers' = userList.target /\ q.about.target = "wrong"
                \/ userList' = [userList EXCEPT !.state = "failed", !.shown = FALSE] /\ askedUsers' = askedUsers
    <2>1. /\ userList' \in UserLists /\ userList'.state \in {"loaded", "failed"} /\ (userList'.state = "loaded" <=> userList'.shown)
          /\ userList'.target = userList.target /\ userList'.version = userList.version
      <3>1. CASE userList' = [userList EXCEPT !.state = "loaded", !.refused = TRUE] /\ userList.shown
        BY <1>3, <3>1 DEF UserLists
      <3>2. CASE userList' = [userList EXCEPT !.state = "failed", !.shown = FALSE]
        BY <1>3, <3>2 DEF UserLists
      <3> QED
        BY <1>7, <3>1, <3>2
    <2>2. userList'.state = "loaded" => askedUsers' = userList.target /\ userList.shown /\ q.about.target = "wrong"
      <3>1. userList' = [userList EXCEPT !.state = "failed", !.shown = FALSE] => userList'.state = "failed"
        BY <1>3 DEF UserLists
      <3> QED
        BY <1>7, <3>1
    <2>3. userDialog.kind # "none" => askedUsers' = userList.target
      BY <1>7, <2>1 DEF UserInv, UserAsked
    <2>4. UserTypes'
      BY <1>1, <1>3, <1>7, <2>1 DEF UserInv, UserTypes
    <2>5. UserTies'
      BY <1>1, <1>7, <2>1 DEF UserInv, UserTies
    <2>6. UserFresh'
      BY <1>2, <1>7, <2>1, <2>2 DEF UserInv, UserFresh
    <2>7. UserAsked'
      BY <1>2, <1>7, <2>1, <2>2, <2>3 DEF UserInv, UserAsked
    <2> QED
      BY <2>4, <2>5, <2>6, <2>7 DEF UserInv
  <1> QED
    <2>1. CASE UsersRead(q)
      BY <1>4, <1>5, <2>1 DEF UsersRead
    <2>2. ASSUME NEW kind \in {"away", "refused", "lost"}, handleListFailure(q, kind) PROVE UserInv'
      BY <1>3, <1>4, <1>6, <1>7, <2>2 DEF handleListFailure, UserInv, UserTypes
    <2> QED
      BY <2>1, <2>2

\* Every step of the list of users keeps the invariant.
LEMMA UserStep ==
  ASSUME RequestsAssumption, UserInv, UserNext
  PROVE  UserInv'
  <1>1. /\ NoUserList \in UserLists /\ [NoUserList EXCEPT !.state = "loading"] \in UserLists
        /\ ~[NoUserList EXCEPT !.state = "loading"].shown
    <2>1. 0 \in Versions
      BY DEF RequestsAssumption, Versions
    <2> QED
      BY <2>1 DEF NoUserList, UserLists, Targets
  <1>2. /\ [userList EXCEPT !.refused = FALSE] \in UserLists
        /\ userList \in UserLists /\ userList.target \in Targets \ {"wrong"}
    BY DEF UserInv, UserTypes, UserLists
  <1>3. CASE OpenUsers
    <2>1. userDialog.kind = "none" /\ ~(userOp.stage # "none")
      BY <1>3 DEF OpenUsers, UserInv, UserTies
    <2> QED
      BY <1>1, <1>3, <2>1, UserAsks DEF OpenUsers, Targets
  <1>4. CASE submitSearch \/ clearSearch \/ retryUsers \/ (\E target \in Targets : goToUserPage(target))
    <2>1. /\ userDialog.kind = "none" /\ userOp.stage = "none"
          /\ UNCHANGED <<users, userDialog, userOp, rolesReqs, ownUsers>>
      BY <1>4 DEF submitSearch, clearSearch, retryUsers, goToUserPage, SearchBoxFree, PagerFree, UserPageFree, submittingUser
    <2>2. PICK l \in UserLists, target \in Targets :
             /\ loadUsers(l, target) /\ askedUsers' = target
             /\ target = "wrong" => l = userList /\ SearchBoxFree
      BY <1>2, <1>4 DEF submitSearch, clearSearch, retryUsers, goToUserPage, reloadUsers, Targets
    <2>3. SearchBoxFree /\ userList.shown => userList.version >= ownUsers
      BY <2>1 DEF SearchBoxFree, loadingUsers, UserInv, UserTies, UserFresh
    <2> QED
      BY <2>1, <2>2, <2>3, UserAsks
  <1>5. CASE LeaveUsers \/ OpRefusedAway
    BY <1>5, UserLeaves DEF LeaveUsers, OpRefusedAway, UserInv, UserTypes
  <1>6. CASE UsersChange
    BY <1>6 DEF UsersChange, UserInv, UserTypes, UserTies, UserFresh, UserAsked, Versions, RequestsAssumption
  <1>7. ASSUME NEW q \in userReqs, ServeUsers(q) PROVE UserInv'
    <2>1. /\ InFlight(userReqs', UserAbout) /\ (Wanted(userReqs') <=> Wanted(userReqs))
          /\ \A p \in userReqs' : p \in userReqs \/ (p.mine = q.mine /\ p.about = q.about /\ p.stage = "served" /\ p.version = users)
      BY <1>7, ServedRequests DEF ServeUsers, UserInv, UserTypes
    <2> QED
      BY <1>7, <2>1 DEF ServeUsers, UserInv, UserTypes, UserTies, UserFresh, UserAsked
  <1>8. ASSUME NEW q \in userReqs, EmptyPage(q) PROVE UserInv'
    <2>1. /\ InFlight(userReqs \ {q}, UserAbout) /\ (q.mine => ~Wanted(userReqs \ {q}))
          /\ (~q.mine => (Wanted(userReqs \ {q}) <=> Wanted(userReqs)))
      BY AnsweredRequests DEF UserInv, UserTypes
    <2> DEFINE a == [target |-> "first", corrected |-> TRUE]
    <2> DEFINE n == [Request(a) EXCEPT !.mine = TRUE]
    <2>2. /\ n \in RequestsAbout(UserAbout) /\ n.mine /\ n.stage = "sent"
          /\ n.about.target = "first" /\ n.about.corrected
      <3>1. a \in UserAbout /\ a.target = "first" /\ a.corrected
        BY DEF UserAbout, Targets
      <3> HIDE DEF a
      <3>2. Request(a) \in RequestsAbout(UserAbout) /\ Request(a).stage = "sent" /\ Request(a).about = a
        BY <3>1 DEF Request, RequestsAbout, Versions, RequestsAssumption
      <3> QED
        BY <3>1, <3>2 DEF RequestsAbout
    <2>3. userReqs' = (userReqs \ {q}) \cup (IF q.mine THEN {n} ELSE {}) /\ UNCHANGED <<users, userList, userDialog, userOp, rolesReqs, ownUsers, askedUsers>>
      BY <1>8 DEF EmptyPage
    <2> HIDE DEF n
    <2>4. InFlight(userReqs', UserAbout) /\ (Wanted(userReqs') <=> Wanted(userReqs))
      BY <2>1, <2>2, <2>3 DEF InFlight, Wanted
    <2>5. \A p \in userReqs' : p.mine => p = n \/ p \in userReqs
      BY <2>3
    <2>6. UserTypes' /\ UserTies'
      BY <2>3, <2>4 DEF UserInv, UserTypes, UserTies
    <2>7. UserFresh' /\ UserAsked'
      BY <2>2, <2>3, <2>5 DEF UserInv, UserFresh, UserAsked
    <2> QED
      BY <2>6, <2>7 DEF UserInv
  <1>9. ASSUME NEW q \in userReqs, UsersRead(q) \/ \E kind \in {"away", "refused", "lost"} : handleListFailure(q, kind) PROVE UserInv'
    BY <1>9, UserAnswered
  <1>10. CASE closeUserDialog
    BY <1>10, NoRequests DEF closeUserDialog, NoUserDialog, UserInv, UserTypes, UserTies, UserFresh, UserAsked
  <1>11. CASE confirmAction \/ saveEdit
    BY <1>11 DEF confirmAction, saveEdit, beginSubmit, ConfirmDialogFree, EditDialogFree, NoUserOp, UserInv, UserTypes, UserTies, UserFresh,
       UserAsked
  <1>12. CASE ServeUserOp
    <2>1. UserTypes' /\ UserTies'
      BY <1>12 DEF ServeUserOp, UserInv, UserTypes, UserTies, Versions, RequestsAssumption
    <2>2. UserFresh' /\ UserAsked'
      BY <1>12 DEF ServeUserOp, UserInv, UserTypes, UserTies, UserFresh, UserAsked, Versions
    <2> QED
      BY <2>1, <2>2 DEF UserInv
  <1>13. CASE OpDone
    BY <1>13, UserReloads DEF OpDone
  <1>14. ASSUME NEW lost \in BOOLEAN, OpFailed(lost) PROVE UserInv'
    <2>1. userOp.stage # "none" /\ userOp' = NoUserOp /\ UNCHANGED <<users, rolesReqs, ownUsers, askedUsers>>
          /\ userDialog.status = "submitting" /\ userDialog.kind # "none"
      BY <1>14 DEF OpFailed, UserInv, UserTies
    <2>2. CASE ~lost /\ userOp.result = "invalid"
      <3>1. userDialog' \in {NoUserDialog, [userDialog EXCEPT !.status = "open"]} /\ (userDialog.kind = "confirm" => userDialog' = NoUserDialog)
            /\ UNCHANGED <<userList, userReqs>>
        BY <1>14, <2>2 DEF OpFailed, AfterUserFailure
      <3>2. ~Wanted(rolesReqs) /\ userDialog'.status = "open" /\ (userDialog'.kind = "roles" => userDialog.kind = "roles")
        BY <2>1, <3>1 DEF UserInv, UserTypes, UserTies, NoUserDialog
      <3> QED
        BY <2>1, <2>2, <3>1 DEF UserInv, UserTypes, UserTies, UserFresh, UserAsked, NoUserOp, NoUserDialog
    <2>3. CASE lost \/ userOp.result # "invalid"
      BY <1>14, <2>1, <2>3, UserReloads DEF OpFailed, AfterUserFailure
    <2> QED
      BY <2>2, <2>3
  <1>15. ASSUME NEW row \in Rows, NEW action \in ROW_ACTION_KINDS, selectAction(row, action) PROVE UserInv'
    <2>1. /\ userList.state = "loaded" /\ userOp.stage = "none" /\ userDialog.kind = "none"
          /\ UNCHANGED <<users, userList, userReqs, userOp, ownUsers, askedUsers>>
      BY <1>15 DEF selectAction, RowActionsFree, UserPageFree, submittingUser, viewOf, UserInv, UserTypes, UserLists, UserTies
    <2>2. /\ InFlight(rolesReqs', {"roles"})
          /\ userDialog'.kind = "roles" <=> Wanted(rolesReqs')
          /\ userDialog'.kind \in {"confirm", "edit", "roles"} /\ userDialog'.status = "open" /\ userDialog'.row \in {"own", "other"}
          /\ userDialog' = [kind |-> userDialog'.kind, status |-> userDialog'.status, row |-> userDialog'.row]
      BY <1>15, <2>1, AskedRequests DEF selectAction, DialogOf, UserInv, UserTypes, UserTies
    <2> QED
      BY <2>1, <2>2 DEF UserInv, UserTypes, UserTies, UserFresh, UserAsked
  <1>16. ASSUME NEW q \in rolesReqs, ServeRoles(q) \/ \E ok \in BOOLEAN : RolesAnswered(q, ok) PROVE UserInv'
    <2>1. UNCHANGED <<users, userList, userReqs, userOp, ownUsers, askedUsers>>
      BY <1>16 DEF ServeRoles, RolesAnswered
    <2>2. CASE ServeRoles(q)
      <3>1. InFlight(rolesReqs', {"roles"}) /\ (Wanted(rolesReqs') <=> Wanted(rolesReqs)) /\ UNCHANGED userDialog
        BY <2>2, ServedRequests DEF ServeRoles, UserInv, UserTypes, Versions, RequestsAssumption
      <3> QED
        BY <2>1, <3>1 DEF UserInv, UserTypes, UserTies, UserFresh, UserAsked
    <2>3. ASSUME NEW ok \in BOOLEAN, RolesAnswered(q, ok) PROVE UserInv'
      <3>1. /\ InFlight(rolesReqs', {"roles"}) /\ (q.mine => ~Wanted(rolesReqs')) /\ (~q.mine => (Wanted(rolesReqs') <=> Wanted(rolesReqs)))
            /\ q.mine => Wanted(rolesReqs)
            /\ userDialog' = IF ~q.mine THEN userDialog ELSE [userDialog EXCEPT !.status = IF ok THEN "ready" ELSE "failed"]
        BY <2>3, AnsweredRequests DEF RolesAnswered, UserInv, UserTypes, Wanted
      <3> QED
        BY <2>1, <3>1 DEF UserInv, UserTypes, UserTies, UserFresh, UserAsked
    <2> QED
      BY <1>16, <2>2, <2>3
  <1> QED
    BY <1>3, <1>4, <1>5, <1>6, <1>7, <1>8, <1>9, <1>10, <1>11, <1>12, <1>13, <1>14, <1>15, <1>16 DEF UserNext

\* Nothing changes with what is not the page's.
LEMMA UserRests ==
  ASSUME UserInv, UNCHANGED userVars
  PROVE  UserInv'
  BY DEF userVars, UserInv, UserTypes, UserTies, UserFresh, UserAsked

\* What the runs check of the page.
LEMMA UserShows ==
  ASSUME UserInv
  PROVE  UserTypeOK /\ ListFollowsOwnOps /\ ShownIsAsked
  <1>1. UserTypeOK
    <2>1. userReqs \subseteq RequestsAbout([target : Targets, corrected : BOOLEAN]) /\ rolesReqs \subseteq RequestsAbout({"roles"})
      BY DEF UserInv, UserTypes, InFlight, UserAbout
    <2>2. userList \in [state : {"gone", "loading", "reloading", "loaded", "failed"}, shown : BOOLEAN,
                        version : Versions, target : Targets, refused : BOOLEAN]
      BY DEF UserInv, UserTypes, UserLists
    <2>3. userList.shown = (userList.state \in {"loaded", "reloading"}) /\ (userList.state \in {"loading", "reloading"}) = loadingUsers
      <3>1. userList.shown \in BOOLEAN /\ (userList.shown <=> userList.state \in {"loaded", "reloading"})
        BY <2>2 DEF UserInv, UserTies
      <3>2. (userList.state \in {"loading", "reloading"}) = Wanted(userReqs)
        <4>1. userList.state \in {"loading", "reloading"} <=> Wanted(userReqs)
          BY DEF UserInv, UserTies
        <4>2. Wanted(userReqs) \in BOOLEAN
          BY DEF Wanted
        <4> QED
          BY <4>1, <4>2
      <3> QED
        BY <3>1, <3>2 DEF loadingUsers
    <2>4. (userDialog.status = "submitting") = submittingUser
      BY DEF UserInv, UserTies, submittingUser
    <2>5. (userDialog.kind = "roles" /\ userDialog.status = "open") = Wanted(rolesReqs)
      BY DEF UserInv, UserTies, Wanted
    <2> QED
      BY <2>1, <2>2, <2>3, <2>4, <2>5 DEF UserInv, UserTypes, UserTies, UserTypeOK
  <1>2. ListFollowsOwnOps /\ ShownIsAsked
    BY DEF UserInv, UserTies, UserFresh, UserAsked, ListFollowsOwnOps, ShownIsAsked, UsersSettled, submittingUser
  <1> QED
    BY <1>1, <1>2

-----------------------------------------------------------------------------
(* The lists of groups and of roles *)

NamedAbout == [page : Pages, corrected : BOOLEAN]
NamedLists == [state : {"gone", "loading", "reloading", "loaded", "failed"}, shown : BOOLEAN, version : Versions, page : Pages]

NamedTypes ==
  /\ named \in Versions /\ ackedNamed \in Versions /\ askedPage \in Pages /\ namedList \in NamedLists
  /\ InFlight(namedReqs, NamedAbout) /\ afterClose \in BOOLEAN /\ namedDialog \in DialogKinds
  /\ namedOp \in [stage : {"none", "sent", "served"}, result : {"none", "done"} \cup Refusals]

\* A dialog is opened on a list that is read, and the reading after it waits until
\* it has closed.
NamedTies ==
  /\ namedList.shown <=> namedList.state \in {"loaded", "reloading"}
  /\ namedList.state \in {"loading", "reloading"} <=> Wanted(namedReqs)
  /\ namedOp.stage # "none" => namedDialog # "none"
  /\ namedOp.result # "none" => namedOp.stage # "none"
  /\ namedDialog # "none" => ~Wanted(namedReqs) /\ ~afterClose
  /\ namedDialog \in {"rename", "delete"} => namedList.shown
  /\ afterClose => ~Wanted(namedReqs)
  /\ namedList.state = "gone" => namedDialog = "none" /\ ~afterClose

NamedFresh ==
  /\ ackedNamed <= named
  /\ namedList.state = "loaded" /\ ~afterClose => namedList.version >= ackedNamed
  /\ \A q \in namedReqs : q.mine /\ q.stage = "served" => q.version >= ackedNamed
  /\ namedList.state = "loaded" => namedList.page = askedPage

NamedInv == NamedTypes /\ NamedTies /\ NamedFresh

\* Initially the invariant of the lists of groups and roles holds.
LEMMA NamedStart == ASSUME RequestsAssumption, NamedInit PROVE NamedInv
  <1>1. NoNamedList \in NamedLists /\ 0 \in Versions
    BY DEF RequestsAssumption, NoNamedList, NamedLists, Versions, Pages
  <1>2. NamedTypes
    BY <1>1, NoRequests DEF NamedInit, NamedTypes, NoNamedOp, Pages, DialogKinds
  <1>3. NamedTies /\ NamedFresh
    BY NoRequests DEF NamedInit, NamedTies, NamedFresh, NoNamedList, NoNamedOp
  <1> QED
    BY <1>2, <1>3 DEF NamedInv

\* The latest reading is the one that is wanted.
NamedReading(l) ==
  /\ InFlight(namedReqs', NamedAbout) /\ Wanted(namedReqs')
  /\ \A q \in namedReqs' : q.mine => q.stage = "sent"
  /\ namedList' \in NamedLists /\ (namedList'.shown <=> l.shown)
  /\ namedList'.state = (IF l.shown THEN "reloading" ELSE "loading")

\* A list that is asked for supersedes the readings before it.
LEMMA NamedLoad ==
  ASSUME RequestsAssumption, NamedInv, NEW l \in NamedLists, NEW p \in Pages, loadNamed(l, p)
  PROVE  NamedReading(l)
  <1> DEFINE a == [page |-> p, corrected |-> FALSE]
  <1>1. a \in NamedAbout
    BY DEF NamedAbout
  <1>2. namedReqs' = Asked(namedReqs, a) /\ namedList' = [l EXCEPT !.state = IF l.shown THEN "reloading" ELSE "loading"]
    BY DEF loadNamed
  <1> HIDE DEF a
  <1>3. /\ InFlight(namedReqs', NamedAbout) /\ Wanted(namedReqs')
        /\ \A q \in namedReqs' : q.mine => q.stage = "sent"
    BY <1>1, <1>2, AskedRequests DEF NamedInv, NamedTypes
  <1> QED
    BY <1>2, <1>3 DEF NamedLists, NamedReading

\* A page is read, with no dialog open.
LEMMA NamedAsks ==
  ASSUME RequestsAssumption, NamedInv, NEW l \in NamedLists, NEW p \in Pages, loadNamed(l, p), askedPage' = p,
         namedDialog = "none", ~afterClose', afterClose' \in BOOLEAN, UNCHANGED <<named, namedDialog, namedOp>>,
         ackedNamed' \in {ackedNamed, 0}
  PROVE  NamedInv'
  <1>1. NamedReading(l)
    BY NamedLoad
  <1>2. NamedTypes'
    BY <1>1 DEF NamedReading, NamedInv, NamedTypes, RequestsAssumption, Versions
  <1>3. NamedTies'
    BY <1>1 DEF NamedReading, NamedInv, NamedTypes, NamedTies
  <1>4. NamedFresh'
    BY <1>1 DEF NamedReading, NamedInv, NamedTypes, NamedFresh, Versions
  <1> QED
    BY <1>2, <1>3, <1>4 DEF NamedInv

\* Whatever the page lets go of is gone with it.
LEMMA NamedLeaves ==
  ASSUME RequestsAssumption, NamedInv, NamedGone, UNCHANGED <<named, askedPage>>
  PROVE  NamedInv'
  <1>1. InFlight(namedReqs', NamedAbout) /\ ~Wanted(namedReqs')
    BY DroppedRequests DEF NamedGone, NamedInv, NamedTypes
  <1>2. NoNamedList \in NamedLists /\ 0 \in Versions
    BY DEF RequestsAssumption, NoNamedList, NamedLists, Versions, Pages
  <1>3. NamedTypes'
    BY <1>1, <1>2 DEF NamedInv, NamedTypes, NamedGone, NoNamedOp, DialogKinds
  <1>4. NamedTies' /\ NamedFresh'
    BY <1>1 DEF NamedInv, NamedTypes, NamedTies, NamedFresh, NamedGone, NoNamedList, NoNamedOp, Versions, Wanted
  <1> QED
    BY <1>3, <1>4 DEF NamedInv

\* What is known of a reading in flight.
LEMMA NamedRequest ==
  ASSUME NamedInv, NEW q \in namedReqs
  PROVE  /\ q.version \in Versions /\ q.about.page \in Pages /\ q.mine \in BOOLEAN
         /\ InFlight(namedReqs \ {q}, NamedAbout) /\ (q.mine => ~Wanted(namedReqs \ {q}))
         /\ (~q.mine => (Wanted(namedReqs \ {q}) <=> Wanted(namedReqs)))
         /\ \A p \in namedReqs \ {q} : q.mine => ~p.mine
  <1>1. q \in RequestsAbout(NamedAbout) /\ \A p \in namedReqs \ {q} : q.mine => ~p.mine
    BY DEF NamedInv, NamedTypes, InFlight
  <1>2. q.version \in Versions /\ q.about.page \in Pages /\ q.mine \in BOOLEAN
    BY <1>1 DEF RequestsAbout, NamedAbout
  <1> QED
    BY <1>1, <1>2, AnsweredRequests DEF NamedInv, NamedTypes

\* An answer that is not wanted changes nothing; the one that is wanted is of the page that was asked for.
LEMMA NamedAnswered ==
  ASSUME RequestsAssumption, NamedInv, NEW q \in namedReqs, NamedRead(q) \/ \E away \in BOOLEAN : NamedReadFails(q, away)
  PROVE  NamedInv'
  <1>1. /\ InFlight(namedReqs \ {q}, NamedAbout) /\ (q.mine => ~Wanted(namedReqs \ {q}))
        /\ (~q.mine => (Wanted(namedReqs \ {q}) <=> Wanted(namedReqs)))
        /\ q.version \in Versions /\ q.about.page \in Pages
        /\ \A p \in namedReqs \ {q} : q.mine => ~p.mine
    BY NamedRequest
  <1>2. CASE ~q.mine /\ namedReqs' = namedReqs \ {q} /\ UNCHANGED <<named, namedList, namedDialog, namedOp, afterClose, ackedNamed, askedPage>>
    BY <1>1, <1>2 DEF NamedInv, NamedTypes, NamedTies, NamedFresh
  <1>3. ASSUME q.mine PROVE namedDialog = "none" /\ ~afterClose /\ namedList.state \in {"loading", "reloading"}
    BY <1>3 DEF NamedInv, NamedTies, Wanted
  <1>4. CASE q.mine /\ NamedRead(q)
    <2>1. /\ namedReqs' = namedReqs \ {q} /\ UNCHANGED <<named, namedDialog, namedOp, afterClose, ackedNamed>>
          /\ namedList' = [state |-> "loaded", shown |-> TRUE, version |-> q.version, page |-> q.about.page]
          /\ askedPage' = q.about.page
          /\ q.stage = "served"
      BY <1>4 DEF NamedRead
    <2>2. /\ namedList' \in NamedLists /\ namedList'.state = "loaded" /\ namedList'.shown /\ namedList'.version = q.version
          /\ namedList'.page = q.about.page
      BY <1>1, <2>1 DEF NamedLists
    <2>3. NamedTypes'
      BY <1>1, <2>1, <2>2 DEF NamedInv, NamedTypes
    <2>4. NamedTies'
      BY <1>1, <1>3, <1>4, <2>1, <2>2 DEF NamedInv, NamedTies
    <2>5. NamedFresh'
      BY <1>1, <1>4, <2>1, <2>2 DEF NamedInv, NamedFresh
    <2> QED
      BY <2>3, <2>4, <2>5 DEF NamedInv
  <1>5. CASE q.mine /\ NamedGone /\ UNCHANGED <<named, askedPage>>
    BY <1>5, NamedLeaves
  <1>6. CASE /\ q.mine /\ namedReqs' = namedReqs \ {q} /\ UNCHANGED <<named, namedDialog, namedOp, afterClose, ackedNamed, askedPage>>
             /\ namedList' = [namedList EXCEPT !.state = "failed", !.shown = FALSE]
    <2>1. namedList' \in NamedLists /\ namedList'.state = "failed" /\ ~namedList'.shown
      BY <1>6 DEF NamedInv, NamedTypes, NamedLists
    <2>2. NamedTypes'
      BY <1>1, <1>6, <2>1 DEF NamedInv, NamedTypes
    <2>3. NamedTies' /\ NamedFresh'
      BY <1>1, <1>3, <1>6, <2>1 DEF NamedInv, NamedTies, NamedFresh
    <2> QED
      BY <2>2, <2>3 DEF NamedInv
  <1> QED
    BY <1>2, <1>4, <1>5, <1>6 DEF NamedRead, NamedReadFails

\* Every step of the lists of groups and roles keeps the invariant.
LEMMA NamedStep ==
  ASSUME RequestsAssumption, NamedInv, NamedNext
  PROVE  NamedInv'
  <1>1. NoNamedList \in NamedLists /\ namedList \in NamedLists /\ namedList.page \in Pages
    <2>1. 0 \in Versions
      BY DEF RequestsAssumption, Versions
    <2> QED
      BY <2>1 DEF NoNamedList, NamedLists, Pages, NamedInv, NamedTypes
  <1>2. CASE OpenNamed
    <2>1. namedDialog = "none" /\ ~afterClose
      BY <1>2 DEF OpenNamed, NamedInv, NamedTies
    <2> QED
      BY <1>1, <1>2, <2>1, NamedAsks DEF OpenNamed, Pages, NamedInv, NamedTypes
  <1>3. CASE retryNamed \/ (\E p \in Pages : goToNamedPage(p))
    <2>1. /\ namedDialog = "none" /\ ~afterClose
          /\ UNCHANGED <<named, namedDialog, namedOp, afterClose, ackedNamed>>
      BY <1>3 DEF retryNamed, goToNamedPage, NamedPageFree
    <2>2. PICK p \in Pages : loadNamed(namedList, p) /\ askedPage' = p
      BY <1>1, <1>3 DEF retryNamed, goToNamedPage
    <2> QED
      BY <1>1, <2>1, <2>2, NamedAsks DEF NamedInv, NamedTypes
  <1>4. CASE LeaveNamed \/ NamedRefusedAway
    BY <1>4, NamedLeaves DEF LeaveNamed, NamedRefusedAway
  <1>5. CASE NamedChange
    BY <1>5 DEF NamedChange, NamedInv, NamedTypes, NamedTies, NamedFresh, Versions, RequestsAssumption
  <1>6. CASE closeNamedDialog
    BY <1>6 DEF closeNamedDialog, NameDialogFree, DeleteDialogFree, submittingNamed, DialogKinds, NamedInv, NamedTypes, NamedTies, NamedFresh
  <1>7. CASE submitName \/ confirmDelete
    BY <1>7 DEF submitName, confirmDelete, NameDialogFree, DeleteDialogFree, NoNamedOp, NamedInv, NamedTypes, NamedTies, NamedFresh
  <1>8. CASE ServeNamedOp
    <2>1. UNCHANGED <<namedList, namedReqs, namedDialog, afterClose, ackedNamed, askedPage>> /\ namedDialog # "none"
      BY <1>8 DEF ServeNamedOp, NamedInv, NamedTies
    <2>2. named' \in Versions /\ named' >= named /\ namedOp'.stage = "served" /\ namedOp' \in [stage : {"none", "sent", "served"}, result : {"none", "done"} \cup Refusals]
      BY <1>8 DEF ServeNamedOp, NamedInv, NamedTypes, Versions, RequestsAssumption
    <2> QED
      BY <2>1, <2>2 DEF NamedInv, NamedTypes, NamedTies, NamedFresh, Versions
  <1>9. CASE NamedDone
    <2>1. ~Wanted(namedReqs)
      BY <1>9 DEF NamedDone, NamedInv, NamedTies
    <2>2. namedList.state # "gone"
      BY <1>9 DEF NamedDone, NamedInv, NamedTies
    <2>3. NamedTypes'
      BY <1>9 DEF NamedDone, NoNamedOp, DialogKinds, NamedInv, NamedTypes
    <2>4. NamedTies' /\ NamedFresh'
      BY <1>9, <2>1, <2>2 DEF NamedDone, NoNamedOp, NamedInv, NamedTypes, NamedTies, NamedFresh, Wanted, Versions
    <2> QED
      BY <2>3, <2>4 DEF NamedInv
  <1>10. ASSUME NEW lost \in BOOLEAN, NamedFailed(lost) PROVE NamedInv'
    <2>1. /\ namedDialog # "none" /\ namedDialog' \in {namedDialog, "none"} /\ afterClose' \in BOOLEAN
          /\ afterClose' => namedDialog' = "none"
          /\ namedOp' = NoNamedOp /\ UNCHANGED <<named, namedList, namedReqs, ackedNamed, askedPage>>
      BY <1>10 DEF NamedFailed, submittingNamed, NamedInv, NamedTies
    <2> QED
      BY <2>1 DEF NoNamedOp, DialogKinds, NamedInv, NamedTypes, NamedTies, NamedFresh
  <1>11. CASE ReloadAfterClose
    <2>1. namedDialog = "none"
      BY <1>11 DEF ReloadAfterClose, NamedInv, NamedTies
    <2> QED
      BY <1>1, <1>11, <2>1, NamedAsks DEF ReloadAfterClose
  <1>12. ASSUME NEW kind \in DialogKinds, openDialog(kind) PROVE NamedInv'
    BY <1>12 DEF openDialog, NamedPageFree, RowFree, loadingNamed, DialogKinds, NamedInv, NamedTypes, NamedTies, NamedFresh
  <1>13. ASSUME NEW q \in namedReqs, ServeNamed(q) PROVE NamedInv'
    <2>1. /\ InFlight(namedReqs', NamedAbout) /\ (Wanted(namedReqs') <=> Wanted(namedReqs))
          /\ \A p \in namedReqs' : p \in namedReqs \/ (p.mine = q.mine /\ p.version = named)
      BY <1>13, ServedRequests DEF ServeNamed, NamedInv, NamedTypes
    <2> QED
      BY <1>13, <2>1 DEF ServeNamed, NamedInv, NamedTypes, NamedTies, NamedFresh
  <1>14. ASSUME NEW q \in namedReqs, EmptyNamedPage(q) PROVE NamedInv'
    <2> DEFINE a == [page |-> "first", corrected |-> TRUE]
    <2>1. Request(a) \in RequestsAbout(NamedAbout) /\ Request(a).mine /\ Request(a).stage = "sent"
      <3>1. a \in NamedAbout
        BY DEF NamedAbout, Pages
      <3> HIDE DEF a
      <3> QED
        BY <3>1 DEF Request, RequestsAbout, Versions, RequestsAssumption
    <2>2. namedReqs' = (namedReqs \ {q}) \cup (IF q.mine THEN {Request(a)} ELSE {})
          /\ UNCHANGED <<named, namedList, namedDialog, namedOp, afterClose, ackedNamed, askedPage>>
      BY <1>14 DEF EmptyNamedPage
    <2> HIDE DEF a
    <2>3. InFlight(namedReqs', NamedAbout) /\ (Wanted(namedReqs') <=> Wanted(namedReqs))
      BY <2>1, <2>2, NamedRequest DEF InFlight, Wanted
    <2>4. \A p \in namedReqs' : p = Request(a) \/ p \in namedReqs
      BY <2>2
    <2>5. NamedTypes' /\ NamedTies'
      BY <2>2, <2>3 DEF NamedInv, NamedTypes, NamedTies
    <2>6. NamedFresh'
      BY <2>1, <2>2, <2>4 DEF NamedInv, NamedFresh
    <2> QED
      BY <2>5, <2>6 DEF NamedInv
  <1>15. ASSUME NEW q \in namedReqs, NamedRead(q) \/ \E away \in BOOLEAN : NamedReadFails(q, away) PROVE NamedInv'
    BY <1>15, NamedAnswered
  <1> QED
    BY <1>2, <1>3, <1>4, <1>5, <1>6, <1>7, <1>8, <1>9, <1>10, <1>11, <1>12, <1>13, <1>14, <1>15 DEF NamedNext

\* Nothing changes with what is not the page's.
LEMMA NamedRests ==
  ASSUME NamedInv, UNCHANGED namedVars
  PROVE  NamedInv'
  BY DEF namedVars, NamedInv, NamedTypes, NamedTies, NamedFresh

\* What the runs check of the page.
LEMMA NamedShows ==
  ASSUME NamedInv
  PROVE  NamedTypeOK /\ ActsOnOwnChanges /\ NamedPageIsAsked
  <1>1. NamedTypeOK
    <2>1. namedReqs \subseteq RequestsAbout([page : Pages, corrected : BOOLEAN])
      BY DEF NamedInv, NamedTypes, InFlight, NamedAbout
    <2>2. namedList \in [state : {"gone", "loading", "reloading", "loaded", "failed"}, shown : BOOLEAN, version : Versions, page : Pages]
      BY DEF NamedInv, NamedTypes, NamedLists
    <2>3. namedList.shown = (namedList.state \in {"loaded", "reloading"})
      BY <2>2 DEF NamedInv, NamedTies
    <2>4. (namedList.state \in {"loading", "reloading"}) = loadingNamed
      <3>1. namedList.state \in {"loading", "reloading"} <=> Wanted(namedReqs)
        BY DEF NamedInv, NamedTies
      <3>2. Wanted(namedReqs) \in BOOLEAN
        BY DEF Wanted
      <3> QED
        BY <3>1, <3>2 DEF loadingNamed
    <2> QED
      BY <2>1, <2>2, <2>3, <2>4 DEF NamedInv, NamedTypes, NamedTies, NamedTypeOK, submittingNamed, loadingNamed
  <1>2. ActsOnOwnChanges /\ NamedPageIsAsked
    BY DEF NamedInv, NamedTypes, NamedLists, NamedTies, NamedFresh, ActsOnOwnChanges, NamedPageIsAsked, NamedPageFree, loadingNamed
  <1> QED
    BY <1>1, <1>2

-----------------------------------------------------------------------------
(* The page of a group *)

GrpRows == [exists : BOOLEAN, version : Versions]
GrpLoadSet == [mine : BOOLEAN, detail : {"sent", "ok", "missing"}, version : Versions, roles : {"sent", "ok", "missing"}]
GrpPages == [phase : {"gone", "loading", "ready", "missing", "load-error"}, version : Versions, roles : {"loaded", "failed"},
             dialog : {"none", "rename", "picker"}, stale : BOOLEAN, learned : BOOLEAN]
GrpOps == [kind : {"none", "rename", "add", "remove"}, stage : {"none", "sent", "served"},
           result : {"none", "done", "missing", "noChange", "other"}]

GrpTypes ==
  /\ grp \in GrpRows /\ ackedGrp \in Versions /\ grpPage \in GrpPages /\ grpOp \in GrpOps
  /\ grpLoads \subseteq GrpLoadSet /\ noting \in 0..2 /\ grpAfter \in BOOLEAN
  /\ \A p, q \in grpLoads : p.mine /\ q.mine => p = q

\* A page known to be gone lets its operation go on; any other has it in its dialog.
GrpTies ==
  /\ grpPage.phase = "loading" => loadingGrp
  /\ grpPage.dialog # "none" => grpPage.phase = "ready"
  /\ ~grpPage.learned =>
       /\ grpPage.dialog = "rename" => grpOp.kind \in {"none", "rename"}
       /\ grpPage.dialog = "picker" => grpOp.kind \in {"none", "add"}
       /\ grpPage.dialog = "none" => grpOp.kind \in {"none", "remove"}
  /\ grpPage.phase = "gone" => ~loadingGrp /\ grpOp.kind = "none" /\ noting = 0 /\ ~grpAfter

\* With nothing left to be read, what is shown was read after the operations the
\* page heard done; and so is what is on its way.
GrpRead == ~grpPage.learned /\ grpPage.dialog # "picker" /\ noting = 0 /\ ~grpAfter
GrpFresh ==
  /\ ackedGrp <= grp.version
  /\ GrpRead /\ grpPage.phase = "ready" /\ ~loadingGrp /\ ~grpPage.stale => grpPage.version >= ackedGrp
  /\ GrpRead => \A q \in grpLoads : q.mine /\ q.detail # "sent" => q.version >= ackedGrp

GrpInv == GrpTypes /\ GrpTies /\ GrpFresh

\* Initially the invariant of the page of a group holds.
LEMMA GrpStart == ASSUME RequestsAssumption, GrpInit PROVE GrpInv
  <1>1. 0 \in Versions
    BY DEF RequestsAssumption, Versions
  <1>2. GrpTypes
    <2>1. NoGrpPage \in GrpPages /\ NoGrpOp \in GrpOps
      BY <1>1 DEF NoGrpPage, NoGrpOp, GrpPages, GrpOps
    <2>2. grp \in GrpRows
      BY <1>1 DEF GrpInit, GrpRows
    <2> QED
      <3>1. grpLoads \subseteq GrpLoadSet /\ \A p, q \in grpLoads : p.mine /\ q.mine => p = q
        BY DEF GrpInit
      <3>2. noting \in 0..2
        BY DEF GrpInit
      <3>4. grpAfter \in BOOLEAN
        BY DEF GrpInit
      <3>3. grpPage \in GrpPages /\ grpOp \in GrpOps /\ ackedGrp \in Versions
        BY <1>1, <2>1 DEF GrpInit
      <3> QED
        BY <2>2, <3>1, <3>2, <3>3, <3>4 DEF GrpTypes
  <1>3. GrpTies /\ GrpFresh
    BY DEF GrpInit, GrpTies, GrpFresh, NoGrpPage, NoGrpOp, loadingGrp
  <1> QED
    BY <1>2, <1>3 DEF GrpInv

\* The readings of a page that is left are wanted no longer.
LEMMA GrpDrops ==
  ASSUME GrpInv
  PROVE  DropGrp(grpLoads) \subseteq GrpLoadSet /\ \A q \in DropGrp(grpLoads) : ~q.mine
  <1>1. ASSUME NEW q \in grpLoads
        PROVE  [q EXCEPT !.mine = FALSE] \in GrpLoadSet /\ ~[q EXCEPT !.mine = FALSE].mine
    <2>1. q \in GrpLoadSet
      BY DEF GrpInv, GrpTypes
    <2> QED
      BY <2>1 DEF GrpLoadSet
  <1> QED
    BY <1>1 DEF DropGrp

\* The page is read anew.
GrpReading ==
  /\ grpLoads' \subseteq GrpLoadSet /\ loadingGrp'
  /\ \A p, q \in grpLoads' : p.mine /\ q.mine => p = q
  /\ \A q \in grpLoads' : q.mine => q.detail = "sent"

\* The page that is read again waits for its last reading only.
LEMMA GrpAsks == ASSUME RequestsAssumption, GrpInv, loadGrp PROVE GrpReading
  <1>1. GrpLoad \in GrpLoadSet /\ GrpLoad.mine /\ GrpLoad.detail = "sent"
    <2>1. 0 \in Versions
      BY DEF RequestsAssumption, Versions
    <2> QED
      BY <2>1 DEF GrpLoad, GrpLoadSet
  <1>2. grpLoads' = DropGrp(grpLoads) \cup {GrpLoad}
    BY DEF loadGrp
  <1> QED
    BY <1>1, <1>2, GrpDrops DEF GrpReading, loadingGrp

\* A group that is not there, or is left, waits for nothing.
LEMMA GrpLeaves ==
  ASSUME RequestsAssumption, GrpInv, GrpGone, UNCHANGED grp
  PROVE  GrpInv'
  <1>1. grpLoads' \subseteq GrpLoadSet /\ \A q \in grpLoads' : ~q.mine
    BY GrpDrops DEF GrpGone
  <1>2. ~loadingGrp'
    BY <1>1 DEF loadingGrp
  <1>3. 0 \in Versions
    BY DEF RequestsAssumption, Versions
  <1>4. GrpTypes'
    <2>1. NoGrpPage \in GrpPages /\ NoGrpOp \in GrpOps
      BY <1>3 DEF NoGrpPage, NoGrpOp, GrpPages, GrpOps
    <2> QED
      <3>1. grp' \in GrpRows /\ \A p, q \in grpLoads' : p.mine /\ q.mine => p = q
        BY <1>1 DEF GrpInv, GrpTypes
      <3>2. noting' \in 0..2
        BY DEF GrpGone
      <3>4. grpAfter' \in BOOLEAN
        BY DEF GrpGone
      <3>3. grpPage' \in GrpPages /\ grpOp' \in GrpOps /\ ackedGrp' \in Versions
        BY <1>3, <2>1 DEF GrpGone
      <3> QED
        BY <1>1, <3>1, <3>2, <3>3, <3>4 DEF GrpTypes
  <1>5. GrpTies'
    BY <1>2 DEF GrpGone, GrpTies, NoGrpPage, NoGrpOp
  <1>6. GrpFresh'
    <2>1. ackedGrp' = 0 /\ grpPage'.phase = "gone" /\ grp.version \in Nat
      BY DEF GrpGone, NoGrpPage, GrpInv, GrpTypes, GrpRows, Versions
    <2> QED
      BY <1>1, <2>1 DEF GrpFresh
  <1> QED
    BY <1>4, <1>5, <1>6 DEF GrpInv

\* A reading is under way, or has to be: nothing is said of what is shown.
LEMMA GrpReads ==
  ASSUME RequestsAssumption, GrpInv, loadGrp, GrpTypes', ackedGrp' <= grp.version',
         grpPage'.dialog # "none" => grpPage'.phase = "ready",
         ~grpPage'.learned =>
           /\ grpPage'.dialog = "rename" => grpOp'.kind \in {"none", "rename"}
           /\ grpPage'.dialog = "picker" => grpOp'.kind \in {"none", "add"}
           /\ grpPage'.dialog = "none" => grpOp'.kind \in {"none", "remove"},
         grpPage'.phase # "gone"
  PROVE  GrpInv'
  <1>1. GrpReading
    BY GrpAsks
  <1>2. GrpTies'
    BY <1>1 DEF GrpTies, GrpReading
  <1>3. GrpFresh'
    BY <1>1 DEF GrpFresh, GrpReading
  <1> QED
    BY <1>2, <1>3 DEF GrpInv

\* The server answers one of the two calls of a reading.
LEMMA GrpServed ==
  ASSUME RequestsAssumption, GrpInv, NEW q \in grpLoads, ServeDetail(q) \/ ServeGroupRoles(q)
  PROVE  GrpInv'
  <1>1. q \in GrpLoadSet /\ grp.version \in Versions /\ Found \in {"ok", "missing"}
    BY DEF GrpInv, GrpTypes, GrpRows, Found
  <1>2. PICK s \in GrpLoadSet :
           /\ grpLoads' = (grpLoads \ {q}) \cup {s} /\ s.mine = q.mine
           /\ (s.version = q.version /\ s.detail = q.detail) \/ s.version = grp.version
    <2>1. CASE ServeDetail(q)
      <3> DEFINE s == [q EXCEPT !.detail = Found, !.version = grp.version]
      <3>1. s \in GrpLoadSet /\ s.mine = q.mine /\ s.version = grp.version
        BY <1>1 DEF GrpLoadSet
      <3> QED
        BY <2>1, <3>1 DEF ServeDetail
    <2>2. CASE ServeGroupRoles(q)
      <3> DEFINE s == [q EXCEPT !.roles = Found]
      <3>1. s \in GrpLoadSet /\ s.mine = q.mine /\ s.version = q.version /\ s.detail = q.detail
        BY <1>1 DEF GrpLoadSet
      <3> QED
        BY <2>2, <3>1 DEF ServeGroupRoles
    <2> QED
      BY <2>1, <2>2
  <1>3. UNCHANGED <<grp, grpPage, grpOp, noting, grpAfter, ackedGrp>>
    BY DEF ServeDetail, ServeGroupRoles
  <1>4. loadingGrp' <=> loadingGrp
    BY <1>2 DEF loadingGrp
  <1>5. GrpTypes'
    BY <1>2, <1>3 DEF GrpInv, GrpTypes
  <1>6. GrpTies'
    BY <1>3, <1>4 DEF GrpInv, GrpTies
  <1>7. GrpFresh'
    BY <1>2, <1>3, <1>4 DEF GrpInv, GrpFresh, GrpRead
  <1> QED
    BY <1>5, <1>6, <1>7 DEF GrpInv

\* What becomes of the page with the two answers.
LEMMA GrpAfterLoad ==
  ASSUME GrpInv, NEW q \in grpLoads, q.mine, NEW x \in BOOLEAN, NEW y \in BOOLEAN, NEW p, p = AfterGrpLoad(q, x, y), x \/ q.detail # "sent"
  PROVE  /\ p \in GrpPages /\ p.phase \in {"ready", "missing", "load-error"}
         /\ p.dialog \in {"none", grpPage.dialog} /\ (p.dialog # "none" => p.phase = "ready")
         /\ ~p.learned => ~grpPage.learned /\ p.dialog = grpPage.dialog
         /\ ~p.stale /\ ~p.learned => p.version = q.version /\ q.detail # "sent"
  <1>1. q.version \in Versions /\ grpPage \in GrpPages
    BY DEF GrpInv, GrpTypes, GrpLoadSet
  <1>2. Missing(grpPage) \in GrpPages /\ Missing(grpPage).phase = "missing" /\ Missing(grpPage).dialog = "none" /\ Missing(grpPage).learned
    BY <1>1 DEF Missing, GrpPages
  <1>3. grpPage.dialog # "none" => grpPage.phase = "ready"
    BY DEF GrpInv, GrpTies
  <1>4. CASE x
    <2>1. p = [grpPage EXCEPT !.phase = IF @ = "ready" THEN @ ELSE "load-error", !.stale = TRUE]
      BY <1>4 DEF AfterGrpLoad
    <2> QED
      BY <1>1, <1>3, <2>1 DEF GrpPages
  <1>5. CASE ~x /\ q.detail = "missing"
    <2>1. p = Missing(grpPage)
      BY <1>5 DEF AfterGrpLoad
    <2> QED
      BY <1>2, <2>1
  <1>6. CASE ~x /\ q.detail # "missing"
    <2> DEFINE r == IF ~y /\ q.roles = "missing" THEN Missing(grpPage) ELSE [grpPage EXCEPT !.roles = IF y THEN "failed" ELSE "loaded"]
    <2>1. p = [r EXCEPT !.phase = "ready", !.version = q.version, !.stale = FALSE]
      BY <1>6 DEF AfterGrpLoad
    <2>2. r \in GrpPages /\ ((r.dialog = "none" /\ r.learned) \/ (r.dialog = grpPage.dialog /\ (r.learned <=> grpPage.learned)))
      <3>1. CASE ~y /\ q.roles = "missing"
        <4>1. r = Missing(grpPage)
          BY <3>1
        <4> HIDE DEF r
        <4> QED
          <5>1. r \in GrpPages /\ r.dialog = "none" /\ r.learned
            BY <1>2, <4>1
          <5> QED
            BY <5>1
      <3>2. CASE ~(~y /\ q.roles = "missing")
        BY <1>1, <3>2 DEF GrpPages
      <3> QED
        BY <3>1, <3>2
    <2> HIDE DEF r
    <2> QED
      BY <1>1, <1>6, <2>1, <2>2 DEF GrpPages
  <1> QED
    BY <1>4, <1>5, <1>6

\* A reading that is done shows the group as the server had it, unless it was superseded.
LEMMA GrpAnswered ==
  ASSUME RequestsAssumption, GrpInv, NEW q \in grpLoads, NEW x \in BOOLEAN, NEW y \in BOOLEAN, GrpLoaded(q, x, y)
  PROVE  GrpInv'
  <1>1. /\ grpLoads' = grpLoads \ {q} /\ UNCHANGED <<grp, grpOp, noting, grpAfter, ackedGrp>> /\ (x \/ q.detail # "sent")
        /\ grpPage' = IF q.mine THEN AfterGrpLoad(q, x, y) ELSE grpPage
    BY DEF GrpLoaded
  <1>2. \A p \in grpLoads' : p \in grpLoads /\ (q.mine => ~p.mine)
    BY <1>1 DEF GrpInv, GrpTypes
  <1>3. CASE ~q.mine
    <2>1. loadingGrp' <=> loadingGrp
      BY <1>1, <1>3 DEF loadingGrp
    <2> QED
      BY <1>1, <1>2, <1>3, <2>1 DEF GrpInv, GrpTypes, GrpTies, GrpFresh, GrpRead
  <1>4. CASE q.mine
    <2>1. /\ grpPage' \in GrpPages /\ grpPage'.phase \in {"ready", "missing", "load-error"}
          /\ grpPage'.dialog \in {"none", grpPage.dialog} /\ (grpPage'.dialog # "none" => grpPage'.phase = "ready")
          /\ ~grpPage'.learned => ~grpPage.learned /\ grpPage'.dialog = grpPage.dialog
          /\ ~grpPage'.stale /\ ~grpPage'.learned => grpPage'.version = q.version /\ q.detail # "sent"
      BY <1>1, <1>4, GrpAfterLoad
    <2>2. ~loadingGrp' /\ loadingGrp
      BY <1>2, <1>4 DEF loadingGrp
    <2>3. GrpTypes'
      BY <1>1, <1>2, <2>1 DEF GrpInv, GrpTypes
    <2>4. GrpTies'
      BY <1>1, <2>1, <2>2 DEF GrpInv, GrpTies
    <2>5. GrpFresh'
      BY <1>1, <1>2, <1>4, <2>1 DEF GrpInv, GrpFresh, GrpRead
    <2> QED
      BY <2>3, <2>4, <2>5 DEF GrpInv
  <1> QED
    BY <1>3, <1>4

\* The page and its operation alone.
LEMMA GrpAlone ==
  ASSUME GrpInv, GrpTypes', UNCHANGED <<grp, grpLoads>>, ackedGrp' \in {ackedGrp, grp.version}, grpPage.phase # "gone",
         grpPage'.phase = grpPage.phase, grpPage'.version = grpPage.version, grpPage'.stale <=> grpPage.stale,
         grpPage'.learned <=> grpPage.learned, grpPage'.dialog # "none" => grpPage'.phase = "ready",
         ~grpPage'.learned =>
           /\ grpPage'.dialog = "rename" => grpOp'.kind \in {"none", "rename"}
           /\ grpPage'.dialog = "picker" => grpOp'.kind \in {"none", "add"}
           /\ grpPage'.dialog = "none" => grpOp'.kind \in {"none", "remove"},
         GrpRead' => GrpRead /\ ackedGrp' = ackedGrp
  PROVE  GrpInv'
  <1>1. loadingGrp' <=> loadingGrp
    BY DEF loadingGrp
  <1>2. GrpTies'
    BY <1>1 DEF GrpInv, GrpTies
  <1>3. GrpFresh'
    BY <1>1 DEF GrpInv, GrpTypes, GrpFresh, Versions
  <1> QED
    BY <1>2, <1>3 DEF GrpInv

\* The group on the server is older with every change.
LEMMA GrpGrows ==
  ASSUME RequestsAssumption, GrpInv,
         \/ grp.version < MaxVersion /\ grp' = [grp EXCEPT !.version = @ + 1]
         \/ grp' = [grp EXCEPT !.exists = FALSE]
         \/ UNCHANGED grp
  PROVE  grp' \in GrpRows /\ grp'.version >= grp.version
  <1>1. grp \in GrpRows /\ grp.version \in Nat /\ grp.version \in Versions
    BY DEF GrpInv, GrpTypes, GrpRows, Versions
  <1>2. CASE grp.version < MaxVersion /\ grp' = [grp EXCEPT !.version = @ + 1]
    <2>1. grp.version + 1 \in Versions
      BY <1>1, <1>2 DEF Versions, RequestsAssumption
    <2>2. grp' = [grp EXCEPT !.version = grp.version + 1]
      BY <1>2
    <2> QED
      BY <1>1, <2>1, <2>2 DEF GrpRows
  <1>3. CASE grp' = [grp EXCEPT !.exists = FALSE]
    <2>1. grp' \in GrpRows /\ grp'.version = grp.version
      BY <1>1, <1>3 DEF GrpRows
    <2> QED
      BY <1>1, <2>1
  <1> QED
    BY <1>1, <1>2, <1>3

\* Every step of the page of a group keeps the invariant.
LEMMA GrpStep ==
  ASSUME RequestsAssumption, GrpInv, GrpNext
  PROVE  GrpInv'
  <1>0. NoGrpOp \in GrpOps /\ 0 \in Versions /\ grpPage \in GrpPages /\ Missing(grpPage) \in GrpPages
    <2>1. NoGrpOp \in GrpOps /\ 0 \in Versions /\ grpPage \in GrpPages
      BY DEF NoGrpOp, GrpOps, RequestsAssumption, Versions, GrpInv, GrpTypes
    <2> QED
      BY <2>1 DEF Missing, GrpPages
  <1>1. CASE LeaveGrp
    BY <1>1, GrpLeaves DEF LeaveGrp
  <1>2. CASE GrpChange
    <2>1. grp' \in GrpRows /\ grp'.version >= grp.version
      BY <1>2, GrpGrows DEF GrpChange
    <2>2. UNCHANGED <<grpPage, grpLoads, grpOp, noting, grpAfter, ackedGrp, loadingGrp, GrpRead>>
      BY <1>2 DEF GrpChange, loadingGrp, GrpRead
    <2> QED
      BY <2>1, <2>2 DEF GrpInv, GrpTypes, GrpTies, GrpFresh, GrpRows, Versions
  <1>3. CASE retryGrp
    <2>1. grpPage' \in GrpPages /\ grpPage'.phase = "loading" /\ grpPage'.dialog = "none" /\ (grpPage'.learned <=> grpPage.learned)
          /\ grpPage.dialog = "none" /\ UNCHANGED <<grp, grpOp, noting, grpAfter, ackedGrp>> /\ loadGrp
      BY <1>0, <1>3 DEF retryGrp, GrpPages, GrpInv, GrpTies
    <2>2. GrpTypes'
      BY <2>1, GrpAsks DEF GrpReading, GrpInv, GrpTypes
    <2> QED
      BY <2>1, <2>2, GrpReads DEF GrpInv, GrpTies, GrpFresh
  <1>4. CASE openRename \/ openPicker \/ closeRename \/ closePicker
    <2>1. /\ grpPage' \in GrpPages /\ grpPage.phase = "ready" /\ grpPage'.phase = "ready" /\ grpPage'.version = grpPage.version
          /\ (grpPage'.stale <=> grpPage.stale) /\ (grpPage'.learned <=> grpPage.learned)
          /\ UNCHANGED <<grp, grpLoads, grpOp, noting, ackedGrp>> /\ grpAfter' \in BOOLEAN
      BY <1>0, <1>4 DEF openRename, openPicker, closeRename, closePicker, GrpPageFree, GrpPages, GrpInv, GrpTypes, GrpTies
    <2>2. GrpTypes'
      BY <2>1 DEF GrpInv, GrpTypes
    <2>3. /\ ~grpPage.learned =>
               /\ grpPage'.dialog = "rename" => grpOp.kind \in {"none", "rename"}
               /\ grpPage'.dialog = "picker" => grpOp.kind \in {"none", "add"}
               /\ grpPage'.dialog = "none" => grpOp.kind \in {"none", "remove"}
          /\ GrpRead' => GrpRead
      BY <1>0, <1>4, <2>1 DEF openRename, openPicker, closeRename, closePicker, GrpPageFree, submittingGrp, GrpPages, GrpRead, GrpInv, GrpTies
    <2> QED
      BY <2>1, <2>2, <2>3, GrpAlone
  <1>5. ASSUME NEW kind \in {"rename", "add", "remove"}, SendGrp(kind), UNCHANGED <<grp, grpPage, grpLoads, noting, grpAfter, ackedGrp>>,
               grpPage.phase = "ready",
               kind = "rename" => grpPage.dialog = "rename", kind = "add" => grpPage.dialog = "picker", kind = "remove" => grpPage.dialog = "none"
        PROVE  GrpInv'
    <2>1. grpOp' \in GrpOps /\ grpOp'.kind = kind
      BY <1>0, <1>5 DEF SendGrp, GrpOps
    <2>2. GrpTypes'
      BY <1>5, <2>1 DEF GrpInv, GrpTypes
    <2> QED
      BY <1>5, <2>1, <2>2, GrpAlone DEF GrpRead
  <1>6. CASE submitGrpName \/ removeMember \/ add
    BY <1>5, <1>6 DEF submitGrpName, removeMember, add, GrpPageFree, GrpInv, GrpTies
  <1>7. CASE ServeGrpOp
    <2>1. grpOp' \in GrpOps /\ grpOp'.kind = grpOp.kind /\ UNCHANGED <<grpPage, grpLoads, noting, grpAfter, ackedGrp, loadingGrp, GrpRead>>
      BY <1>7 DEF ServeGrpOp, GrpInv, GrpTypes, GrpOps, loadingGrp, GrpRead
    <2>2. grp' \in GrpRows /\ grp'.version >= grp.version
      BY <1>7, GrpGrows DEF ServeGrpOp
    <2> QED
      BY <2>1, <2>2 DEF GrpInv, GrpTypes, GrpTies, GrpFresh, GrpRows, Versions
  <1>8. CASE RenameDone \/ AddDone \/ RemoveDone
    <2>1. /\ grpPage' \in GrpPages /\ grpPage'.phase = grpPage.phase /\ grpPage'.version = grpPage.version
          /\ (grpPage'.stale <=> grpPage.stale) /\ (grpPage'.learned <=> grpPage.learned) /\ grpPage'.dialog \in {"none", grpPage.dialog}
          /\ UNCHANGED <<grp, grpLoads>> /\ ackedGrp' = grp.version /\ grpOp' = NoGrpOp /\ noting' \in 0..2 /\ grpAfter' \in BOOLEAN
      <3>1. CASE RenameDone
        BY <1>0, <3>1 DEF RenameDone, GrpPages, GrpInv, GrpTypes
      <3>2. CASE AddDone \/ RemoveDone
        BY <1>0, <3>2 DEF AddDone, RemoveDone, GrpInv, GrpTypes
      <3> QED
        BY <1>8, <3>1, <3>2
    <2>2. GrpTypes'
      <3>1. grp.version \in Versions
        BY DEF GrpInv, GrpTypes, GrpRows
      <3> QED
        BY <1>0, <2>1, <3>1 DEF GrpInv, GrpTypes
    <2>3. grpPage.phase # "gone"
      BY <1>8 DEF RenameDone, AddDone, RemoveDone, GrpInv, GrpTies
    <2>4. ~GrpRead'
      <3>1. AddDone => grpPage.learned \/ grpPage.dialog = "picker"
        BY <1>0 DEF AddDone, GrpInv, GrpTies, GrpPages
      <3>2. RemoveDone => noting' # 0
        BY DEF RemoveDone, GrpInv, GrpTypes
      <3> QED
        BY <1>8, <3>1, <3>2 DEF RenameDone, AddDone, GrpRead
    <2>5. grpPage'.dialog # "none" => grpPage'.phase = "ready"
      BY <2>1 DEF GrpInv, GrpTies
    <2> QED
      BY <2>1, <2>2, <2>3, <2>4, <2>5, GrpAlone DEF NoGrpOp
  <1>9. CASE removalNotice \/ ReloadGrpAfterClose
    <2>1. /\ loadGrp /\ UNCHANGED <<grp, grpPage, grpOp, ackedGrp>> /\ noting' \in 0..2 /\ grpAfter' \in BOOLEAN /\ grpPage.phase # "gone"
      <3>1. noting \in {0, 1, 2} /\ grpAfter \in BOOLEAN /\ (grpPage.phase = "gone" => noting = 0 /\ ~grpAfter)
        BY DEF GrpInv, GrpTypes, GrpTies
      <3>2. CASE removalNotice
        BY <3>1, <3>2 DEF removalNotice
      <3>3. CASE ReloadGrpAfterClose
        <4>1. grpAfter /\ grpAfter' = FALSE /\ loadGrp /\ UNCHANGED <<grp, grpPage, grpOp, noting, ackedGrp>>
          BY <3>3 DEF ReloadGrpAfterClose
        <4>2. noting' \in 0..2
          BY <3>1, <4>1
        <4>3. grpAfter' \in BOOLEAN
          BY <4>1
        <4> QED
          BY <3>1, <4>1, <4>2, <4>3
      <3> QED
        BY <1>9, <3>2, <3>3
    <2>2. GrpTypes'
      BY <2>1, GrpAsks DEF GrpReading, GrpInv, GrpTypes
    <2> QED
      BY <2>1, <2>2, GrpReads DEF GrpInv, GrpTies, GrpFresh
  <1>10. ASSUME NEW b \in BOOLEAN, OpenGrp(b) PROVE GrpInv'
    <2>1. /\ grpPage' \in GrpPages /\ grpPage'.phase = (IF b THEN "loading" ELSE "missing") /\ grpPage'.dialog = "none" /\ ~grpPage'.learned
          /\ grpPage'.version = 0 /\ ackedGrp' = 0 /\ UNCHANGED <<grp, grpOp, noting, grpAfter>> /\ grpPage.phase = "gone"
      BY <1>0, <1>10 DEF OpenGrp, NoGrpPage, GrpPages
    <2>2. grpOp.kind = "none" /\ ~loadingGrp /\ grp.version \in Nat
      BY <2>1 DEF GrpInv, GrpTypes, GrpRows, Versions, GrpTies
    <2>3. CASE b
      <3>1. loadGrp
        BY <1>10, <2>3 DEF OpenGrp
      <3>2. GrpTypes'
        BY <1>0, <2>1, <3>1, GrpAsks DEF GrpReading, GrpInv, GrpTypes
      <3> QED
        BY <2>1, <2>2, <2>3, <3>1, <3>2, GrpReads
    <2>4. CASE ~b
      <3>1. UNCHANGED grpLoads /\ \A q \in grpLoads : ~q.mine
        BY <1>10, <2>2, <2>4 DEF OpenGrp, loadingGrp
      <3>2. GrpTypes'
        BY <1>0, <2>1, <3>1 DEF GrpInv, GrpTypes
      <3>3. GrpTies' /\ GrpFresh'
        BY <2>1, <2>2, <2>4, <3>1 DEF GrpTies, GrpFresh, loadingGrp
      <3> QED
        BY <3>2, <3>3 DEF GrpInv
    <2> QED
      BY <2>3, <2>4
  <1>11. ASSUME NEW b \in BOOLEAN, GrpOpFails(b) PROVE GrpInv'
    <2>1. grpOp' = NoGrpOp /\ grpOp'.kind = "none" /\ UNCHANGED <<grp, noting, grpAfter, ackedGrp>> /\ grpPage.phase # "gone"
      BY <1>11 DEF GrpOpFails, NoGrpOp, GrpInv, GrpTies
    <2>2. CASE grpPage' = Missing(grpPage) /\ grpLoads' = DropGrp(grpLoads)
      <3>1. grpPage'.phase = "missing" /\ grpPage'.dialog = "none" /\ grpPage'.learned
        BY <1>0, <2>2 DEF Missing, GrpPages
      <3>2. GrpTypes'
        BY <1>0, <2>1, <2>2, GrpDrops DEF GrpInv, GrpTypes
      <3> QED
        BY <2>1, <2>2, <3>1, <3>2 DEF GrpInv, GrpTies, GrpFresh, GrpRead
    <2>3. CASE UNCHANGED grpPage /\ loadGrp
      <3>1. GrpTypes'
        BY <1>0, <2>1, <2>3, GrpAsks DEF GrpReading, GrpInv, GrpTypes
      <3> QED
        BY <2>1, <2>3, <3>1, GrpReads DEF GrpInv, GrpTies, GrpFresh
    <2>4. CASE UNCHANGED <<grpPage, grpLoads>>
      <3>1. GrpTypes'
        BY <1>0, <2>1, <2>4 DEF GrpInv, GrpTypes
      <3> QED
        BY <2>1, <2>4, <3>1, GrpAlone DEF GrpRead, GrpInv, GrpTies
    <2> QED
      BY <1>11, <2>2, <2>3, <2>4 DEF GrpOpFails
  <1>12. ASSUME NEW q \in grpLoads, ServeDetail(q) \/ ServeGroupRoles(q) PROVE GrpInv'
    BY <1>12, GrpServed
  <1>13. ASSUME NEW q \in grpLoads, NEW x \in BOOLEAN, NEW y \in BOOLEAN, GrpLoaded(q, x, y) PROVE GrpInv'
    BY <1>13, GrpAnswered
  <1> QED
    BY <1>1, <1>2, <1>3, <1>4, <1>6, <1>7, <1>8, <1>9, <1>10, <1>11, <1>12, <1>13 DEF GrpNext

\* Nothing changes with what is not the page's.
LEMMA GrpRests ==
  ASSUME GrpInv, UNCHANGED grpVars
  PROVE  GrpInv'
  BY DEF grpVars, GrpInv, GrpTypes, GrpTies, GrpFresh, GrpRead, loadingGrp

\* What the runs check of the page.
LEMMA GrpShows ==
  ASSUME GrpInv
  PROVE  GrpTypeOK /\ GroupFollowsOwnOps
  <1>1. grp \in [exists : BOOLEAN, version : Versions]
    BY DEF GrpInv, GrpTypes, GrpRows
  <1>2. GrpTypeOK
    BY <1>1 DEF GrpInv, GrpTypes, GrpTies, GrpTypeOK, GrpPages, GrpLoadSet, GrpOps
  <1>3. GroupFollowsOwnOps
    BY DEF GrpInv, GrpFresh, GrpRead, GroupFollowsOwnOps
  <1> QED
    BY <1>2, <1>3

-----------------------------------------------------------------------------
(* The page of a role *)

RoleReadings == [of : RoleIds, said : {"none", "role", "gone"}, latest : BOOLEAN]

\* One answer counts, that of the address, while the page is loading; what the
\* server said of a role that is gone stays true.
RolePageInv ==
  /\ exists \subseteq RoleIds /\ roleAddress \in RoleIds \cup {NoRole} /\ role \in RoleIds \cup {NoRole}
  /\ rolePhase \in {"loading", "ready", "missing", "load-error"} /\ readings \subseteq RoleReadings
  /\ \A q \in readings : q.latest => q.of = roleAddress /\ rolePhase = "loading"
  /\ \A p, q \in readings : p.latest /\ q.latest => p = q
  /\ rolePhase = "loading" => \E q \in readings : q.latest
  /\ \A q \in readings : q.said = "gone" => q.of \notin exists
  /\ ReadyIsOfTheAddress

\* Initially the invariant of the page of a role holds.
LEMMA RolePageStart == ASSUME RolePageAssumption, RolePageInit PROVE RolePageInv
  <1>1. CASE roleAddress = NoRole
    BY <1>1 DEF RolePageAssumption, RolePageInit, RolePageInv, ReadyIsOfTheAddress
  <1>2. CASE roleAddress # NoRole
    <2>1. Ask(roleAddress) \in RoleReadings /\ Ask(roleAddress).of = roleAddress /\ Ask(roleAddress).said = "none" /\ Ask(roleAddress).latest
      BY <1>2 DEF RolePageInit, Ask, RoleReadings
    <2> QED
      BY <1>2, <2>1 DEF RolePageInit, RolePageInv, ReadyIsOfTheAddress
  <1> QED
    BY <1>1, <1>2

\* A reading that was superseded may say what it wants.
LEMMA RoleInvalidated ==
  ASSUME RolePageInv
  PROVE  /\ Invalidated \subseteq RoleReadings
         /\ \A q \in Invalidated : ~q.latest /\ (q.said = "gone" => q.of \notin exists)
  <1>1. ASSUME NEW q \in readings
        PROVE  /\ [q EXCEPT !.latest = FALSE] \in RoleReadings /\ ~[q EXCEPT !.latest = FALSE].latest
               /\ [q EXCEPT !.latest = FALSE].said = "gone" => [q EXCEPT !.latest = FALSE].of \notin exists
    <2>1. q \in RoleReadings /\ (q.said = "gone" => q.of \notin exists)
      BY DEF RolePageInv
    <2>2. [q EXCEPT !.latest = FALSE].said = q.said /\ [q EXCEPT !.latest = FALSE].of = q.of
      BY <2>1 DEF RoleReadings
    <2>3. [q EXCEPT !.latest = FALSE] \in RoleReadings /\ ~[q EXCEPT !.latest = FALSE].latest
      BY <2>1 DEF RoleReadings
    <2> QED
      BY <2>1, <2>2, <2>3
  <1> QED
    BY <1>1 DEF Invalidated

\* The role of the address is asked for, and only that answer counts.
LEMMA RoleAsks ==
  ASSUME RolePageInv, rolePhase' = "loading", readings' = Invalidated \cup {Ask(roleAddress')}, roleAddress' \in RoleIds,
         UNCHANGED <<exists, role>>
  PROVE  RolePageInv'
  <1>1. Ask(roleAddress') \in RoleReadings /\ Ask(roleAddress').of = roleAddress' /\ Ask(roleAddress').said = "none" /\ Ask(roleAddress').latest
    BY DEF Ask, RoleReadings
  <1> QED
    BY <1>1, RoleInvalidated DEF RolePageInv, ReadyIsOfTheAddress

\* Every step of the page of a role keeps the invariant.
LEMMA RolePageStep ==
  ASSUME RolePageAssumption, RolePageInv, RolePageNext
  PROVE  RolePageInv'
  <1>1. CASE RoleDeleted
    BY <1>1 DEF RoleDeleted, RolePageInv, ReadyIsOfTheAddress
  <1>2. ASSUME NEW to \in RoleIds \cup {NoRole}, NavigateRole(to) PROVE RolePageInv'
    <2>1. CASE to = NoRole
      BY <1>2, <2>1, RoleInvalidated DEF NavigateRole, RolePageAssumption, RolePageInv, ReadyIsOfTheAddress
    <2>2. CASE to # NoRole
      BY <1>2, <2>2, RoleAsks DEF NavigateRole
    <2> QED
      BY <2>1, <2>2
  <1>3. CASE retryRole
    <2>1. roleAddress \in RoleIds
      BY <1>3 DEF retryRole, Shows, RolePageInv
    <2> QED
      BY <1>3, <2>1, RoleAsks DEF retryRole
  <1>4. CASE markMissing
    BY <1>4, RoleInvalidated DEF markMissing, RolePageInv, ReadyIsOfTheAddress
  <1>5. ASSUME NEW q \in readings, Serve(q) PROVE RolePageInv'
    <2> DEFINE s == [q EXCEPT !.said = IF q.of \in exists THEN "role" ELSE "gone"]
    <2>1. q \in RoleReadings
      BY DEF RolePageInv
    <2>2. s \in RoleReadings /\ s.of = q.of /\ (s.latest <=> q.latest) /\ (s.said = "gone" => s.of \notin exists)
      BY <2>1 DEF RoleReadings
    <2>3. readings' = (readings \ {q}) \cup {s} /\ UNCHANGED <<exists, roleAddress, rolePhase, role>>
      BY <1>5 DEF Serve
    <2> HIDE DEF s
    <2> QED
      BY <2>2, <2>3 DEF RolePageInv, ReadyIsOfTheAddress
  <1>6. ASSUME NEW q \in readings, RoleRead(q) \/ RoleGone(q) \/ RoleFails(q) PROVE RolePageInv'
    <2>1. readings' = readings \ {q} /\ UNCHANGED <<exists, roleAddress>>
      BY <1>6 DEF RoleRead, RoleGone, RoleFails
    <2>2. CASE ~q.latest
      <3>1. UNCHANGED <<rolePhase, role>>
        BY <1>6, <2>2 DEF RoleRead, RoleGone, RoleFails
      <3> QED
        BY <2>1, <2>2, <3>1 DEF RolePageInv, ReadyIsOfTheAddress
    <2>3. CASE q.latest
      <3>1. q.of = roleAddress /\ q.of \in RoleIds /\ (q.said = "gone" => roleAddress \notin exists) /\ \A p \in readings' : ~p.latest
        BY <2>1, <2>3 DEF RolePageInv, RoleReadings
      <3>2. \/ rolePhase' = "ready" /\ role' = roleAddress
            \/ rolePhase' = "missing" /\ role' = role /\ roleAddress \notin exists
            \/ rolePhase' = "load-error" /\ role' = role
        BY <1>6, <2>3, <3>1 DEF RoleRead, RoleGone, RoleFails
      <3> QED
        BY <2>1, <3>1, <3>2 DEF RolePageInv, ReadyIsOfTheAddress
    <2> QED
      BY <2>2, <2>3
  <1> QED
    BY <1>1, <1>2, <1>3, <1>4, <1>5, <1>6 DEF RolePageNext

\* Nothing changes with what is not the page's.
LEMMA RolePageRests ==
  ASSUME RolePageInv, UNCHANGED rolePageVars
  PROVE  RolePageInv'
  BY DEF rolePageVars, RolePageInv, ReadyIsOfTheAddress

\* What the runs check of the page.
LEMMA RolePageShows ==
  ASSUME RolePageInv
  PROVE  RolePageTypeOK /\ ReadyIsOfTheAddress
  BY DEF RolePageInv, RolePageTypeOK

-----------------------------------------------------------------------------
(* The permissions of a role *)

ColumnAbout == [of : {"t", "u"}, inDsl : BOOLEAN, retain : BOOLEAN]
PermRows == [version : Versions, dsl : BOOLEAN, gone : {{}, {"tc"}}]
PermColumns == [phase : {"idle", "loading", "loaded", "failed"}, of : {"none", "t", "u"}, version : Versions, inDsl : BOOLEAN]
PermPages == [phase : {"gone", "loading", "noDsl", "ready", "load-error"}, selected : Scopes \cup {"none"},
              pending : Scopes \cup {"none"}, tables : {"none", "shown"}, columns : PermColumns, prefetch : BOOLEAN]
PermOps == [kind : {"none", "save", "clear"}, stage : {"none", "sent", "served"}, entries : SUBSET Targets1,
            result : {"none", "done", "noChange", "notInDsl", "other"}, scope : Scopes \cup {"none"}]
Retainings == [on : BOOLEAN, waits : SUBSET {"schemas", "tables", "columns"}, fresh : SUBSET Targets1]

PermTypes ==
  /\ perms \in PermRows /\ permPage \in PermPages /\ permOp \in PermOps /\ retaining \in Retainings
  /\ schemaReqs \subseteq RequestsAbout(BOOLEAN) /\ InFlight(columnReqs, ColumnAbout)
  /\ tableReqs \subseteq RequestsAbout({"tree", "refresh"}) /\ draft \subseteq Targets1 /\ ackedPerm \in Versions

\* Nothing is selected, edited or saved before the schemas were read for the first
\* time, and they are read for the first time only while nothing is.
PermTies ==
  /\ permPage.pending # "none" => permOp.kind = "none" /\ permPage.pending # permPage.selected
  /\ permPage.phase \in {"gone", "loading", "load-error"} =>
       permPage.pending = "none" /\ permOp.kind = "none" /\ permPage.columns.phase \notin {"loading", "loaded"}
  /\ permPage.phase = "ready" \/ permPage.pending # "none" \/ permOp.kind # "none" => permPage.selected # "none"
  /\ \A q \in schemaReqs : IF q.about THEN permPage.phase = "loading" ELSE permPage.selected # "none" /\ permPage.phase \in {"noDsl", "ready"}
  /\ permPage.columns.phase = "loading" <=> Wanted(columnReqs)
  /\ permOp.stage = "sent" \/ permOp.result # "none" => permOp.kind # "none"
  /\ \A p, q \in schemaReqs : p = q

\* The columns shown, and those on their way, are of the table that is selected,
\* and read after the operations the page heard done.
PermFresh ==
  /\ ackedPerm <= perms.version
  /\ ColumnsFollow
  /\ \A q \in columnReqs : q.mine => q.about.of = permPage.selected /\ (q.stage = "served" => q.version >= ackedPerm)
  /\ SaveMatchesSelection

PermInv == PermTypes /\ PermTies /\ PermFresh

\* The empty values are values of their kinds.
LEMMA PermNothing ==
  ASSUME RequestsAssumption
  PROVE  NoColumns \in PermColumns /\ NoPermPage \in PermPages /\ NoPermOp \in PermOps /\ NotRetaining \in Retainings
  <1>1. NoColumns \in PermColumns
    <2>1. 0 \in Versions
      BY DEF RequestsAssumption, Versions
    <2> QED
      BY <2>1 DEF NoColumns, PermColumns
  <1>2. NoPermPage \in PermPages
    BY <1>1 DEF NoPermPage, PermPages
  <1>3. NoPermOp \in PermOps
    BY DEF NoPermOp, PermOps
  <1>4. NotRetaining \in Retainings
    BY DEF NotRetaining, Retainings
  <1> QED
    BY <1>1, <1>2, <1>3, <1>4

\* Initially the invariant of the permissions of a role holds.
LEMMA PermStart == ASSUME RequestsAssumption, PermInit PROVE PermInv
  <1>1. perms.version = 0 /\ perms \in PermRows /\ 0 \in Versions
    BY DEF PermInit, PermRows, Versions, RequestsAssumption
  <1>2. PermTypes
    BY <1>1, PermNothing, NoRequests DEF PermInit, PermTypes
  <1>3. PermTies
    BY NoRequests DEF PermInit, PermTies, NoPermPage, NoColumns, NoPermOp
  <1>4. PermFresh
    BY <1>1 DEF PermInit, PermFresh, ColumnsFollow, SaveMatchesSelection, NoPermPage, NoColumns, NoPermOp
  <1> QED
    BY <1>2, <1>3, <1>4 DEF PermInv

\* The columns of what is selected are asked for, or there are none.
PermReading(p) ==
  /\ permPage' \in PermPages /\ permPage'.phase = p.phase /\ permPage'.selected = p.selected /\ permPage'.pending = p.pending
  /\ permPage'.columns.phase \in {"idle", "loading"}
  /\ InFlight(columnReqs', ColumnAbout) /\ (permPage'.columns.phase = "loading" <=> Wanted(columnReqs'))
  /\ \A q \in columnReqs' : q.mine => q.about.of = p.selected /\ q.stage = "sent"

\* The columns that are asked for are those of the selected part.
LEMMA PermAsks ==
  ASSUME RequestsAssumption, PermInv, NEW p \in PermPages, p.selected # "none", NEW retain \in BOOLEAN, loadColumns(p, p.selected, retain)
  PROVE  PermReading(p)
  <1>1. CASE p.selected = "s"
    <2>1. permPage' = [p EXCEPT !.columns = NoColumns] /\ columnReqs' = Dropped(columnReqs)
      BY <1>1 DEF loadColumns
    <2>2. InFlight(columnReqs', ColumnAbout) /\ ~Wanted(columnReqs')
      BY <2>1, DroppedRequests DEF PermInv, PermTypes
    <2>3. /\ permPage' \in PermPages /\ permPage'.phase = p.phase /\ permPage'.selected = p.selected /\ permPage'.pending = p.pending
          /\ permPage'.columns = NoColumns
      BY <2>1, PermNothing DEF PermPages
    <2> QED
      BY <2>2, <2>3 DEF PermReading, NoColumns, Wanted
  <1>2. CASE p.selected # "s"
    <2> DEFINE a == [of |-> p.selected, inDsl |-> TRUE, retain |-> retain]
    <2>1. permPage' = [p EXCEPT !.columns.phase = "loading"] /\ columnReqs' = Asked(columnReqs, a)
      BY <1>2 DEF loadColumns
    <2>2. a \in ColumnAbout /\ a.of = p.selected
      BY <1>2 DEF ColumnAbout, PermPages, Scopes
    <2> HIDE DEF a
    <2>3. /\ InFlight(columnReqs', ColumnAbout) /\ Wanted(columnReqs')
          /\ \A q \in columnReqs' : q.mine => q.about.of = p.selected /\ q.stage = "sent"
      BY <2>1, <2>2, AskedRequests DEF PermInv, PermTypes
    <2>4. p.columns \in PermColumns /\ [p.columns EXCEPT !.phase = "loading"] \in PermColumns
      BY DEF PermPages, PermColumns
    <2>5. [p.columns EXCEPT !.phase = "loading"].phase = "loading"
      BY <2>4 DEF PermColumns
    <2>6. permPage' = [p EXCEPT !.columns = [p.columns EXCEPT !.phase = "loading"]]
      BY <2>1
    <2>7. /\ permPage' \in PermPages /\ permPage'.phase = p.phase /\ permPage'.selected = p.selected /\ permPage'.pending = p.pending
          /\ permPage'.columns.phase = "loading"
      BY <2>4, <2>5, <2>6 DEF PermPages
    <2> QED
      BY <2>3, <2>7 DEF PermReading
  <1> QED
    BY <1>1, <1>2

\* A call for the tables: what it is about matters to nothing here.
LEMMA PermTables ==
  ASSUME RequestsAssumption, PermInv, NEW why \in {"tree", "refresh"}, loadTables(why)
  PROVE  tableReqs' \subseteq RequestsAbout({"tree", "refresh"})
  <1>1. Request(why) \in RequestsAbout({"tree", "refresh"})
    BY DEF Request, RequestsAbout, Versions, RequestsAssumption
  <1> QED
    BY <1>1 DEF loadTables, PermInv, PermTypes

\* One reading of the schemas is in flight, and it knows whether it is the first.
LEMMA PermSchemas ==
  ASSUME RequestsAssumption, NEW first \in BOOLEAN, loadSchemas(first)
  PROVE  schemaReqs' \subseteq RequestsAbout(BOOLEAN) /\ (\A q \in schemaReqs' : q.about <=> first) /\ \A p, q \in schemaReqs' : p = q
  <1>1. Request(first) \in RequestsAbout(BOOLEAN) /\ (Request(first).about <=> first)
    BY DEF Request, RequestsAbout, Versions, RequestsAssumption
  <1> QED
    BY <1>1 DEF loadSchemas

\* A part that is settled leaves the wait for the others as it was.
LEMMA PermSettled ==
  ASSUME PermInv, NEW part, NEW found \in SUBSET Targets1, Settled(part, found)
  PROVE  retaining' \in Retainings
  <1>1. retaining \in Retainings
    BY DEF PermInv, PermTypes
  <1>2. CASE part \in retaining.waits
    <2>1. retaining' = [retaining EXCEPT !.waits = retaining.waits \ {part}, !.fresh = retaining.fresh \cup found]
      BY <1>2 DEF Settled
    <2>2. retaining.waits \ {part} \in SUBSET {"schemas", "tables", "columns"} /\ retaining.fresh \cup found \in SUBSET Targets1
      BY <1>1 DEF Retainings
    <2> QED
      BY <1>1, <2>1, <2>2 DEF Retainings
  <1> QED
    BY <1>1, <1>2 DEF Settled

\* The readings after an operation.
LEMMA PermRefreshed ==
  ASSUME RequestsAssumption, PermInv, NEW retain \in BOOLEAN, refresh(retain), permOp.result # "none", permOp' = NoPermOp, UNCHANGED perms,
         draft' \subseteq Targets1, ackedPerm' \in {ackedPerm, perms.version}
  PROVE  PermInv'
  <1> DEFINE p == [permPage EXCEPT !.prefetch = TRUE]
  <1>1. permPage.pending = "none" /\ permPage.selected # "none" /\ permPage.phase \in {"noDsl", "ready"} /\ permPage \in PermPages
    BY DEF PermInv, PermTypes, PermTies, PermPages
  <1>2. p \in PermPages /\ p.selected = permPage.selected /\ p.pending = "none" /\ p.phase = permPage.phase
    BY <1>1 DEF PermPages
  <1>3. loadSchemas(FALSE) /\ loadTables("refresh") /\ loadColumns(p, permPage.selected, retain)
    BY DEF refresh
  <1>4. retaining' \in Retainings
    <2>1. CASE retain
      BY <2>1 DEF refresh, Retainings
    <2>2. CASE ~retain
      BY <2>2 DEF refresh, PermInv, PermTypes
    <2> QED
      BY <2>1, <2>2
  <1> HIDE DEF p
  <1>5. PermReading(p)
    BY <1>1, <1>2, <1>3, PermAsks
  <1>6. /\ schemaReqs' \subseteq RequestsAbout(BOOLEAN) /\ (\A q \in schemaReqs' : ~q.about) /\ \A q, r \in schemaReqs' : q = r
    BY <1>3, PermSchemas
  <1>7. tableReqs' \subseteq RequestsAbout({"tree", "refresh"})
    BY <1>3, PermTables
  <1>8. perms.version \in Versions /\ ackedPerm' <= perms.version
    BY DEF PermInv, PermTypes, PermRows, PermFresh, Versions
  <1>9. PermTypes'
    BY <1>4, <1>5, <1>6, <1>7, <1>8, PermNothing DEF PermReading, PermInv, PermTypes
  <1>10. PermTies'
    BY <1>1, <1>2, <1>5, <1>6 DEF PermReading, PermTies, NoPermOp
  <1>11. PermFresh'
    BY <1>2, <1>5, <1>8 DEF PermReading, PermFresh, ColumnsFollow, SaveMatchesSelection, NoPermOp
  <1> QED
    BY <1>9, <1>10, <1>11 DEF PermInv

\* Another part of the tree is selected.
LEMMA PermSelects ==
  ASSUME RequestsAssumption, PermInv, NEW scope \in Scopes, doSelect(permPage, scope), permOp.kind = "none",
         permPage.phase \in {"noDsl", "ready"}, draft' \subseteq Targets1, UNCHANGED <<perms, schemaReqs, tableReqs, permOp, retaining, ackedPerm>>
  PROVE  PermInv'
  <1> DEFINE p == [permPage EXCEPT !.selected = scope, !.pending = "none"]
  <1>1. p \in PermPages /\ p.selected = scope /\ p.pending = "none" /\ p.phase = permPage.phase /\ scope # "none"
    BY DEF PermInv, PermTypes, PermPages, Scopes
  <1>2. loadColumns(p, scope, FALSE)
    BY DEF doSelect
  <1> HIDE DEF p
  <1>3. PermReading(p)
    BY <1>1, <1>2, PermAsks
  <1>4. PermTypes'
    BY <1>3 DEF PermReading, PermInv, PermTypes
  <1>5. PermTies'
    BY <1>1, <1>3 DEF PermReading, PermInv, PermTies
  <1>6. PermFresh'
    BY <1>1, <1>3 DEF PermReading, PermInv, PermFresh, ColumnsFollow, SaveMatchesSelection
  <1> QED
    BY <1>4, <1>5, <1>6 DEF PermInv

\* The answer of a reading of the columns.
LEMMA PermColumnsAnswered ==
  ASSUME RequestsAssumption, PermInv, NEW q \in columnReqs, ColumnsRead(q) \/ ColumnsFail(q)
  PROVE  PermInv'
  <1>1. /\ InFlight(columnReqs \ {q}, ColumnAbout) /\ (q.mine => ~Wanted(columnReqs \ {q}))
        /\ (~q.mine => (Wanted(columnReqs \ {q}) <=> Wanted(columnReqs)))
    BY AnsweredRequests DEF PermInv, PermTypes
  <1>2. /\ q \in RequestsAbout(ColumnAbout) /\ permPage \in PermPages
        /\ \A p \in columnReqs \ {q} : q.mine => ~p.mine
    BY DEF PermInv, PermTypes, InFlight
  <1>3. q.version \in Versions /\ q.about.of \in {"t", "u"} /\ q.about.inDsl \in BOOLEAN
    BY <1>2 DEF RequestsAbout, ColumnAbout
  <1>4. columnReqs' = columnReqs \ {q} /\ UNCHANGED <<perms, schemaReqs, tableReqs, draft, permOp, ackedPerm>>
    BY DEF ColumnsRead, ColumnsFail
  <1>5. retaining' \in Retainings
    <2>1. ColumnOf(q.about.of) \in Targets1
      BY DEF ColumnOf, Targets1
    <2> DEFINE part == IF q.about.retain THEN "columns" ELSE "none"
    <2>2. CASE ColumnsRead(q)
      <3> DEFINE found == IF q.mine /\ q.about.inDsl THEN {ColumnOf(q.about.of)} ELSE {}
      <3>1. found \in SUBSET Targets1 /\ Settled(part, found)
        BY <2>1, <2>2 DEF ColumnsRead
      <3> HIDE DEF part, found
      <3> QED
        BY <3>1, PermSettled
    <2>3. CASE ColumnsFail(q)
      <3>1. Settled(part, {}) /\ {} \in SUBSET Targets1
        BY <2>3 DEF ColumnsFail
      <3> HIDE DEF part
      <3> QED
        BY <3>1, PermSettled
    <2> QED
      BY <2>2, <2>3
  <1>6. CASE ~q.mine
    <2>1. UNCHANGED permPage
      BY <1>6 DEF ColumnsRead, ColumnsFail
    <2> QED
      BY <1>1, <1>4, <1>5, <1>6, <2>1 DEF PermInv, PermTypes, PermTies, PermFresh, ColumnsFollow, SaveMatchesSelection
  <1>7. CASE q.mine
    <2>1. PICK c \in PermColumns :
             /\ permPage' = [permPage EXCEPT !.columns = c]
             /\ c.phase = "failed" \/ (c.phase = "loaded" /\ c.of = q.about.of /\ c.version = q.version /\ q.stage = "served")
      <3>1. [NoColumns EXCEPT !.phase = "failed"] \in PermColumns /\ [NoColumns EXCEPT !.phase = "failed"].phase = "failed"
        BY PermNothing DEF PermColumns
      <3>2. [phase |-> "loaded", of |-> q.about.of, version |-> q.version, inDsl |-> q.about.inDsl] \in PermColumns
        BY <1>3 DEF PermColumns
      <3> QED
        BY <1>7, <3>1, <3>2 DEF ColumnsRead, ColumnsFail
    <2>2. /\ permPage' \in PermPages /\ permPage'.columns = c /\ permPage'.phase = permPage.phase
          /\ permPage'.selected = permPage.selected /\ permPage'.pending = permPage.pending
      BY <1>2, <2>1 DEF PermPages
    <2>3. Wanted(columnReqs)
      BY <1>7 DEF Wanted
    <2>4. PermTypes'
      BY <1>1, <1>4, <1>5, <2>2 DEF PermInv, PermTypes
    <2>5. PermTies'
      BY <1>1, <1>4, <1>7, <2>1, <2>2, <2>3 DEF PermInv, PermTies
    <2>6. PermFresh'
      BY <1>2, <1>4, <1>7, <2>1, <2>2 DEF PermInv, PermFresh, ColumnsFollow, SaveMatchesSelection
    <2> QED
      BY <2>4, <2>5, <2>6 DEF PermInv
  <1> QED
    BY <1>6, <1>7

\* The answer of a reading of the schemas.
LEMMA PermSchemasAnswered ==
  ASSUME RequestsAssumption, PermInv, NEW q \in schemaReqs, SchemasRead(q) \/ SchemasFail(q)
  PROVE  PermInv'
  <1>1. /\ schemaReqs' \subseteq schemaReqs /\ UNCHANGED <<perms, columnReqs, permOp, ackedPerm>> /\ permPage \in PermPages
        /\ q.about \in BOOLEAN
    BY DEF SchemasRead, SchemasFail, PermInv, PermTypes, RequestsAbout
  <1>2. q.about => permPage.phase = "loading"
    BY DEF PermInv, PermTies
  <1>3. ~q.about => permPage.selected # "none" /\ permPage.phase \in {"noDsl", "ready"}
    BY <1>1 DEF PermInv, PermTies
  <1>4. q.about => permPage.pending = "none" /\ permOp.kind = "none" /\ permPage.columns.phase \notin {"loading", "loaded"}
    BY <1>2 DEF PermInv, PermTies
  <1>5. /\ permPage' \in PermPages /\ permPage'.columns = permPage.columns /\ permPage'.pending = permPage.pending
        /\ permPage'.selected = permPage.selected \/ (q.about /\ permPage'.phase = "ready" /\ permPage'.selected = "s")
        /\ permPage'.phase \in {"noDsl", "ready"} \/ (q.about /\ permPage'.phase = "load-error")
        /\ permPage'.phase = "ready" => permPage'.selected # "none"
    <2>1. CASE SchemasRead(q) /\ ~perms.dsl
      <3>1. permPage' = [permPage EXCEPT !.phase = "noDsl"]
        BY <2>1 DEF SchemasRead
      <3> QED
        BY <1>1, <3>1 DEF PermPages
    <2>2. CASE SchemasRead(q) /\ perms.dsl
      <3>1. CASE q.about
        <4>1. permPage' = [permPage EXCEPT !.phase = "ready", !.prefetch = FALSE, !.selected = "s"]
          BY <2>2, <3>1 DEF SchemasRead
        <4> QED
          BY <1>1, <3>1, <4>1 DEF PermPages, Scopes
      <3>2. CASE ~q.about
        <4>1. permPage' = [permPage EXCEPT !.phase = "ready", !.prefetch = FALSE, !.selected = permPage.selected]
          BY <2>2, <3>2 DEF SchemasRead
        <4> QED
          BY <1>1, <1>3, <3>2, <4>1 DEF PermPages
      <3> QED
        BY <3>1, <3>2
    <2>3. CASE SchemasFail(q)
      <3>1. CASE q.about
        <4>1. permPage' = [permPage EXCEPT !.phase = "load-error"]
          BY <2>3, <3>1 DEF SchemasFail
        <4> QED
          BY <1>1, <3>1, <4>1 DEF PermPages
      <3>2. CASE ~q.about
        <4>1. permPage' = [permPage EXCEPT !.phase = "ready"]
          BY <2>3, <3>2 DEF SchemasFail
        <4> QED
          BY <1>1, <1>3, <3>2, <4>1 DEF PermPages
      <3> QED
        BY <3>1, <3>2
    <2> QED
      BY <2>1, <2>2, <2>3
  <1>6. draft' \subseteq Targets1 /\ tableReqs' \subseteq RequestsAbout({"tree", "refresh"})
    BY PermTables DEF SchemasRead, SchemasFail, PermInv, PermTypes
  <1>7. retaining' \in Retainings
    <2>1. UNCHANGED retaining \/ Settled("schemas", {})
      BY DEF SchemasRead, SchemasFail
    <2>2. {} \in SUBSET Targets1
      OBVIOUS
    <2>3. CASE Settled("schemas", {})
      BY <2>2, <2>3, PermSettled
    <2>4. CASE UNCHANGED retaining
      BY <2>4 DEF PermInv, PermTypes
    <2> QED
      BY <2>1, <2>3, <2>4
  <1>8. schemaReqs' = {} \/ ~q.about
    <2>1. schemaReqs' = schemaReqs \ {q}
      BY DEF SchemasRead, SchemasFail
    <2> QED
      BY <2>1 DEF PermInv, PermTies
  <1>9. PermTypes'
    BY <1>1, <1>5, <1>6, <1>7 DEF PermInv, PermTypes
  <1>10. PermTies'
    BY <1>1, <1>4, <1>5, <1>8 DEF PermInv, PermTies
  <1>11. PermFresh'
    BY <1>1, <1>4, <1>5 DEF PermInv, PermTies, PermFresh, ColumnsFollow, SaveMatchesSelection, Wanted
  <1> QED
    BY <1>9, <1>10, <1>11 DEF PermInv

\* Every step of the permissions of a role keeps the invariant.
LEMMA PermStep ==
  ASSUME RequestsAssumption, PermInv, PermNext
  PROVE  PermInv'
  <1>0. permPage \in PermPages /\ permOp \in PermOps /\ perms \in PermRows
    BY DEF PermInv, PermTypes
  <1>1. CASE OpenPerms \/ retryPerms
    <2>1. /\ permPage' \in PermPages /\ permPage'.phase = "loading" /\ permPage'.pending = "none" /\ permPage'.columns.phase \notin {"loading", "loaded"}
          /\ permPage.phase \in {"gone", "load-error"} /\ loadSchemas(TRUE) /\ ackedPerm' \in {0, ackedPerm}
          /\ UNCHANGED <<perms, columnReqs, tableReqs, draft, permOp, retaining>>
      <3>1. CASE OpenPerms
        <4>1. [NoPermPage EXCEPT !.phase = "loading"] \in PermPages
          BY PermNothing DEF PermPages
        <4>2. NoPermPage.pending = "none" /\ NoPermPage.columns.phase = "idle" /\ NoPermPage \in PermPages
          BY PermNothing DEF NoPermPage, NoColumns
        <4>3. permPage'.phase = "loading" /\ permPage'.pending = "none" /\ permPage'.columns.phase = "idle"
          BY <3>1, <4>2 DEF OpenPerms, PermPages
        <4> QED
          BY <3>1, <4>1, <4>3 DEF OpenPerms
      <3>2. CASE retryPerms
        <4>1. permPage.phase = "load-error" /\ permPage.pending = "none" /\ permPage.columns.phase \notin {"loading", "loaded"}
          BY <3>2 DEF retryPerms, PermInv, PermTies
        <4>2. /\ permPage' \in PermPages /\ permPage'.phase = "loading" /\ permPage'.pending = permPage.pending
              /\ permPage'.columns = permPage.columns
          BY <1>0, <3>2 DEF retryPerms, PermPages
        <4> QED
          BY <3>2, <4>1, <4>2 DEF retryPerms
      <3> QED
        BY <1>1, <3>1, <3>2
    <2>2. schemaReqs' \subseteq RequestsAbout(BOOLEAN) /\ (\A q \in schemaReqs' : q.about) /\ \A p, q \in schemaReqs' : p = q
      BY <2>1, PermSchemas
    <2>3. ~Wanted(columnReqs) /\ permOp.kind = "none"
      BY <2>1 DEF PermInv, PermTies
    <2>4. PermTypes'
      BY <2>1, <2>2 DEF PermInv, PermTypes, Versions, RequestsAssumption
    <2>5. PermTies'
      BY <2>1, <2>2, <2>3 DEF PermInv, PermTies
    <2>6. PermFresh'
      BY <2>1, <2>3 DEF PermInv, PermTypes, PermRows, PermFresh, ColumnsFollow, SaveMatchesSelection, Wanted, Versions
    <2> QED
      BY <2>4, <2>5, <2>6 DEF PermInv
  <1>2. CASE PermsGone
    <2>1. PermTypes'
      BY <1>2, PermNothing, NoRequests DEF PermsGone, PermInv, PermTypes, Versions, RequestsAssumption
    <2>2. PermTies'
      BY <1>2, NoRequests DEF PermsGone, PermTies, NoPermPage, NoColumns, NoPermOp
    <2>3. PermFresh'
      BY <1>2 DEF PermsGone, PermInv, PermTypes, PermRows, PermFresh, ColumnsFollow, SaveMatchesSelection, NoPermPage, NoColumns, NoPermOp, Versions
    <2> QED
      BY <2>1, <2>2, <2>3 DEF PermInv
  <1>3. CASE PermsChange \/ ServePermOp
    <2>1. perms' \in PermRows /\ perms'.version >= perms.version
      <3>1. perms.version \in Versions /\ perms.version \in Nat
        BY <1>0 DEF PermRows, Versions
      <3>2. CASE perms.version < MaxVersion /\ perms' = [perms EXCEPT !.version = @ + 1]
        <4>1. perms.version + 1 \in Versions
          BY <3>1, <3>2 DEF Versions, RequestsAssumption
        <4>2. perms' = [perms EXCEPT !.version = perms.version + 1]
          BY <3>2
        <4> QED
          BY <1>0, <3>1, <4>1, <4>2 DEF PermRows
      <3>3. CASE perms' = [perms EXCEPT !.dsl = TRUE] \/ perms' = [perms EXCEPT !.gone = {"tc"}] \/ perms' = perms
        <4>1. perms' \in PermRows /\ perms'.version = perms.version
          BY <1>0, <3>3 DEF PermRows
        <4> QED
          BY <3>1, <4>1
      <3> QED
        BY <1>3, <3>2, <3>3 DEF PermsChange, ServePermOp
    <2>2. /\ permOp' \in PermOps /\ permOp'.kind = permOp.kind /\ permOp'.scope = permOp.scope /\ permOp'.entries = permOp.entries
          /\ (permOp'.stage = "sent" \/ permOp'.result # "none") => permOp.kind # "none"
      <3>1. CASE UNCHANGED permOp
        BY <1>0, <3>1 DEF PermInv, PermTies
      <3>2. ASSUME NEW why \in {"done", "noChange", "notInDsl", "other"}, permOp' = [permOp EXCEPT !.stage = "served", !.result = why], permOp.stage = "sent"
            PROVE  permOp' \in PermOps /\ permOp'.kind = permOp.kind /\ permOp'.scope = permOp.scope /\ permOp'.entries = permOp.entries
        BY <1>0, <3>2 DEF PermOps
      <3>3. permOp.stage = "sent" => permOp.kind # "none"
        BY DEF PermInv, PermTies
      <3>4. CASE PermsChange
        BY <3>1, <3>4 DEF PermsChange
      <3>5. CASE ServePermOp
        <4>1. /\ permOp.stage = "sent"
              /\ \E why \in {"done", "noChange", "notInDsl", "other"} : permOp' = [permOp EXCEPT !.stage = "served", !.result = why]
          BY <3>5 DEF ServePermOp
        <4> QED
          BY <3>2, <3>3, <4>1
      <3> QED
        BY <1>3, <3>4, <3>5
    <2>3. UNCHANGED <<permPage, schemaReqs, columnReqs, tableReqs, draft, retaining, ackedPerm>>
      BY <1>3 DEF PermsChange, ServePermOp
    <2>4. PermTypes'
      BY <2>1, <2>2, <2>3 DEF PermInv, PermTypes
    <2>5. PermTies'
      BY <2>2, <2>3 DEF PermInv, PermTies
    <2>6. perms.version \in Nat /\ perms'.version \in Nat /\ ackedPerm \in Nat
      BY <1>0, <2>1 DEF PermRows, Versions, PermInv, PermTypes
    <2>7. PermFresh'
      BY <2>1, <2>2, <2>3, <2>6 DEF PermInv, PermFresh, ColumnsFollow, SaveMatchesSelection
    <2> QED
      BY <2>4, <2>5, <2>7 DEF PermInv
  <1>4. CASE retryTree
    <2>1. tableReqs' \subseteq RequestsAbout({"tree", "refresh"})
      BY <1>4, PermTables DEF retryTree
    <2> QED
      BY <1>4, <2>1 DEF retryTree, PermInv, PermTypes, PermTies, PermFresh, ColumnsFollow, SaveMatchesSelection
  <1>5. ASSUME permPage' \in PermPages, permPage'.phase = permPage.phase, permPage'.selected = permPage.selected, permPage'.columns = permPage.columns,
               permPage'.pending # "none" => permOp.kind = "none" /\ permPage'.pending # permPage.selected /\ permPage.phase \in {"noDsl", "ready"}
                                             /\ permPage.selected # "none",
               draft' \subseteq Targets1, retaining' \in Retainings, UNCHANGED <<perms, schemaReqs, columnReqs, tableReqs, permOp, ackedPerm>>
        PROVE  PermInv'
    BY <1>5 DEF PermInv, PermTypes, PermTies, PermFresh, ColumnsFollow, SaveMatchesSelection
  <1>6. CASE staySelect
    <2>1. permPage' \in PermPages /\ permPage'.phase = permPage.phase /\ permPage'.selected = permPage.selected /\ permPage'.columns = permPage.columns /\ permPage'.pending = "none"
      BY <1>0, <1>6 DEF staySelect, PermPages
    <2> QED
      BY <1>5, <1>6, <2>1 DEF staySelect, PermInv, PermTypes
  <1>7. CASE leaveSelect
    <2>1. permPage.pending \in Scopes /\ permOp.kind = "none" /\ permPage.phase \in {"noDsl", "ready"}
      BY <1>0, <1>7 DEF leaveSelect, PermPages, PermInv, PermTies
    <2> QED
      BY <1>7, <2>1, PermSelects DEF leaveSelect
  <1>8. CASE discard \/ retainDraft \/ (\E target \in Targets1 : changePerm(target))
    <2>1. draft' \subseteq Targets1 /\ retaining' \in Retainings /\ UNCHANGED <<perms, permPage, schemaReqs, columnReqs, tableReqs, permOp, ackedPerm>>
      BY <1>8, PermNothing DEF discard, retainDraft, changePerm, PermInv, PermTypes
    <2> QED
      BY <1>0, <1>5, <2>1 DEF PermInv, PermTies, PermPages
  <1>9. ASSUME NEW scope \in Scopes, select(scope) PROVE PermInv'
    <2>1. permOp.kind = "none" /\ permPage.phase = "ready" /\ scope # permPage.selected /\ permPage.selected # "none"
          /\ UNCHANGED <<perms, schemaReqs, tableReqs, draft, permOp, retaining, ackedPerm>>
      BY <1>9 DEF select, PanelFree, savingPerms, PermInv, PermTies
    <2>2. CASE permPage' = [permPage EXCEPT !.pending = scope] /\ UNCHANGED columnReqs
      <3>1. /\ permPage' \in PermPages /\ permPage'.phase = permPage.phase /\ permPage'.selected = permPage.selected
            /\ permPage'.columns = permPage.columns /\ permPage'.pending = scope
        BY <1>0, <2>2 DEF PermPages
      <3> QED
        BY <1>5, <2>1, <2>2, <3>1 DEF PermInv, PermTypes
    <2>3. CASE doSelect(permPage, scope)
      BY <2>1, <2>3, PermSelects DEF PermInv, PermTypes
    <2> QED
      BY <1>9, <2>2, <2>3 DEF select
  <1>10. CASE savePerms \/ clearOrphan \/ (\E lost \in BOOLEAN : PermOpFails(lost))
    <2>1. UNCHANGED <<perms, permPage, schemaReqs, columnReqs, tableReqs, draft, retaining, ackedPerm>>
      BY <1>10 DEF savePerms, clearOrphan, PermOpFails
    <2>2. toEntries \in SUBSET Targets1 /\ (\A target \in toEntries : inScope(target, permPage.selected)) /\ permPage.selected \in Scopes \cup {"none"}
      BY <1>0 DEF toEntries, PermInv, PermTypes, PermPages
    <2>3. permOp' \in PermOps /\ permOp'.result = "none" /\ (permOp'.stage = "sent" => permOp'.kind # "none")
      BY <1>10, <2>2, PermNothing DEF savePerms, clearOrphan, PermOpFails, NoPermOp, PermOps
    <2>4. permOp'.kind # "none" => permPage.phase = "ready" /\ permPage.pending = "none"
      BY <1>10 DEF savePerms, clearOrphan, PermOpFails, NoPermOp, PanelFree
    <2>5. SaveMatchesSelection'
      <3>1. CASE savePerms
        <4>1. permOp'.scope = permPage.selected /\ permOp'.entries = toEntries
          BY <3>1 DEF savePerms, NoPermOp
        <4> QED
          BY <2>1, <2>2, <4>1 DEF SaveMatchesSelection
      <3>2. CASE clearOrphan \/ (\E lost \in BOOLEAN : PermOpFails(lost))
        <4>1. permOp'.kind = "clear" \/ permOp' = NoPermOp
          BY <3>2 DEF clearOrphan, PermOpFails, NoPermOp
        <4>2. permOp'.kind # "save"
          BY <4>1 DEF NoPermOp
        <4> QED
          BY <4>2 DEF SaveMatchesSelection
      <3> QED
        BY <1>10, <3>1, <3>2
    <2>6. PermTypes' /\ PermTies'
      BY <2>1, <2>3, <2>4 DEF PermInv, PermTypes, PermTies
    <2>7. PermFresh'
      BY <2>1, <2>5 DEF PermInv, PermFresh, ColumnsFollow
    <2> QED
      BY <2>6, <2>7 DEF PermInv
  <1>11. CASE PermOpDone \/ PermNoChange \/ PermNotInDsl
    BY <1>11, PermRefreshed DEF PermOpDone, PermNoChange, PermNotInDsl, PermInv, PermTypes
  <1>12. CASE retryColumns
    <2>1. permPage.selected # "none" /\ loadColumns(permPage, permPage.selected, FALSE)
          /\ UNCHANGED <<perms, schemaReqs, tableReqs, draft, permOp, retaining, ackedPerm>>
      BY <1>12 DEF retryColumns, PanelFree, PermInv, PermTies
    <2>2. PermReading(permPage)
      BY <1>0, <2>1, PermAsks
    <2>3. PermTypes'
      BY <2>1, <2>2 DEF PermReading, PermInv, PermTypes
    <2>4. permPage.phase = "ready"
      BY <1>12 DEF retryColumns, PanelFree
    <2>5. PermTies' /\ PermFresh'
      BY <2>1, <2>2, <2>4 DEF PermReading, PermInv, PermTies, PermFresh, ColumnsFollow, SaveMatchesSelection
    <2> QED
      BY <2>3, <2>5 DEF PermInv
  <1>13. ASSUME NEW q \in schemaReqs, SchemasRead(q) \/ SchemasFail(q) PROVE PermInv'
    BY <1>13, PermSchemasAnswered
  <1>14. ASSUME NEW q \in columnReqs, ServeColumns(q) PROVE PermInv'
    <2> DEFINE s == [q EXCEPT !.stage = "served", !.version = perms.version, !.about.inDsl = ColumnOf(q.about.of) \notin perms.gone]
    <2>1. q \in RequestsAbout(ColumnAbout) /\ perms.version \in Versions
      BY <1>0 DEF PermInv, PermTypes, InFlight, PermRows
    <2>2. q.about \in ColumnAbout
      BY <2>1 DEF RequestsAbout
    <2> DEFINE a == [q.about EXCEPT !.inDsl = ColumnOf(q.about.of) \notin perms.gone]
    <2>3. a \in ColumnAbout /\ a.of = q.about.of
      BY <2>2 DEF ColumnAbout
    <2>4. s = [q EXCEPT !.stage = "served", !.version = perms.version, !.about = a]
      BY <2>1 DEF RequestsAbout
    <2>5. columnReqs' = (columnReqs \ {q}) \cup {s} /\ UNCHANGED <<perms, permPage, schemaReqs, tableReqs, draft, permOp, retaining, ackedPerm>>
      BY <1>14 DEF ServeColumns
    <2> HIDE DEF a, s
    <2>6. s \in RequestsAbout(ColumnAbout) /\ (s.mine <=> q.mine) /\ s.about.of = q.about.of /\ s.version = perms.version
      BY <2>1, <2>3, <2>4 DEF RequestsAbout
    <2>7. InFlight(columnReqs', ColumnAbout) /\ (Wanted(columnReqs') <=> Wanted(columnReqs))
      BY <2>5, <2>6 DEF InFlight, Wanted, PermInv, PermTypes
    <2>8. PermTypes' /\ PermTies'
      BY <2>5, <2>7 DEF PermInv, PermTypes, PermTies
    <2>9. PermFresh'
      BY <2>5, <2>6 DEF PermInv, PermFresh, ColumnsFollow, SaveMatchesSelection
    <2> QED
      BY <2>8, <2>9 DEF PermInv
  <1>15. ASSUME NEW q \in columnReqs, ColumnsRead(q) \/ ColumnsFail(q) PROVE PermInv'
    BY <1>15, PermColumnsAnswered
  <1>16. ASSUME NEW q \in tableReqs, NEW ok \in BOOLEAN, TablesRead(q, ok) PROVE PermInv'
    <2>1. retaining' \in Retainings
      <3>1. (IF ok THEN {"t"} ELSE {}) \in SUBSET Targets1
        BY DEF Targets1
      <3> QED
        BY <1>16, <3>1, PermSettled DEF TablesRead
    <2>2. /\ permPage' \in PermPages /\ permPage'.phase = permPage.phase /\ permPage'.selected = permPage.selected
          /\ permPage'.columns = permPage.columns /\ permPage'.pending = permPage.pending
      BY <1>0, <1>16 DEF TablesRead, PermPages
    <2>3. tableReqs' \subseteq tableReqs /\ UNCHANGED <<perms, schemaReqs, columnReqs, draft, permOp, ackedPerm>>
      BY <1>16 DEF TablesRead
    <2> QED
      BY <2>1, <2>2, <2>3 DEF PermInv, PermTypes, PermTies, PermFresh, ColumnsFollow, SaveMatchesSelection
  <1> QED
    BY <1>1, <1>2, <1>3, <1>4, <1>6, <1>7, <1>8, <1>9, <1>10, <1>11, <1>12, <1>13, <1>14, <1>15, <1>16 DEF PermNext

\* Nothing changes with what is not the panel's.
LEMMA PermRests ==
  ASSUME PermInv, UNCHANGED permVars
  PROVE  PermInv'
  BY DEF permVars, PermInv, PermTypes, PermTies, PermFresh, ColumnsFollow, SaveMatchesSelection

\* What the runs check of the panel.
LEMMA PermShows ==
  ASSUME PermInv
  PROVE  PermTypeOK /\ ColumnsFollow /\ SaveMatchesSelection
  <1>1. /\ columnReqs \subseteq RequestsAbout([of : {"t", "u"}, inDsl : BOOLEAN, retain : BOOLEAN])
    BY DEF PermInv, PermTypes, InFlight, ColumnAbout
  <1>2. (permPage.columns.phase = "loading") = Wanted(columnReqs)
    <2>1. Wanted(columnReqs) \in BOOLEAN
      BY DEF Wanted
    <2> QED
      BY <2>1 DEF PermInv, PermTies
  <1>3. PermTypeOK
    BY <1>1, <1>2 DEF PermInv, PermTypes, PermTies, PermTypeOK, PermRows, PermPages, PermColumns, PermOps, Retainings, savingPerms
  <1> QED
    BY <1>3 DEF PermInv, PermFresh

-----------------------------------------------------------------------------
(* The users and groups a role is assigned to *)

AsgLists == [state : {"gone", "loading", "ready", "failed"}, version : Versions, failed : BOOLEAN]
Searches == [text : Texts, mine : BOOLEAN]
Pickers == [kind : {"none", "user", "group"}, phase : {"idle", "loading", "results", "failed"}, results : Texts \cup {0},
            asked : Texts \cup {0}, adding : Candidates \cup {"none"}, done : SUBSET Candidates]

AsgTypes ==
  /\ asg \in Versions /\ ackedAsg \in Versions /\ asgList \in AsgLists /\ InFlight(asgReqs, {"list"})
  /\ picker \in Pickers /\ pickReqs \subseteq Searches /\ (\A p, q \in pickReqs : p.mine /\ q.mine => p = q)
  /\ impacts \subseteq AssignedUsers /\ confirm \in AssignedUsers \cup {"none"} /\ removal \in Removals \cup {"none"}
  /\ asgAfter \in BOOLEAN

\* What the panel does belongs to a list that is shown.
AsgTies ==
  /\ asgList.state = "gone" => ackedAsg = 0
  /\ asgList.state = "loading" => Wanted(asgReqs)
  /\ asgList.state \in {"gone", "failed"} => ~Wanted(asgReqs)
  /\ asgList.state # "ready" => impacts = {} /\ confirm = "none" /\ removal = "none" /\ ~asgAfter /\ picker.kind = "none" /\ ackedAsg = 0
  /\ picker.kind = "none" => picker = NoPicker /\ pickReqs = {}
  /\ picker.kind # "none" => ~asgAfter
  /\ picker.adding # "none" => picker.adding \notin picker.done

\* The search asked last is the one whose candidates are shown or on their way.
AsgSearch ==
  /\ picker.phase = "loading" <=> (\E r \in pickReqs : r.mine)
  /\ \A r \in pickReqs : r.mine => r.text = picker.asked
  /\ ResultsAreLast

\* What the panel shows, or is on its way and wanted, contains what was heard done; unless it will be read again.
AsgFresh ==
  /\ ackedAsg <= asg
  /\ AsgFollows
  /\ \A q \in asgReqs : q.mine /\ q.stage = "served" /\ ~asgAfter /\ picker.kind = "none" => q.version >= ackedAsg

AsgInv == AsgTypes /\ AsgTies /\ AsgSearch /\ AsgFresh

\* The empty values are values of their kinds.
LEMMA AsgNothing ==
  ASSUME RequestsAssumption
  PROVE  NoAsgList \in AsgLists /\ NoPicker \in Pickers /\ 0 \in Versions
  <1>1. 0 \in Versions
    BY DEF RequestsAssumption, Versions
  <1> QED
    BY <1>1 DEF NoAsgList, AsgLists, NoPicker, Pickers

\* Initially the invariant of the assignments of a role holds.
LEMMA AsgStart == ASSUME RequestsAssumption, AsgInit PROVE AsgInv
  <1>1. AsgTypes
    BY AsgNothing, NoRequests DEF AsgInit, AsgTypes
  <1>2. AsgTies
    BY NoRequests DEF AsgInit, AsgTies, NoAsgList, NoPicker
  <1>3. AsgSearch
    BY DEF AsgInit, AsgSearch, NoPicker, ResultsAreLast
  <1>4. AsgFresh
    BY DEF AsgInit, AsgFresh, AsgFollows, NoAsgList
  <1> QED
    BY <1>1, <1>2, <1>3, <1>4 DEF AsgInv

\* The list is asked for again.
LEMMA AsgLoads ==
  ASSUME RequestsAssumption, AsgInv, loadAsg
  PROVE  InFlight(asgReqs', {"list"}) /\ Wanted(asgReqs') /\ \A q \in asgReqs' : q.mine => q.stage = "sent"
  <1>1. asgReqs' = Asked(asgReqs, "list") /\ InFlight(asgReqs, {"list"})
    BY DEF loadAsg, AsgInv, AsgTypes
  <1> QED
    BY <1>1, AskedRequests

\* A search supersedes the one before it.
LEMMA AsgSearches ==
  ASSUME AsgInv, NEW text \in Texts, picker.kind # "none",
         pickReqs' = {[r EXCEPT !.mine = FALSE] : r \in pickReqs} \cup {[text |-> text, mine |-> TRUE]},
         picker' = [picker EXCEPT !.phase = "loading", !.asked = text],
         UNCHANGED <<asg, asgList, asgReqs, impacts, confirm, removal, asgAfter, ackedAsg>>
  PROVE  AsgInv'
  <1>1. picker \in Pickers /\ pickReqs \subseteq Searches
    BY DEF AsgInv, AsgTypes
  <1>2. /\ picker' \in Pickers /\ picker'.kind = picker.kind /\ picker'.phase = "loading" /\ picker'.asked = text
        /\ picker'.adding = picker.adding /\ picker'.done = picker.done
    BY <1>1 DEF Pickers
  <1>3. \A r \in pickReqs : [r EXCEPT !.mine = FALSE] \in Searches /\ ~[r EXCEPT !.mine = FALSE].mine
    BY <1>1 DEF Searches
  <1> DEFINE search == [text |-> text, mine |-> TRUE]
  <1>4. search \in Searches /\ search.mine /\ search.text = text
    BY DEF Searches
  <1>5. pickReqs' = {[r EXCEPT !.mine = FALSE] : r \in pickReqs} \cup {search}
    OBVIOUS
  <1> HIDE DEF search
  <1>6. pickReqs' \subseteq Searches /\ search \in pickReqs' /\ \A r \in pickReqs' : r.mine => r = search
    BY <1>3, <1>4, <1>5
  <1>7. AsgTypes'
    BY <1>2, <1>6 DEF AsgInv, AsgTypes
  <1>8. AsgTies'
    BY <1>2 DEF AsgInv, AsgTies
  <1>9. AsgSearch'
    BY <1>2, <1>4, <1>6 DEF AsgSearch, ResultsAreLast
  <1>10. AsgFresh'
    BY <1>2 DEF AsgInv, AsgFresh, AsgFollows
  <1> QED
    BY <1>7, <1>8, <1>9, <1>10 DEF AsgInv

\* Every step of the assignments of a role keeps the invariant.
LEMMA AsgStep ==
  ASSUME RequestsAssumption, AsgInv, AsgNext
  PROVE  AsgInv'
  <1>0. /\ asgList \in AsgLists /\ picker \in Pickers /\ pickReqs \subseteq Searches /\ InFlight(asgReqs, {"list"})
        /\ asg \in Versions /\ ackedAsg \in Versions /\ asg \in Nat /\ ackedAsg \in Nat
    BY DEF AsgInv, AsgTypes, Versions
  <1>0a. AsgDone => asg' = asg + 1 /\ asg' \in Versions
    BY <1>0 DEF AsgDone, Versions, RequestsAssumption
  <1>1. CASE OpenAsg \/ retryAsg
    <2>1. /\ asgList' \in AsgLists /\ asgList'.state = "loading" /\ asgList.state \in {"gone", "failed"} /\ loadAsg
          /\ UNCHANGED <<asg, picker, pickReqs, impacts, confirm, removal, asgAfter, ackedAsg>>
      <3>1. CASE OpenAsg
        BY <3>1, AsgNothing DEF OpenAsg, AsgLists
      <3>2. CASE retryAsg
        BY <1>0, <3>2 DEF retryAsg, AsgLists
      <3> QED
        BY <1>1, <3>1, <3>2
    <2>2. InFlight(asgReqs', {"list"}) /\ Wanted(asgReqs') /\ \A q \in asgReqs' : q.mine => q.stage = "sent"
      BY <2>1, AsgLoads
    <2>3. AsgTypes'
      BY <2>1, <2>2 DEF AsgInv, AsgTypes
    <2>4. AsgTies'
      BY <2>1, <2>2 DEF AsgInv, AsgTies
    <2>5. AsgSearch' /\ AsgFresh'
      BY <2>1, <2>2 DEF AsgInv, AsgSearch, AsgFresh, AsgFollows, ResultsAreLast
    <2> QED
      BY <2>3, <2>4, <2>5 DEF AsgInv
  <1>2. CASE AsgGone
    <2>1. AsgTypes'
      BY <1>0, <1>2, AsgNothing, NoRequests DEF AsgGone, AsgTypes
    <2>2. AsgTies'
      BY <1>2, NoRequests DEF AsgGone, AsgTies, NoAsgList, NoPicker
    <2>3. AsgSearch'
      BY <1>2 DEF AsgGone, AsgSearch, NoPicker, ResultsAreLast
    <2>4. AsgFresh'
      BY <1>0, <1>2 DEF AsgGone, AsgFresh, AsgFollows, NoAsgList
    <2> QED
      BY <2>1, <2>2, <2>3, <2>4 DEF AsgInv
  \* Nothing but the version, the question and what is being removed or read.
  <1>3. ASSUME UNCHANGED <<asgList, asgReqs, picker, pickReqs, asgAfter, ackedAsg>>, asg' \in Versions, asg' >= asg,
               impacts' \subseteq AssignedUsers, confirm' \in AssignedUsers \cup {"none"}, removal' \in Removals \cup {"none"},
               asgList.state = "ready" \/ UNCHANGED <<impacts, confirm, removal>>
        PROVE  AsgInv'
    <2>1. asg' \in Nat
      BY <1>3 DEF Versions
    <2>2. AsgTypes' /\ AsgTies'
      BY <1>3 DEF AsgInv, AsgTypes, AsgTies
    <2>3. AsgSearch' /\ AsgFresh'
      BY <1>0, <1>3, <2>1 DEF AsgInv, AsgSearch, AsgFresh, AsgFollows, ResultsAreLast
    <2> QED
      BY <2>2, <2>3 DEF AsgInv
  <1>4. CASE AsgChange
    <2>1. asg + 1 \in Versions /\ asg + 1 >= asg
      BY <1>0, <1>4 DEF AsgChange, Versions, RequestsAssumption
    <2> QED
      BY <1>3, <1>4, <2>1 DEF AsgChange, AsgInv, AsgTypes
  <1>5. CASE confirmRemoval \/ cancelRemoval \/ removeGroup
    <2>1. asgList.state = "ready"
      BY <1>5 DEF confirmRemoval, cancelRemoval, removeGroup, ConfirmFree, AsgPanelFree, AsgInv, AsgTies
    <2> QED
      BY <1>0, <1>3, <1>5, <2>1 DEF confirmRemoval, cancelRemoval, removeGroup, ConfirmFree, Removals, AsgInv, AsgTypes
  <1>6. ASSUME NEW u \in AssignedUsers, requestRemoveUser(u) \/ KeepsRole(u) \/ LosesRole(u) PROVE AsgInv'
    <2>1. asgList.state = "ready"
      BY <1>6 DEF requestRemoveUser, KeepsRole, LosesRole, AsgPanelFree, AsgInv, AsgTies
    <2> QED
      BY <1>0, <1>3, <1>6, <2>1 DEF requestRemoveUser, KeepsRole, LosesRole, Removals, AsgInv, AsgTypes
  \* The list is read again.
  <1>7. ASSUME loadAsg, UNCHANGED <<asgList, picker, pickReqs, impacts, confirm>>, asgList.state = "ready", asg' \in Versions,
               removal' \in {removal, "none"}, asgAfter' \in {asgAfter, FALSE}, ackedAsg' \in Versions, ackedAsg' <= asg'
        PROVE  AsgInv'
    <2>1. InFlight(asgReqs', {"list"}) /\ Wanted(asgReqs') /\ \A q \in asgReqs' : q.mine => q.stage = "sent"
      BY <1>7, AsgLoads
    <2>2. AsgTypes'
      BY <1>7, <2>1 DEF AsgInv, AsgTypes
    <2>3. AsgTies'
      <3>1. asgAfter' => asgAfter
        BY <1>7 DEF AsgInv, AsgTypes
      <3> QED
        BY <1>7, <2>1, <3>1 DEF AsgInv, AsgTies
    <2>4. AsgSearch' /\ AsgFresh'
      BY <1>7, <2>1 DEF AsgInv, AsgSearch, AsgFresh, AsgFollows, ResultsAreLast
    <2> QED
      BY <2>2, <2>3, <2>4 DEF AsgInv
  <1>8. CASE Removed
    <2>1. asgList.state = "ready" /\ asg' \in Versions /\ asg' \in Nat
      BY <1>0a, <1>8 DEF Removed, AsgInv, AsgTies, Versions
    <2> QED
      BY <1>7, <1>8, <2>1 DEF Removed
  <1>9. ASSUME NEW why \in {"stale", "refused", "lost"}, RemovalFails(why) PROVE AsgInv'
    <2>1. asgList.state = "ready"
      BY <1>9 DEF RemovalFails, AsgInv, AsgTies
    <2>2. asg' \in Versions /\ asg' >= asg /\ ackedAsg <= asg'
      <3>1. UNCHANGED asg \/ AsgDone
        BY <1>9 DEF RemovalFails
      <3>2. ackedAsg <= asg
        BY DEF AsgInv, AsgFresh
      <3> QED
        BY <1>0, <1>0a, <3>1, <3>2
    <2>3. CASE why = "stale"
      BY <1>0, <1>7, <1>9, <2>1, <2>2, <2>3 DEF RemovalFails
    <2>4. CASE why # "stale"
      BY <1>3, <1>9, <2>1, <2>2, <2>4 DEF RemovalFails, AsgInv, AsgTypes
    <2> QED
      BY <2>3, <2>4
  <1>10. CASE ReloadAsgAfterClose
    <2>1. asgList.state = "ready" /\ ackedAsg <= asg
      BY <1>10 DEF ReloadAsgAfterClose, AsgInv, AsgTies, AsgFresh
    <2> QED
      BY <1>0, <1>7, <1>10, <2>1 DEF ReloadAsgAfterClose
  <1>11. CASE LanguageChanges
    BY <1>11, AsgSearches DEF LanguageChanges, Texts
  <1>12. ASSUME NEW text \in Texts, showCandidates(text) PROVE AsgInv'
    BY <1>12, AsgSearches DEF showCandidates, PickerFree
  <1>13. CASE closeAsgPicker
    <2>1. asgList.state = "ready"
      BY <1>13 DEF closeAsgPicker, PickerFree, AsgInv, AsgTies
    <2>2. AsgTypes'
      BY <1>13, AsgNothing DEF closeAsgPicker, AsgInv, AsgTypes
    <2>3. AsgTies'
      BY <1>13, <2>1 DEF closeAsgPicker, AsgInv, AsgTies, NoPicker
    <2>4. AsgSearch' /\ AsgFresh'
      BY <1>13 DEF closeAsgPicker, AsgInv, AsgSearch, AsgFresh, AsgFollows, ResultsAreLast, NoPicker
    <2> QED
      BY <2>2, <2>3, <2>4 DEF AsgInv
  <1>14. ASSUME NEW kind \in {"user", "group"}, openAsgPicker(kind) PROVE AsgInv'
    <2>1. asgList.state = "ready" /\ ~asgAfter
      BY <1>14 DEF openAsgPicker, AsgPanelFree
    <2>2. UNCHANGED <<asg, asgList, asgReqs, impacts, confirm, removal, asgAfter, ackedAsg>>
      BY <1>14 DEF openAsgPicker
    <2>3. CASE kind = "user"
      <3>1. /\ picker' \in Pickers /\ picker'.kind = "user" /\ picker'.phase = "idle" /\ picker'.adding = "none" /\ pickReqs' = {}
        BY <1>14, <2>3, AsgNothing DEF openAsgPicker, NoPicker, Pickers
      <3>2. AsgTypes' /\ AsgTies'
        BY <2>1, <2>2, <3>1 DEF AsgInv, AsgTypes, AsgTies
      <3>3. AsgSearch' /\ AsgFresh'
        BY <2>2, <3>1 DEF AsgInv, AsgSearch, AsgFresh, AsgFollows, ResultsAreLast
      <3> QED
        BY <3>2, <3>3 DEF AsgInv
    <2>4. CASE kind = "group"
      <3>1. /\ picker' \in Pickers /\ picker'.kind = "group" /\ picker'.phase = "loading" /\ picker'.adding = "none" /\ picker'.asked = 1
            /\ pickReqs' = {[text |-> 1, mine |-> TRUE]}
        BY <1>14, <2>4, AsgNothing DEF openAsgPicker, NoPicker, Pickers, Texts
      <3>2. [text |-> 1, mine |-> TRUE] \in Searches
        BY DEF Searches, Texts
      <3>3. AsgTypes' /\ AsgTies'
        BY <2>1, <2>2, <3>1, <3>2 DEF AsgInv, AsgTypes, AsgTies
      <3>4. AsgSearch' /\ AsgFresh'
        BY <2>2, <3>1 DEF AsgInv, AsgSearch, AsgFresh, AsgFollows, ResultsAreLast
      <3> QED
        BY <3>3, <3>4 DEF AsgInv
    <2> QED
      BY <2>3, <2>4
  <1>15. ASSUME NEW c \in Candidates, addCandidate(c) PROVE AsgInv'
    <2>1. /\ picker' \in Pickers /\ picker'.kind = picker.kind /\ picker'.phase = picker.phase /\ picker'.asked = picker.asked
          /\ picker'.results = picker.results /\ picker'.adding = c /\ picker'.done = picker.done
      BY <1>0, <1>15 DEF addCandidate, Pickers
    <2>2. /\ c \notin picker.done /\ picker.kind # "none"
          /\ UNCHANGED <<asg, asgList, asgReqs, pickReqs, impacts, confirm, removal, asgAfter, ackedAsg>>
      BY <1>15 DEF addCandidate, CandidatesShown, PickerFree
    <2>3. AsgTypes' /\ AsgTies'
      BY <2>1, <2>2 DEF AsgInv, AsgTypes, AsgTies
    <2>4. AsgSearch' /\ AsgFresh'
      BY <2>1, <2>2 DEF AsgInv, AsgSearch, AsgFresh, AsgFollows, ResultsAreLast
    <2> QED
      BY <2>3, <2>4 DEF AsgInv
  <1>16. ASSUME NEW how \in {"added", "marked", "failed"}, AddAnswered(how) PROVE AsgInv'
    <2>1. picker.kind # "none"
      BY <1>16 DEF AddAnswered, AsgInv, AsgTies, NoPicker
    <2>2. /\ picker' \in Pickers /\ picker'.kind = picker.kind /\ picker'.phase = picker.phase /\ picker'.asked = picker.asked
          /\ picker'.results = picker.results /\ picker'.adding = "none"
      <3>1. picker.adding \in Candidates /\ picker.done \cup {picker.adding} \in SUBSET Candidates
        BY <1>0, <1>16 DEF AddAnswered, Pickers
      <3>2. CASE how = "failed"
        BY <1>0, <1>16, <3>2 DEF AddAnswered, Pickers
      <3>3. CASE how # "failed"
        <4>1. picker' = [picker EXCEPT !.adding = "none", !.done = picker.done \cup {picker.adding}]
          BY <1>16, <3>3 DEF AddAnswered
        <4> QED
          BY <1>0, <3>1, <4>1 DEF Pickers
      <3> QED
        BY <3>2, <3>3
    <2>3. asg' \in Versions /\ ackedAsg' \in Versions /\ ackedAsg' <= asg'
      <3>1. UNCHANGED asg \/ AsgDone
        BY <1>16 DEF AddAnswered
      <3>2. ackedAsg <= asg
        BY DEF AsgInv, AsgFresh
      <3>3. asg' \in Versions /\ asg' \in Nat /\ ackedAsg <= asg'
        BY <1>0, <1>0a, <3>1, <3>2
      <3>4. ackedAsg' \in {ackedAsg, asg'}
        BY <1>16 DEF AddAnswered
      <3> QED
        BY <1>0, <3>3, <3>4
    <2>4. UNCHANGED <<asgList, asgReqs, pickReqs, impacts, confirm, removal, asgAfter>>
      BY <1>16 DEF AddAnswered
    <2>5. AsgTypes' /\ AsgTies'
      BY <2>1, <2>2, <2>3, <2>4 DEF AsgInv, AsgTypes, AsgTies
    <2>6. AsgSearch' /\ AsgFresh'
      BY <2>1, <2>2, <2>3, <2>4 DEF AsgInv, AsgSearch, AsgFresh, AsgFollows, ResultsAreLast
    <2> QED
      BY <2>5, <2>6 DEF AsgInv
  <1>17. ASSUME NEW r \in pickReqs, NEW ok \in BOOLEAN, CandidatesAnswered(r, ok) PROVE AsgInv'
    <2>1. r \in Searches /\ \A p \in pickReqs \ {r} : r.mine => ~p.mine
      BY <1>0 DEF AsgInv, AsgTypes
    <2>2. pickReqs' = pickReqs \ {r} /\ UNCHANGED <<asg, asgList, asgReqs, impacts, confirm, removal, asgAfter, ackedAsg>>
      BY <1>17 DEF CandidatesAnswered
    <2>3. picker.kind # "none"
      BY DEF AsgInv, AsgTies
    <2>4. /\ picker' \in Pickers /\ picker'.kind = picker.kind /\ picker'.asked = picker.asked /\ picker'.adding = picker.adding
          /\ picker'.done = picker.done
          /\ ~r.mine => picker' = picker
          /\ r.mine => picker'.phase = "failed" \/ (picker'.phase = "results" /\ picker'.results = r.text)
      <3>1. CASE ~r.mine
        BY <1>0, <1>17, <3>1 DEF CandidatesAnswered
      <3>2. CASE r.mine /\ ok
        <4>1. picker' = [picker EXCEPT !.phase = "results", !.results = r.text] /\ r.text \in Texts
          BY <1>17, <2>1, <3>2 DEF CandidatesAnswered, Searches
        <4> QED
          BY <1>0, <3>2, <4>1 DEF Pickers
      <3>3. CASE r.mine /\ ~ok
        <4>1. picker' = [picker EXCEPT !.phase = "failed"]
          BY <1>17, <3>3 DEF CandidatesAnswered
        <4> QED
          BY <1>0, <3>3, <4>1 DEF Pickers
      <3> QED
        BY <2>1, <3>1, <3>2, <3>3 DEF Searches
    <2>5. AsgTypes' /\ AsgTies'
      BY <2>2, <2>3, <2>4 DEF AsgInv, AsgTypes, AsgTies
    <2>6. AsgSearch'
      <3>1. CASE r.mine
        BY <2>1, <2>2, <2>4, <3>1 DEF AsgInv, AsgSearch, ResultsAreLast
      <3>2. CASE ~r.mine
        BY <2>2, <2>4, <3>2 DEF AsgInv, AsgSearch, ResultsAreLast
      <3> QED
        BY <3>1, <3>2
    <2>7. AsgFresh'
      BY <2>2, <2>3, <2>4 DEF AsgInv, AsgFresh, AsgFollows
    <2> QED
      BY <2>5, <2>6, <2>7 DEF AsgInv
  <1>18. ASSUME NEW q \in asgReqs, ServeAsg(q) PROVE AsgInv'
    <2>1. asgReqs' = ServedAt(asgReqs, q, asg) /\ UNCHANGED <<asg, asgList, picker, pickReqs, impacts, confirm, removal, asgAfter, ackedAsg>>
      BY <1>18 DEF ServeAsg
    <2>2. /\ InFlight(asgReqs', {"list"}) /\ (Wanted(asgReqs') <=> Wanted(asgReqs))
          /\ \A p \in asgReqs' : p \in asgReqs \/ p.version = asg
      BY <1>0, <2>1, ServedRequests
    <2>3. AsgTypes' /\ AsgTies'
      BY <2>1, <2>2 DEF AsgInv, AsgTypes, AsgTies
    <2>4. AsgSearch' /\ AsgFresh'
      BY <2>1, <2>2 DEF AsgInv, AsgSearch, AsgFresh, AsgFollows, ResultsAreLast
    <2> QED
      BY <2>3, <2>4 DEF AsgInv
  <1>19. ASSUME NEW q \in asgReqs, AsgRead(q) \/ AsgReadFails(q) PROVE AsgInv'
    <2>1. /\ InFlight(asgReqs \ {q}, {"list"}) /\ (q.mine => ~Wanted(asgReqs \ {q}))
          /\ (~q.mine => (Wanted(asgReqs \ {q}) <=> Wanted(asgReqs))) /\ q \in RequestsAbout({"list"})
      BY <1>0, AnsweredRequests
    <2>2. asgReqs' = asgReqs \ {q} /\ UNCHANGED <<asg, picker, pickReqs, impacts, confirm, removal, asgAfter, ackedAsg>>
      BY <1>19 DEF AsgRead, AsgReadFails
    <2>3. CASE ~q.mine
      <3>1. UNCHANGED asgList
        BY <1>19, <2>3 DEF AsgRead, AsgReadFails
      <3>2. AsgTypes' /\ AsgTies'
        BY <2>1, <2>2, <2>3, <3>1 DEF AsgInv, AsgTypes, AsgTies
      <3>3. AsgSearch' /\ AsgFresh'
        BY <2>1, <2>2, <2>3, <3>1 DEF AsgInv, AsgSearch, AsgFresh, AsgFollows, ResultsAreLast
      <3> QED
        BY <3>2, <3>3 DEF AsgInv
    <2>4. CASE q.mine
      <3>1. asgList.state \in {"loading", "ready"}
        <4>1. Wanted(asgReqs)
          BY <2>4 DEF Wanted
        <4> QED
          BY <1>0, <4>1 DEF AsgInv, AsgTies, AsgLists
      <3>2. /\ asgList' \in AsgLists
            /\ \/ asgList'.state = "ready" /\ ~asgList'.failed /\ asgList'.version = q.version /\ q.stage = "served"
               \/ asgList'.failed /\ asgList'.state = "ready" /\ asgList.state = "ready"
               \/ asgList'.failed /\ asgList'.state = "failed" /\ asgList.state = "loading"
        <4>1. CASE AsgRead(q)
          BY <2>1, <2>4, <4>1 DEF AsgRead, AsgLists, RequestsAbout
        <4>2. CASE AsgReadFails(q) /\ asgList.state = "ready"
          <5>1. asgList' = [asgList EXCEPT !.state = "ready", !.failed = TRUE]
            BY <2>4, <4>2 DEF AsgReadFails
          <5> QED
            BY <1>0, <4>2, <5>1 DEF AsgLists
        <4>3. CASE AsgReadFails(q) /\ asgList.state = "loading"
          <5>1. asgList' = [asgList EXCEPT !.state = "failed", !.failed = TRUE]
            BY <2>4, <4>3 DEF AsgReadFails
          <5> QED
            BY <1>0, <4>3, <5>1 DEF AsgLists
        <4> QED
          BY <1>19, <3>1, <4>1, <4>2, <4>3
      <3>3. AsgTypes'
        BY <2>1, <2>2, <3>2 DEF AsgInv, AsgTypes
      <3>4. AsgTies'
        BY <2>1, <2>2, <2>4, <3>1, <3>2 DEF AsgInv, AsgTies
      <3>5. AsgSearch'
        BY <2>2 DEF AsgInv, AsgSearch, ResultsAreLast
      <3>6. AsgFresh'
        BY <2>1, <2>2, <2>4, <3>2 DEF AsgInv, AsgFresh, AsgFollows, Wanted
      <3> QED
        BY <3>3, <3>4, <3>5, <3>6 DEF AsgInv
    <2> QED
      BY <2>1, <2>3, <2>4 DEF RequestsAbout
  <1> QED
    BY <1>1, <1>2, <1>4, <1>5, <1>6, <1>8, <1>9, <1>10, <1>11, <1>12, <1>13, <1>14, <1>15, <1>16, <1>17, <1>18, <1>19 DEF AsgNext

\* Nothing changes with what is not the panel's.
LEMMA AsgRests ==
  ASSUME AsgInv, UNCHANGED asgVars
  PROVE  AsgInv'
  BY DEF asgVars, AsgInv, AsgTypes, AsgTies, AsgSearch, AsgFresh, AsgFollows, ResultsAreLast

\* What the runs check of the panel.
LEMMA AsgShows ==
  ASSUME AsgInv
  PROVE  AsgTypeOK /\ AsgFollows /\ ResultsAreLast
  <1>1. (picker.phase = "loading") = \E r \in pickReqs : r.mine
    BY DEF AsgInv, AsgSearch
  <1>2. AsgTypeOK
    <2>1. asgReqs \subseteq RequestsAbout({"list"}) /\ pickReqs \subseteq [text : Texts, mine : BOOLEAN]
      BY DEF AsgInv, AsgTypes, InFlight, Searches
    <2>2. (picker.adding # "none" => picker.kind # "none" /\ picker.adding \notin picker.done) /\ (picker.kind # "none" => asgList.state \in {"ready"})
      BY DEF AsgInv, AsgTies, NoPicker
    <2>3. asgList.state = "loading" => Wanted(asgReqs) \/ asgAfter
      BY DEF AsgInv, AsgTies
    <2> QED
      BY <1>1, <2>1, <2>2, <2>3 DEF AsgInv, AsgTypes, AsgTypeOK, AsgLists, Pickers
  <1> QED
    BY <1>2 DEF AsgInv, AsgSearch, AsgFresh

-----------------------------------------------------------------------------
(* The invitations *)

InvAbout == [page : InvPages, enabled : BOOLEAN]
InvStates == [version : Versions, enabled : BOOLEAN]
InvLists == [state : {"gone", "loading", "loaded", "failed"}, have : BOOLEAN, version : Versions, enabled : BOOLEAN, page : InvPages]
Invites == [open : BOOLEAN, reload : BOOLEAN, pending : BOOLEAN, call : InvCalls]
Cancellings == [row : InvRows \cup {"none"}, call : InvCalls]

InvTypes ==
  /\ invs \in InvStates /\ ackedInv \in Versions /\ invList \in InvLists /\ InFlight(invReqs, InvAbout)
  /\ invite \in Invites /\ resends \in [InvRows -> InvCalls] /\ cancelling \in Cancellings /\ invAfter \in InvPages \cup {0}

\* A dialog is open over a list that is there, and at most one is.
InvTies ==
  /\ invList.state = "loading" <=> Wanted(invReqs)
  /\ invList.have => invList.state # "gone"
  /\ invite.call.sent => invite.open
  /\ cancelling.call.sent => cancelling.row # "none"
  /\ invite.open => cancelling.row = "none" /\ invList.have
  /\ invAfter # 0 \/ cancelling.row # "none" => invList.state # "gone"
  /\ NoCrossing

\* The answer that is wanted is of the page shown, and contains what was heard done; unless a page will be read again.
InvFresh ==
  /\ ackedInv <= invs.version
  /\ invList.state = "loaded" /\ invAfter = 0 => invList.version >= ackedInv
  /\ \A q \in invReqs : q.mine => q.about.page = invList.page /\ (q.stage = "served" /\ invAfter = 0 => q.version >= ackedInv)

InvInv == InvTypes /\ InvTies /\ InvFresh

\* The empty values are values of their kinds.
LEMMA InvNothing ==
  ASSUME RequestsAssumption
  PROVE  NoInvList \in InvLists /\ NoInvCall \in InvCalls /\ NoInvite \in Invites /\ NotCancelling \in Cancellings /\ 0 \in Versions
  <1>1. 0 \in Versions
    BY DEF RequestsAssumption, Versions
  <1>2. NoInvCall \in InvCalls
    BY DEF NoInvCall, InvCalls, InvPages
  <1>3. NoInvList \in InvLists
    BY <1>1 DEF NoInvList, InvLists, InvPages
  <1>4. NoInvite \in Invites
    BY <1>2 DEF NoInvite, Invites
  <1>5. NotCancelling \in Cancellings
    BY <1>2 DEF NotCancelling, Cancellings
  <1> QED
    BY <1>1, <1>2, <1>3, <1>4, <1>5

\* Initially the invariant of the invitations holds.
LEMMA InvStart == ASSUME RequestsAssumption, InvInit PROVE InvInv
  <1>1. invs \in InvStates /\ invs.version = 0
    BY InvNothing DEF InvInit, InvStates
  <1>2. InvTypes
    BY <1>1, InvNothing, NoRequests DEF InvInit, InvTypes
  <1>3. InvTies
    BY NoRequests DEF InvInit, InvTies, NoCrossing, NoInvList, NoInvite, NotCancelling, NoInvCall
  <1>4. InvFresh
    BY <1>1 DEF InvInit, InvFresh, NoInvList
  <1> QED
    BY <1>2, <1>3, <1>4 DEF InvInv

\* A page is asked for, and shown as the current one at once.
InvReading(p) ==
  /\ invList' \in InvLists /\ invList'.state = "loading" /\ invList'.have = invList.have /\ invList'.page = p
  /\ InFlight(invReqs', InvAbout) /\ Wanted(invReqs')
  /\ \A q \in invReqs' : q.mine => q.stage = "sent" /\ q.about.page = p

\* A list that is asked for supersedes the readings before it.
LEMMA InvReads ==
  ASSUME RequestsAssumption, InvInv, NEW p \in InvPages, loadInv(p)
  PROVE  InvReading(p)
  <1> DEFINE about == [page |-> p, enabled |-> FALSE]
  <1>1. about \in InvAbout /\ about.page = p
    BY DEF InvAbout
  <1>2. invReqs' = Asked(invReqs, about) /\ InFlight(invReqs, InvAbout) /\ invList \in InvLists
        /\ invList' = [invList EXCEPT !.state = "loading", !.page = p]
    BY DEF loadInv, InvInv, InvTypes
  <1> HIDE DEF about
  <1>3. /\ InFlight(invReqs', InvAbout) /\ Wanted(invReqs')
        /\ \A q \in invReqs' : q.mine => q.stage = "sent" /\ q.about = about
    BY <1>1, <1>2, AskedRequests
  <1>4. invList' \in InvLists /\ invList'.state = "loading" /\ invList'.have = invList.have /\ invList'.page = p
    BY <1>2 DEF InvLists
  <1> QED
    BY <1>1, <1>3, <1>4 DEF InvReading

\* What an operation changes on the server.
LEMMA InvServed ==
  ASSUME RequestsAssumption, InvInv, InvLost
  PROVE  /\ invs' \in InvStates /\ ackedInv <= invs'.version /\ invs'.version \in Versions /\ invs'.version \in Nat
         /\ invs'.version >= invs.version
  <1>1. invs \in InvStates /\ invs.version \in Versions /\ invs.version \in Nat /\ ackedInv \in Nat /\ ackedInv <= invs.version
    BY DEF InvInv, InvTypes, InvFresh, InvStates, Versions
  <1>2. CASE InvDone
    <2>1. invs' = [invs EXCEPT !.version = invs.version + 1]
      BY <1>2 DEF InvDone
    <2>2. invs.version + 1 \in Versions
      BY <1>1, <1>2 DEF InvDone, Versions, RequestsAssumption
    <2>3. invs' \in InvStates /\ invs'.version = invs.version + 1
      BY <1>1, <2>1, <2>2 DEF InvStates
    <2> QED
      BY <1>1, <2>2, <2>3
  <1>3. CASE UNCHANGED invs
    BY <1>1, <1>3
  <1> QED
    BY <1>2, <1>3 DEF InvLost

\* After an operation, or with a dialog closed, a page is read.
LEMMA InvReloads ==
  ASSUME RequestsAssumption, InvInv, NEW p \in InvPages, loadInv(p), invs' \in InvStates,
         ackedInv' \in Versions, ackedInv' <= invs'.version, invite' = invite \/ invite' = NoInvite,
         resends' \in [InvRows -> InvCalls], \A row \in InvRows : resends'[row].sent => resends[row].sent,
         UNCHANGED cancelling, invAfter' \in {invAfter, 0}
  PROVE  InvInv'
  <1>1. InvReading(p)
    BY InvReads
  <1>2. InvTypes'
    BY <1>1, InvNothing DEF InvReading, InvInv, InvTypes
  <1>3. cancelling \in Cancellings
    BY DEF InvInv, InvTypes
  <1>4. NoCrossing'
    BY <1>3 DEF InvInv, InvTies, NoCrossing, Cancellings
  <1>5. InvTies'
    BY <1>1, <1>4 DEF InvReading, InvInv, InvTies, NoInvite, NoInvCall
  <1>6. InvFresh'
    BY <1>1 DEF InvReading, InvFresh
  <1> QED
    BY <1>2, <1>5, <1>6 DEF InvInv

\* The page stays as it is: an operation is asked for, fails or is heard of.
LEMMA InvStays ==
  ASSUME InvInv, UNCHANGED <<invList, invReqs>>, invs' \in InvStates, invs'.version \in Nat, invs.version \in Nat,
         invs'.version >= invs.version,
         ackedInv' \in Versions, ackedInv' <= invs'.version, ackedInv' = ackedInv \/ invAfter' # 0,
         invite' \in Invites, invite'.call.sent => invite'.open, invite'.open => cancelling'.row = "none" /\ invList.have,
         resends' \in [InvRows -> InvCalls],
         cancelling' \in Cancellings, cancelling'.call.sent => cancelling'.row # "none", NoCrossing',
         invAfter' \in InvPages \cup {0}, invAfter # 0 => invAfter' # 0,
         invAfter' # 0 \/ cancelling'.row # "none" => invList.state # "gone"
  PROVE  InvInv'
  <1>1. InvTypes'
    BY DEF InvInv, InvTypes
  <1>2. InvTies'
    BY DEF InvInv, InvTies
  <1>3. InvFresh'
    BY DEF InvInv, InvFresh
  <1> QED
    BY <1>1, <1>2, <1>3 DEF InvInv

\* Every step of the invitations keeps the invariant.
LEMMA InvStep ==
  ASSUME RequestsAssumption, InvInv, InvNext
  PROVE  InvInv'
  <1>0. /\ invs \in InvStates /\ invs.version \in Nat /\ ackedInv \in Versions /\ ackedInv <= invs.version
        /\ invList \in InvLists /\ InFlight(invReqs, InvAbout) /\ invite \in Invites
        /\ resends \in [InvRows -> InvCalls] /\ cancelling \in Cancellings /\ invAfter \in InvPages \cup {0}
    BY DEF InvInv, InvTypes, InvFresh, InvStates, Versions
  <1>0a. /\ invite.call.sent => invite.open
         /\ cancelling.call.sent => cancelling.row # "none"
         /\ invite.open => cancelling.row = "none" /\ invList.have
         /\ invAfter # 0 \/ cancelling.row # "none" => invList.state # "gone"
         /\ invList.have => invList.state # "gone" /\ NoCrossing
    BY DEF InvInv, InvTies
  <1>0b. invList.page \in InvPages /\ invite.call.page \in InvPages /\ cancelling.call.page \in InvPages
         /\ SentCall \in InvCalls /\ 1 \in InvPages /\ \A row \in InvRows : resends[row].page \in InvPages
    BY <1>0 DEF InvLists, Invites, Cancellings, InvCalls, SentCall, InvPages
  <1>1. CASE OpenInv \/ retryInv \/ (\E p \in InvPages : goToInvPage(p)) \/ InvAfterClosed
    <2>1. PICK p \in InvPages : loadInv(p)
      BY <1>0, <1>0b, <1>1 DEF OpenInv, retryInv, goToInvPage, InvAfterClosed
    <2>2. UNCHANGED <<invs, invite, resends, cancelling, ackedInv>> /\ invAfter' \in {invAfter, 0}
      BY <1>1 DEF OpenInv, retryInv, goToInvPage, InvAfterClosed
    <2> QED
      BY <1>0, <2>1, <2>2, InvReloads
  <1>2. CASE InvGone
    <2>1. [r \in InvRows |-> NoInvCall] \in [InvRows -> InvCalls]
      BY InvNothing
    <2>2. InvTypes'
      BY <1>0, <1>2, <2>1, InvNothing, NoRequests DEF InvGone, InvTypes
    <2>3. InvTies'
      BY <1>2, NoRequests DEF InvGone, InvTies, NoCrossing, NoInvList, NoInvite, NotCancelling, NoInvCall
    <2>4. InvFresh'
      BY <1>0, <1>2 DEF InvGone, InvFresh, NoInvList
    <2> QED
      BY <2>2, <2>3, <2>4 DEF InvInv
  <1>3. CASE InvChange
    <2>1. UNCHANGED <<invList, invReqs, invite, resends, cancelling, invAfter, ackedInv>>
      BY <1>3 DEF InvChange
    <2>2. invs' \in InvStates /\ invs'.version \in Nat /\ invs'.version >= invs.version
      <3>1. CASE InvDone
        BY <3>1, InvServed DEF InvLost
      <3>2. CASE invs' = [invs EXCEPT !.enabled = FALSE]
        <4>1. invs' \in InvStates /\ invs'.version = invs.version
          BY <1>0, <3>2 DEF InvStates
        <4> QED
          BY <1>0, <4>1
      <3> QED
        BY <1>3, <3>1, <3>2 DEF InvChange, InvDone
    <2>3. NoCrossing'
      BY <1>0a, <2>1 DEF NoCrossing, InvInv, InvTies
    <2>4. ackedInv \in Nat
      BY <1>0 DEF Versions
    <2> QED
      BY <1>0, <1>0a, <2>1, <2>2, <2>3, <2>4, InvStays
  <1>4. CASE openInvite \/ submitInvite
    <2>1. UNCHANGED <<invs, invList, invReqs, resends, cancelling, invAfter, ackedInv>>
      BY <1>4 DEF openInvite, submitInvite
    <2>2. invite' \in Invites /\ invite'.open /\ cancelling.row = "none" /\ invList.have
      <3>1. CASE openInvite
        <4>1. invite' = [NoInvite EXCEPT !.open = TRUE] /\ NoInvite \in Invites
          BY <3>1, InvNothing DEF openInvite
        <4> QED
          BY <3>1, <4>1 DEF openInvite, InvPageFree, Invites
      <3>2. CASE submitInvite
        <4>1. invite' = [invite EXCEPT !.call = SentCall, !.pending = FALSE] /\ invite.open
          BY <3>2 DEF submitInvite, InviteDialogFree
        <4> QED
          BY <1>0, <1>0a, <1>0b, <4>1 DEF Invites
      <3> QED
        BY <1>4, <3>1, <3>2
    <2>3. NoCrossing'
      BY <2>1 DEF NoCrossing, InvInv, InvTies
    <2> QED
      BY <1>0, <1>0a, <2>1, <2>2, <2>3, InvStays
  <1>5. CASE closeInvite
    <2>1. invite' = NoInvite /\ UNCHANGED <<invs, resends, cancelling, invAfter, ackedInv>>
      BY <1>5 DEF closeInvite
    <2>2. CASE loadInv(invList.page)
      BY <1>0, <1>0b, <2>1, <2>2, InvReloads
    <2>3. CASE UNCHANGED <<invList, invReqs>>
      <3>1. invite' \in Invites /\ ~invite'.open /\ ~invite'.call.sent /\ NoCrossing'
        BY <2>1, InvNothing DEF NoInvite, NoInvCall, NoCrossing, InvInv, InvTies
      <3> QED
        BY <1>0, <1>0a, <2>1, <2>3, <3>1, InvStays
    <2> QED
      BY <1>5, <2>2, <2>3 DEF closeInvite
  <1>6. CASE showPendingRow
    <2>1. /\ invite' = NoInvite /\ invAfter' \in InvPages /\ invite.open
          /\ UNCHANGED <<invs, invList, invReqs, resends, cancelling, ackedInv>>
      BY <1>6 DEF showPendingRow, InviteDialogFree
    <2>2. invite' \in Invites /\ ~invite'.open /\ ~invite'.call.sent /\ NoCrossing' /\ invAfter' # 0
      BY <2>1, InvNothing DEF NoInvite, NoInvCall, NoCrossing, InvInv, InvTies, InvPages
    <2> QED
      BY <1>0, <1>0a, <2>1, <2>2, InvStays
  <1>7. ASSUME NEW row \in InvRows, resend(row) \/ requestCancel(row) PROVE InvInv'
    <2>1. /\ invList.state # "gone" /\ ~invite.open /\ cancelling.row = "none"
          /\ UNCHANGED <<invs, invList, invReqs, invite, invAfter, ackedInv>>
      BY <1>7 DEF resend, requestCancel, InvRowsShown, InvPageFree
    <2>2. CASE resend(row)
      <3>1. resends' \in [InvRows -> InvCalls] /\ UNCHANGED cancelling
        BY <1>0, <1>0b, <2>2 DEF resend
      <3>2. NoCrossing'
        BY <2>1, <3>1 DEF NoCrossing
      <3> QED
        BY <1>0, <1>0a, <2>1, <3>1, <3>2, InvStays
    <2>3. CASE requestCancel(row)
      <3>1. cancelling' = [NotCancelling EXCEPT !.row = row] /\ UNCHANGED resends /\ ~resends[row].sent
        BY <2>3 DEF requestCancel
      <3>2. cancelling' \in Cancellings /\ cancelling'.row = row /\ ~cancelling'.call.sent
        BY <3>1, InvNothing DEF NotCancelling, NoInvCall, Cancellings
      <3>3. NoCrossing'
        BY <3>1, <3>2 DEF NoCrossing
      <3> QED
        BY <1>0, <1>0a, <2>1, <3>1, <3>2, <3>3, InvStays
    <2> QED
      BY <1>7, <2>2, <2>3
  <1>8. CASE closeCancel \/ confirmCancel
    <2>1. UNCHANGED <<invs, invList, invReqs, invite, resends, invAfter, ackedInv>> /\ cancelling.row # "none"
      BY <1>8 DEF closeCancel, confirmCancel, CancelDialogFree
    <2>2. CASE closeCancel
      <3>1. cancelling' \in Cancellings /\ cancelling'.row = "none" /\ ~cancelling'.call.sent
        BY <2>2, InvNothing DEF closeCancel, NotCancelling, NoInvCall
      <3>2. NoCrossing'
        BY <3>1 DEF NoCrossing
      <3> QED
        BY <1>0, <1>0a, <2>1, <3>1, <3>2, InvStays
    <2>3. CASE confirmCancel
      <3>1. cancelling' \in Cancellings /\ cancelling'.row = cancelling.row
        BY <1>0, <1>0b, <2>3 DEF confirmCancel, Cancellings
      <3>2. NoCrossing'
        BY <2>1, <3>1 DEF NoCrossing, InvInv, InvTies
      <3> QED
        BY <1>0, <1>0a, <2>1, <3>1, <3>2, InvStays
    <2> QED
      BY <1>8, <2>2, <2>3
  <1>9. CASE InviteDone
    <2>1. InvDone /\ invite' = NoInvite /\ loadInv(1) /\ ackedInv' = invs'.version /\ UNCHANGED <<resends, cancelling, invAfter>>
      BY <1>9 DEF InviteDone
    <2>2. invs' \in InvStates /\ ackedInv' \in Versions /\ ackedInv' <= invs'.version
      BY <2>1, InvServed DEF InvLost
    <2> QED
      BY <1>0, <1>0b, <2>1, <2>2, InvReloads
  <1>10. ASSUME NEW why \in {"pending", "notConfigured", "lost"}, InviteFails(why) PROVE InvInv'
    <2>1. InvLost /\ UNCHANGED <<invList, invReqs, resends, cancelling, invAfter, ackedInv>> /\ invite.call.sent
      BY <1>10 DEF InviteFails, InvLost
    <2>2. /\ invite' \in Invites /\ invite'.open = invite.open /\ ~invite'.call.sent
      <3>1. invite' = [invite EXCEPT !.call = NoInvCall, !.pending = (why = "pending"), !.reload = invite.reload \/ why = "notConfigured"]
        BY <1>10 DEF InviteFails
      <3>2. (invite.reload \/ why = "notConfigured") \in BOOLEAN /\ (why = "pending") \in BOOLEAN
        OBVIOUS
      <3> QED
        BY <1>0, <3>1, <3>2, InvNothing DEF Invites, NoInvCall
    <2>3. invs' \in InvStates /\ ackedInv' <= invs'.version /\ invs'.version \in Nat /\ invs'.version >= invs.version
      BY <2>1, InvServed
    <2>4. NoCrossing'
      BY <2>1 DEF NoCrossing, InvInv, InvTies
    <2> QED
      BY <1>0, <1>0a, <2>1, <2>2, <2>3, <2>4, InvStays
  <1>11. ASSUME NEW row \in InvRows, ResendDone(row) \/ (\E why \in {"notFound", "notConfigured", "lost"} : ResendFails(row, why))
         PROVE  InvInv'
    <2>1. /\ InvLost /\ resends' = [resends EXCEPT ![row] = NoInvCall] /\ UNCHANGED <<invite, cancelling, invAfter>>
          /\ \/ loadInv(resends[row].page) /\ (ackedInv' = invs'.version \/ UNCHANGED ackedInv)
             \/ UNCHANGED <<invList, invReqs, ackedInv>>
      <3>1. CASE ResendDone(row)
        BY <3>1 DEF ResendDone, InvLost
      <3>2. ASSUME NEW why \in {"notFound", "notConfigured", "lost"}, ResendFails(row, why)
            PROVE  /\ InvLost /\ resends' = [resends EXCEPT ![row] = NoInvCall] /\ UNCHANGED <<invite, cancelling, invAfter>>
                   /\ (loadInv(resends[row].page) /\ UNCHANGED ackedInv) \/ UNCHANGED <<invList, invReqs, ackedInv>>
        BY <3>2 DEF ResendFails, InvLost
      <3> QED
        BY <1>11, <3>1, <3>2
    <2>2. /\ invs' \in InvStates /\ ackedInv <= invs'.version /\ invs'.version \in Versions /\ invs'.version \in Nat
          /\ invs'.version >= invs.version
      BY <2>1, InvServed
    <2>3. /\ resends' \in [InvRows -> InvCalls] /\ \A r \in InvRows : resends'[r].sent => resends[r].sent
      BY <1>0, <2>1, InvNothing DEF NoInvCall
    <2>4. NoCrossing'
      BY <1>0, <2>1, <2>3 DEF NoCrossing, InvInv, InvTies, Cancellings
    <2>5. CASE loadInv(resends[row].page) /\ (ackedInv' = invs'.version \/ UNCHANGED ackedInv)
      BY <1>0, <1>0b, <2>1, <2>2, <2>3, <2>5, InvReloads
    <2>6. CASE UNCHANGED <<invList, invReqs, ackedInv>>
      BY <1>0, <1>0a, <2>1, <2>2, <2>3, <2>4, <2>6, InvStays
    <2> QED
      BY <2>1, <2>5, <2>6
  <1>12. CASE CancelDone \/ (\E why \in {"notFound", "lost"} : CancelFails(why))
    <2>1. /\ InvLost /\ cancelling.call.sent /\ cancelling' = NotCancelling /\ UNCHANGED <<invList, invReqs, invite, resends>>
          /\ \/ invAfter' = cancelling.call.page /\ ackedInv' = invs'.version
             \/ invAfter' \in {cancelling.call.page, invAfter} /\ UNCHANGED ackedInv
      <3>1. CASE CancelDone
        BY <3>1 DEF CancelDone, InvLost
      <3>2. ASSUME NEW why \in {"notFound", "lost"}, CancelFails(why)
            PROVE  /\ InvLost /\ cancelling.call.sent /\ cancelling' = NotCancelling /\ UNCHANGED <<invList, invReqs, invite, resends>>
                   /\ invAfter' \in {cancelling.call.page, invAfter} /\ UNCHANGED ackedInv
        BY <3>2 DEF CancelFails, InvLost
      <3> QED
        BY <1>12, <3>1, <3>2
    <2>2. /\ invs' \in InvStates /\ ackedInv <= invs'.version /\ invs'.version \in Versions /\ invs'.version \in Nat
          /\ invs'.version >= invs.version
      BY <2>1, InvServed
    <2>3. cancelling' \in Cancellings /\ cancelling'.row = "none" /\ ~cancelling'.call.sent /\ NoCrossing'
      BY <2>1, InvNothing DEF NotCancelling, NoInvCall, NoCrossing
    <2>4. /\ invAfter' \in InvPages \cup {0} /\ (invAfter # 0 => invAfter' # 0) /\ invList.state # "gone"
          /\ ackedInv' \in Versions /\ ackedInv' <= invs'.version /\ (ackedInv' = ackedInv \/ invAfter' # 0)
      <3>1. cancelling.call.page # 0
        BY <1>0b DEF InvPages
      <3> QED
        BY <1>0, <1>0a, <1>0b, <2>1, <2>2, <3>1
    <2> QED
      BY <1>0, <1>0a, <2>1, <2>2, <2>3, <2>4, InvStays
  <1>13. ASSUME NEW q \in invReqs, ServeInv(q) PROVE InvInv'
    <2> DEFINE a == [q.about EXCEPT !.enabled = invs.enabled]
               s == [q EXCEPT !.stage = "served", !.version = invs.version, !.about = a]
    <2>1. q \in RequestsAbout(InvAbout) /\ q.about \in InvAbout /\ invs.enabled \in BOOLEAN /\ invs.version \in Versions
      BY <1>0 DEF InFlight, RequestsAbout, InvStates
    <2>2. a \in InvAbout /\ a.page = q.about.page
      BY <2>1 DEF InvAbout
    <2>3. invReqs' = (invReqs \ {q}) \cup {s} /\ UNCHANGED <<invs, invList, invite, resends, cancelling, invAfter, ackedInv>>
      BY <1>13 DEF ServeInv
    <2>4. s \in RequestsAbout(InvAbout) /\ (s.mine <=> q.mine) /\ s.about = a /\ s.version = invs.version
      <3> HIDE DEF a
      <3> QED
        BY <2>1, <2>2 DEF RequestsAbout
    <2> HIDE DEF a, s
    <2>5. InFlight(invReqs', InvAbout) /\ (Wanted(invReqs') <=> Wanted(invReqs))
      BY <1>0, <2>3, <2>4 DEF InFlight, Wanted
    <2>6. InvTypes'
      BY <2>3, <2>5 DEF InvInv, InvTypes
    <2>7. InvTies'
      BY <2>3, <2>5 DEF InvInv, InvTies, NoCrossing
    <2>8. InvFresh'
      BY <2>2, <2>3, <2>4 DEF InvInv, InvFresh
    <2> QED
      BY <2>6, <2>7, <2>8 DEF InvInv
  <1>14. ASSUME NEW q \in invReqs, EmptyInvPage(q) PROVE InvInv'
    <2> DEFINE a == [page |-> 1, enabled |-> FALSE]
    <2>1. /\ invReqs' = (invReqs \ {q}) \cup {Request(a)} /\ invList' = [invList EXCEPT !.page = 1] /\ q.mine
          /\ UNCHANGED <<invs, invite, resends, cancelling, invAfter, ackedInv>>
      BY <1>14 DEF EmptyInvPage
    <2>2. a \in InvAbout /\ a.page = 1
      BY <1>0b DEF InvAbout
    <2> HIDE DEF a
    <2>3. Request(a) \in RequestsAbout(InvAbout) /\ Request(a).mine /\ Request(a).stage = "sent" /\ Request(a).about = a
      BY <2>2, InvNothing DEF Request, RequestsAbout
    <2>4. \A p \in invReqs \ {q} : ~p.mine /\ p \in RequestsAbout(InvAbout)
      <3>1. \A p \in invReqs : p.mine => p = q
        BY <1>0, <2>1 DEF InFlight
      <3> QED
        BY <1>0, <3>1 DEF InFlight
    <2>5. InFlight(invReqs', InvAbout) /\ Wanted(invReqs') /\ Wanted(invReqs)
      BY <2>1, <2>3, <2>4 DEF InFlight, Wanted
    <2>6. /\ invList' \in InvLists /\ invList'.page = 1 /\ invList'.state = invList.state /\ invList'.have = invList.have
          /\ invList'.version = invList.version
      BY <1>0, <1>0b, <2>1 DEF InvLists
    <2>7. InvTypes'
      BY <2>1, <2>5, <2>6 DEF InvInv, InvTypes
    <2>8. InvTies'
      BY <2>1, <2>5, <2>6 DEF InvInv, InvTies, NoCrossing
    <2>9. InvFresh'
      BY <2>1, <2>2, <2>3, <2>4, <2>6 DEF InvInv, InvFresh
    <2> QED
      BY <2>7, <2>8, <2>9 DEF InvInv
  <1>15. ASSUME NEW q \in invReqs, InvRead(q) \/ InvReadFails(q) PROVE InvInv'
    <2>1. /\ InFlight(invReqs \ {q}, InvAbout) /\ (q.mine => ~Wanted(invReqs \ {q}))
          /\ (~q.mine => (Wanted(invReqs \ {q}) <=> Wanted(invReqs))) /\ q \in RequestsAbout(InvAbout)
      BY <1>0, AnsweredRequests
    <2>2. invReqs' = invReqs \ {q} /\ UNCHANGED <<invs, invite, resends, cancelling, invAfter, ackedInv>>
      BY <1>15 DEF InvRead, InvReadFails
    <2>3. CASE ~q.mine
      <3>1. UNCHANGED invList
        BY <1>15, <2>3 DEF InvRead, InvReadFails
      <3>2. InvTypes'
        BY <2>1, <2>2, <3>1 DEF InvInv, InvTypes
      <3>3. InvTies'
        BY <2>1, <2>2, <2>3, <3>1 DEF InvInv, InvTies, NoCrossing
      <3>4. InvFresh'
        BY <2>2, <3>1 DEF InvInv, InvFresh
      <3> QED
        BY <3>2, <3>3, <3>4 DEF InvInv
    <2>4. CASE q.mine
      <3>1. Wanted(invReqs) /\ invList.state = "loading"
        BY <2>4 DEF Wanted, InvInv, InvTies
      <3>2. /\ invList' \in InvLists /\ invList'.page = invList.page /\ (invList.have => invList'.have)
            /\ invList'.state = "failed" \/ (invList'.state = "loaded" /\ invList'.version = q.version /\ q.stage = "served")
        <4>1. q.about.enabled \in BOOLEAN /\ q.version \in Versions
          BY <2>1 DEF RequestsAbout, InvAbout
        <4>2. CASE InvRead(q)
          BY <1>0, <2>4, <4>1, <4>2 DEF InvRead, InvLists
        <4>3. CASE InvReadFails(q)
          BY <1>0, <2>4, <4>3 DEF InvReadFails, InvLists
        <4> QED
          BY <1>15, <4>2, <4>3
      <3>3. InvTypes'
        BY <2>1, <2>2, <3>2 DEF InvInv, InvTypes
      <3>4. InvTies'
        BY <2>1, <2>2, <2>4, <3>2 DEF InvInv, InvTies, NoCrossing
      <3>5. InvFresh'
        BY <2>1, <2>2, <2>4, <3>2 DEF InvInv, InvFresh, Wanted
      <3> QED
        BY <3>3, <3>4, <3>5 DEF InvInv
    <2> QED
      BY <2>1, <2>3, <2>4 DEF RequestsAbout
  <1> QED
    BY <1>1, <1>2, <1>3, <1>4, <1>5, <1>6, <1>7, <1>8, <1>9, <1>10, <1>11, <1>12, <1>13, <1>14, <1>15 DEF InvNext

\* Nothing changes with what is not the page's.
LEMMA InvRests ==
  ASSUME InvInv, UNCHANGED invVars
  PROVE  InvInv'
  BY DEF invVars, InvInv, InvTypes, InvTies, InvFresh, NoCrossing

\* What the runs check of the page.
LEMMA InvShows ==
  ASSUME InvInv
  PROVE  InvTypeOK /\ InvRowsFollow /\ NoCrossing
  <1>1. (invList.state = "loading") = Wanted(invReqs)
    <2>1. Wanted(invReqs) \in BOOLEAN
      BY DEF Wanted
    <2> QED
      BY <2>1 DEF InvInv, InvTies
  <1>2. InvTypeOK
    BY <1>1 DEF InvInv, InvTypes, InvTies, InvFresh, InvTypeOK, InFlight, InvAbout, InvStates, InvLists, Invites, Cancellings
  <1>3. InvRowsFollow /\ NoCrossing
    BY DEF InvInv, InvTies, InvFresh, InvRowsFollow, InvRowsShown
  <1> QED
    BY <1>2, <1>3

-----------------------------------------------------------------------------
(* The settings of the user *)

PrefPages == [phase : {"absent", "loading", "loadFailed", "ready", "saving"}, version : Versions, dirty : BOOLEAN]
PrefZones == [status : {"loading", "ready", "error"}, version : Versions]
PrefAccounts == [epoch : Epochs, version : Versions]
PrefExchanges == [stage : {"none", "sent", "served"}, version : Versions, number : Epochs]

PrefTypes ==
  /\ prefs \in Versions /\ acked \in Versions /\ acked <= prefs /\ outlived \in BOOLEAN /\ overtaken \in BOOLEAN
  /\ account \in PrefAccounts /\ exchange \in PrefExchanges /\ savedUser \in PrefAccounts /\ preview \in Epochs /\ stored \in Versions
  /\ zone \in PrefZones /\ InFlight(zoneReqs, {"zone"})
  /\ page \in PrefPages /\ InFlight(loads, {"page"}) /\ InFlight(saves, Epochs)

\* The login state is the last there was, or none; only a save that outlived its page binds to an earlier one.
PrefBindings ==
  /\ account.epoch \in {0, exchange.number} /\ savedUser.epoch <= exchange.number
  /\ ~outlived => savedUser.epoch \in {0, account.epoch}
  /\ preview \in {0, account.epoch}

\* What a save is bound to once its page is gone.
PrefSaves == \A q \in saves : q.version <= prefs /\ (q.mine <=> q.about = 0) /\ q.about <= exchange.number

\* And nothing is wanted that no page or login state waits for.
PrefTies ==
  /\ PrefBindings /\ PrefSaves
  /\ exchange.stage # "none" => exchange.number < MaxEpoch
  /\ page.phase = "loading" <=> Wanted(loads)
  /\ page.phase = "saving" <=> Wanted(saves)
  /\ loggedIn /\ zone.status = "loading" => Wanted(zoneReqs)
  /\ ~loggedIn => page = NoPage /\ zone = ZoneLoading /\ ~Wanted(zoneReqs)
  /\ PreviewEndsWithPage
  /\ ~outlived => \A q \in saves : q.mine

\* What is shown, and what is wanted and on its way, is not older than the last save this tab knows of.
PrefFresh ==
  ~outlived =>
    /\ loggedIn /\ ~overtaken => chooseBase >= acked
    /\ zone.status = "ready" => zone.version >= acked
    /\ \A q \in zoneReqs \cup loads \cup saves : q.mine /\ q.stage = "served" => q.version >= acked

PrefInv == PrefTypes /\ PrefTies /\ PrefFresh

\* The empty values are values of their kinds.
LEMMA PrefNothing ==
  ASSUME RequestsAssumption, PreferencesAssumption
  PROVE  /\ 0 \in Versions /\ 0 \in Epochs /\ LoggedOut \in PrefAccounts /\ NoPreferences \in PrefAccounts /\ NoPage \in PrefPages
         /\ ZoneLoading \in PrefZones /\ NoExchange \in PrefExchanges
  <1>1. 0 \in Versions /\ 0 \in Epochs
    BY DEF RequestsAssumption, Versions, PreferencesAssumption, Epochs
  <1> QED
    BY <1>1 DEF LoggedOut, NoPreferences, PrefAccounts, NoPage, PrefPages, ZoneLoading, PrefZones, NoExchange, PrefExchanges

\* Initially the invariant of the settings holds.
LEMMA PrefStart == ASSUME RequestsAssumption, PreferencesAssumption, PreferencesInit PROVE PrefInv
  <1>0. prefs = 0 /\ acked = 0 /\ 0 <= 0
    BY DEF PreferencesInit
  <1>1. PrefTypes
    BY <1>0, PrefNothing, NoRequests DEF PreferencesInit, PrefTypes
  <1>2. PrefTies
    BY NoRequests DEF PreferencesInit, PrefTies, PrefBindings, PrefSaves, LoggedOut, NoPreferences, NoExchange, NoPage, loggedIn, PreviewEndsWithPage
  <1>3. PrefFresh
    BY DEF PreferencesInit, PrefFresh, LoggedOut, loggedIn, ZoneLoading
  <1> QED
    BY <1>1, <1>2, <1>3 DEF PrefInv

\* What is bound to the login state: settings and a preview, together with what the user sees.
PrefBound ==
  /\ account \in PrefAccounts /\ savedUser \in PrefAccounts /\ preview \in Epochs /\ stored \in Versions
  /\ PrefBindings

\* A new login state: the settings of the screen are those it brings.
LEMMA PrefNewLogin ==
  ASSUME RequestsAssumption, PreferencesAssumption, PrefInv, NEW next \in PrefAccounts, NewLoginState(next),
         next.epoch = 0 \/ next.epoch > exchange.number, next.epoch \in {0, exchange'.number}, exchange'.number \in Epochs
  PROVE  /\ PrefBound' /\ account' = next /\ (preview = 0 => preview' = 0)
         /\ next.epoch # 0 => chooseBase' = next.version /\ loggedIn'
         /\ next.epoch = 0 => ~loggedIn'
  <1>1. /\ account \in PrefAccounts /\ savedUser \in PrefAccounts /\ savedUser.epoch <= exchange.number /\ preview \in {0, account.epoch}
        /\ stored \in Versions /\ preview \in Epochs /\ account.epoch \in {0, exchange.number} /\ exchange \in PrefExchanges
    BY DEF PrefInv, PrefTypes, PrefTies, PrefBindings
  <1>2. account.epoch \in Nat /\ exchange.number \in Nat /\ savedUser.epoch \in Nat /\ next.epoch \in Nat
    BY <1>1 DEF PrefAccounts, PrefExchanges, Epochs
  <1>3. account' = next /\ savedUser' = (IF savedUser.epoch = next.epoch THEN savedUser ELSE NoPreferences)
        /\ preview' = (IF preview = next.epoch THEN preview ELSE 0) /\ stored' = (IF next.epoch = 0 THEN stored ELSE next.version)
    BY DEF NewLoginState, discardStaleBindings, rememberUserSettings
  <1>4. savedUser' \in PrefAccounts /\ savedUser'.epoch = 0
    BY <1>1, <1>2, <1>3, PrefNothing DEF NoPreferences
  <1>5. preview' = 0
    BY <1>1, <1>2, <1>3
  <1>6. stored' \in Versions
    BY <1>1, <1>3 DEF PrefAccounts
  <1>7. 0 <= exchange'.number
    BY DEF Epochs
  <1>8. PrefBindings'
    BY <1>3, <1>4, <1>5, <1>7 DEF PrefBindings
  <1> QED
    BY <1>3, <1>4, <1>5, <1>6, <1>8, PrefNothing DEF PrefBound, chooseBase, loggedIn

\* Settings that were saved or read are those of the screen and of the dates.
LEMMA PrefApplied ==
  ASSUME RequestsAssumption, PreferencesAssumption, PrefInv, NEW version \in Versions, loggedIn, UNCHANGED <<account, exchange, outlived>>,
         applyUserPreferences(account.epoch, version) \/ (chooseBase = version /\ UNCHANGED <<savedUser, preview, stored>>), applySaved(version)
  PROVE  /\ PrefBound' /\ chooseBase' = version /\ (preview = 0 => preview' = 0)
         /\ zone' \in PrefZones /\ zone'.status = "ready" /\ zone'.version = version /\ InFlight(zoneReqs', {"zone"}) /\ ~Wanted(zoneReqs')
  <1>1. /\ account \in PrefAccounts /\ savedUser \in PrefAccounts /\ PrefBindings
        /\ stored \in Versions /\ preview \in Epochs /\ InFlight(zoneReqs, {"zone"})
    BY DEF PrefInv, PrefTypes, PrefTies
  <1>2. zone' = [status |-> "ready", version |-> version] /\ zoneReqs' = Dropped(zoneReqs)
    BY DEF applySaved
  <1>3. zone' \in PrefZones /\ zone'.status = "ready" /\ zone'.version = version /\ InFlight(zoneReqs', {"zone"}) /\ ~Wanted(zoneReqs')
    BY <1>1, <1>2, DroppedRequests DEF PrefZones
  <1>4. CASE applyUserPreferences(account.epoch, version)
    <2>1. savedUser' = [epoch |-> account.epoch, version |-> version] /\ preview' = 0 /\ stored' = version
      BY <1>4 DEF applyUserPreferences, loggedIn
    <2>2. savedUser' \in PrefAccounts /\ savedUser'.epoch = account.epoch /\ savedUser'.version = version
      BY <1>1, <2>1 DEF PrefAccounts
    <2>3. account.epoch <= exchange.number
      BY <1>1 DEF PrefBindings, PrefAccounts, Epochs, loggedIn
    <2>4. PrefBindings'
      BY <1>1, <2>1, <2>2, <2>3 DEF PrefBindings
    <2> QED
      BY <1>1, <1>3, <2>1, <2>2, <2>4, PrefNothing DEF PrefBound, chooseBase, loggedIn
  <1>5. CASE chooseBase = version /\ UNCHANGED <<savedUser, preview, stored>>
    BY <1>1, <1>3, <1>5 DEF PrefBound, PrefBindings, chooseBase, loggedIn
  <1> QED
    BY <1>4, <1>5

\* The page goes: its save is bound to the login state of its last render.
LEMMA PrefUnmounts ==
  ASSUME PrefInv, Unmount, exchange'.number = exchange.number, UNCHANGED prefs
  PROVE  /\ page' = NoPage /\ InFlight(loads', {"page"}) /\ InFlight(saves', Epochs) /\ ~Wanted(loads') /\ ~Wanted(saves')
         /\ outlived' \in BOOLEAN /\ (~outlived' => ~outlived /\ saves' = {})
         /\ PrefSaves'
  <1>1. InFlight(loads, {"page"}) /\ InFlight(saves, Epochs) /\ outlived \in BOOLEAN /\ account \in PrefAccounts
    BY DEF PrefInv, PrefTypes
  <1>2. page' = NoPage /\ loads' = Dropped(loads) /\ saves' = {Parted(q) : q \in saves} /\ (outlived' <=> outlived \/ Wanted(saves))
        /\ outlived' \in BOOLEAN
    BY DEF Unmount
  <1>3. ~outlived /\ ~Wanted(saves) => saves = {}
    BY DEF PrefInv, PrefTies, Wanted
  <1>4. ASSUME NEW q \in saves
        PROVE  /\ Parted(q) \in RequestsAbout(Epochs) /\ ~Parted(q).mine /\ Parted(q).about # 0
               /\ Parted(q).about <= exchange.number /\ Parted(q).version <= prefs
    <2>1. q \in RequestsAbout(Epochs) /\ q.version <= prefs /\ (q.mine <=> q.about = 0) /\ q.about <= exchange.number
      BY <1>1 DEF InFlight, PrefInv, PrefTies, PrefSaves
    <2>2. CASE ~q.mine
      BY <2>1, <2>2 DEF Parted
    <2>3. CASE q.mine
      <3>1. account.epoch # 0 /\ account.epoch \in Epochs /\ account.epoch = exchange.number
        BY <1>1, <2>3 DEF PrefInv, PrefTies, PrefBindings, Wanted, NoPage, loggedIn, PrefAccounts
      <3>2. Parted(q) = [q EXCEPT !.mine = FALSE, !.about = account.epoch]
        BY <2>3 DEF Parted
      <3>3. Parted(q) \in RequestsAbout(Epochs) /\ ~Parted(q).mine /\ Parted(q).about = account.epoch /\ Parted(q).version = q.version
        BY <2>1, <3>1, <3>2 DEF RequestsAbout
      <3>4. account.epoch <= exchange.number
        BY <3>1 DEF Epochs
      <3> QED
        BY <2>1, <3>1, <3>3, <3>4
    <2> QED
      BY <2>2, <2>3
  <1>5. InFlight(saves', Epochs) /\ ~Wanted(saves') /\ PrefSaves'
    BY <1>2, <1>4 DEF InFlight, Wanted, PrefSaves
  <1>6. InFlight(loads', {"page"}) /\ ~Wanted(loads')
    BY <1>1, <1>2, DroppedRequests
  <1>7. ~outlived' => ~outlived /\ saves' = {}
    BY <1>2, <1>3
  <1> QED
    BY <1>2, <1>5, <1>6, <1>7

\* The exchanges of the session.
LEMMA PrefSession ==
  ASSUME RequestsAssumption, PreferencesAssumption, PrefInv, ExchangeSent \/ ExchangeServed \/ Renewed \/ SessionEnded
  PROVE  PrefInv'
  <1>0. /\ prefs \in Versions /\ account \in PrefAccounts /\ exchange \in PrefExchanges /\ account.epoch \in Epochs /\ account.epoch \in Nat
        /\ exchange.version \in Versions /\ acked \in Nat /\ exchange.version \in Nat /\ exchange.number \in Epochs /\ exchange.number \in Nat
    BY DEF PrefInv, PrefTypes, PrefAccounts, PrefExchanges, Epochs, Versions
  <1>1. CASE ExchangeSent \/ ExchangeServed
    <2>1. /\ exchange' \in PrefExchanges /\ exchange'.number = exchange.number /\ exchange.number < MaxEpoch
          /\ UNCHANGED <<prefs, account, savedUser, preview, stored, zone, zoneReqs, page, loads, saves, acked, outlived, overtaken>>
      BY <1>0, <1>1, PrefNothing DEF ExchangeSent, ExchangeServed, PrefExchanges, PrefInv, PrefTies
    <2>2. PrefTypes'
      BY <2>1 DEF PrefInv, PrefTypes
    <2>3. PrefTies' /\ PrefFresh'
      BY <2>1 DEF PrefInv, PrefTies, PrefBindings, PrefSaves, PrefFresh, loggedIn, chooseBase, PreviewEndsWithPage
    <2> QED
      BY <2>2, <2>3 DEF PrefInv
  <1>2. CASE Renewed
    <2> DEFINE next == [epoch |-> exchange.number + 1, version |-> exchange.version]
    <2>1. exchange.number < MaxEpoch
      BY <1>2 DEF Renewed, PrefInv, PrefTies
    <2>2. exchange.number + 1 \in Epochs /\ exchange.number + 1 > exchange.number
      BY <1>0, <2>1 DEF Epochs, PreferencesAssumption
    <2>3. next \in PrefAccounts /\ next.epoch = exchange.number + 1 /\ next.version = exchange.version /\ next.epoch # 0
      BY <1>0, <2>2 DEF PrefAccounts
    <2>4. NewLoginState(next)
      BY <1>2 DEF Renewed
    <2> HIDE DEF next
    <2>10. exchange' \in PrefExchanges /\ exchange'.stage = "none" /\ exchange'.number = exchange.number + 1
      BY <1>2, <2>2, PrefNothing DEF Renewed, NoExchange, PrefExchanges
    <2>5. PrefBound' /\ (preview = 0 => preview' = 0) /\ chooseBase' = exchange.version /\ loggedIn'
      BY <2>2, <2>3, <2>4, <2>10, PrefNewLogin
    <2>6. /\ UNCHANGED <<prefs, page, loads, saves, acked, outlived>>
          /\ overtaken' \in BOOLEAN /\ (~overtaken' => exchange.version >= acked)
      <3>1. overtaken' = (overtaken \/ exchange.version < acked) /\ UNCHANGED <<prefs, page, loads, saves, acked, outlived>>
        BY <1>2 DEF Renewed
      <3>2. overtaken' \in BOOLEAN /\ (~overtaken' => ~(exchange.version < acked))
        BY <3>1
      <3> QED
        BY <1>0, <3>1, <3>2
    <2>7. /\ zone' \in PrefZones /\ InFlight(zoneReqs', {"zone"}) /\ (zone'.status = "loading" => Wanted(zoneReqs'))
          /\ ~outlived => /\ (zone'.status = "ready" => zone'.version >= acked)
                          /\ \A q \in zoneReqs' : q.mine /\ q.stage = "served" => q.version >= acked
      <3>1. CASE loggedIn
        BY <1>2, <3>1 DEF Renewed, PrefInv, PrefTypes, PrefTies, PrefFresh
      <3>2. CASE ~loggedIn
        <4>1. zoneReqs' = Asked(zoneReqs, "zone") /\ zone = ZoneLoading /\ zone' = ZoneLoading /\ InFlight(zoneReqs, {"zone"})
          BY <1>2, <3>2 DEF Renewed, loadZone, PrefInv, PrefTypes, PrefTies
        <4>2. /\ InFlight(zoneReqs', {"zone"}) /\ Wanted(zoneReqs') /\ \A q \in zoneReqs' : q.mine => q.stage = "sent"
          BY <4>1, AskedRequests
        <4>3. zone' \in PrefZones /\ zone'.status = "loading"
          BY <4>1, PrefNothing DEF ZoneLoading
        <4> QED
          BY <4>2, <4>3
      <3> QED
        BY <3>1, <3>2
    <2>8. PrefTypes'
      BY <2>5, <2>6, <2>7, <2>10, PrefNothing DEF PrefInv, PrefTypes, PrefBound
    <2>11. PrefSaves'
      <3>1. \A q \in saves : q \in RequestsAbout(Epochs)
        BY DEF PrefInv, PrefTypes, InFlight
      <3>2. \A q \in saves : q.about <= exchange.number => q.about <= exchange.number + 1
        BY <1>0, <3>1 DEF RequestsAbout, Epochs
      <3> QED
        BY <2>6, <2>10, <3>2 DEF PrefInv, PrefTies, PrefSaves
    <2>9. PrefTies'
      BY <2>5, <2>6, <2>7, <2>10, <2>11 DEF PrefInv, PrefTies, PrefBound, PreviewEndsWithPage
    <2>12. PrefFresh'
      BY <2>5, <2>6, <2>7 DEF PrefInv, PrefFresh
    <2> QED
      BY <2>8, <2>9, <2>12 DEF PrefInv
  <1>3. CASE SessionEnded
    <2>1. /\ exchange' \in PrefExchanges /\ exchange'.stage = "none" /\ exchange'.number = exchange.number
          /\ NewLoginState(LoggedOut) /\ zone' = ZoneLoading /\ zoneReqs' = Dropped(zoneReqs) /\ Unmount
          /\ UNCHANGED <<prefs, acked, overtaken>>
      BY <1>0, <1>3, PrefNothing DEF SessionEnded, dropZone, NoExchange, PrefExchanges
    <2>2. LoggedOut.epoch = 0
      BY DEF LoggedOut
    <2>3. PrefBound' /\ preview' = 0 /\ ~loggedIn'
      <3>1. PrefBound' /\ ~loggedIn' /\ account' = LoggedOut
        BY <1>0, <2>1, <2>2, PrefNewLogin, PrefNothing
      <3> QED
        BY <2>2, <3>1 DEF PrefBound, PrefBindings
    <2>4. /\ page' = NoPage /\ InFlight(loads', {"page"}) /\ InFlight(saves', Epochs) /\ ~Wanted(loads') /\ ~Wanted(saves')
          /\ outlived' \in BOOLEAN /\ (~outlived' => ~outlived /\ saves' = {}) /\ PrefSaves'
      BY <2>1, PrefUnmounts
    <2>5. InFlight(zoneReqs', {"zone"}) /\ ~Wanted(zoneReqs')
      BY <2>1, DroppedRequests DEF PrefInv, PrefTypes
    <2>6. PrefTypes'
      BY <2>1, <2>3, <2>4, <2>5, PrefNothing DEF PrefInv, PrefTypes, PrefBound
    <2>7. PrefTies'
      BY <2>1, <2>3, <2>4, <2>5 DEF PrefTies, PrefBound, NoPage, PreviewEndsWithPage
    <2>8. PrefFresh'
      BY <2>1, <2>3, <2>4, <2>5 DEF PrefFresh, ZoneLoading, Wanted
    <2> QED
      BY <2>6, <2>7, <2>8 DEF PrefInv
  <1> QED
    BY <1>1, <1>2, <1>3

\* The display time zone is read.
LEMMA PrefZone ==
  ASSUME RequestsAssumption, PrefInv, reloadZone \/ (\E q \in zoneReqs, ok \in BOOLEAN : ZoneAnswered(q, ok))
  PROVE  PrefInv'
  <1>0. zone \in PrefZones /\ InFlight(zoneReqs, {"zone"}) /\ 0 \in Versions
    BY DEF PrefInv, PrefTypes, RequestsAssumption, Versions
  <1>1. UNCHANGED <<prefs, account, exchange, savedUser, preview, stored, page, loads, saves, acked, outlived, overtaken>>
    BY DEF reloadZone, ZoneAnswered
  <1>2. SUFFICES /\ zone' \in PrefZones /\ InFlight(zoneReqs', {"zone"})
                 /\ loggedIn /\ zone'.status = "loading" => Wanted(zoneReqs')
                 /\ ~loggedIn => zone' = zone /\ ~Wanted(zoneReqs')
                 /\ ~outlived => /\ (zone'.status = "ready" => zone'.version >= acked)
                                 /\ \A q \in zoneReqs' : q.mine /\ q.stage = "served" => q.version >= acked
    <2>1. PrefTypes'
      BY <1>1, <1>2 DEF PrefInv, PrefTypes
    <2>2. PrefTies' /\ PrefFresh'
      BY <1>1, <1>2 DEF PrefInv, PrefTies, PrefBindings, PrefSaves, PrefFresh, loggedIn, chooseBase, PreviewEndsWithPage
    <2> QED
      BY <2>1, <2>2 DEF PrefInv
  <1>3. CASE reloadZone
    <2>1. loggedIn /\ zoneReqs' = Asked(zoneReqs, "zone") /\ zone' = ZoneLoading
      BY <1>3 DEF reloadZone, loadZone
    <2>2. /\ InFlight(zoneReqs', {"zone"}) /\ Wanted(zoneReqs') /\ \A q \in zoneReqs' : q.mine => q.stage = "sent"
      BY <1>0, <2>1, AskedRequests
    <2>3. zone' \in PrefZones /\ zone'.status = "loading"
      BY <1>0, <2>1 DEF ZoneLoading, PrefZones
    <2> QED
      BY <2>1, <2>2, <2>3
  <1>4. ASSUME NEW q \in zoneReqs, NEW ok \in BOOLEAN, ZoneAnswered(q, ok)
        PROVE  /\ zone' \in PrefZones /\ InFlight(zoneReqs', {"zone"})
               /\ loggedIn /\ zone'.status = "loading" => Wanted(zoneReqs')
               /\ ~loggedIn => zone' = zone /\ ~Wanted(zoneReqs')
               /\ ~outlived => /\ (zone'.status = "ready" => zone'.version >= acked)
                               /\ \A r \in zoneReqs' : r.mine /\ r.stage = "served" => r.version >= acked
    <2>1. zoneReqs' = zoneReqs \ {q} /\ (ok => q.stage = "served")
      BY <1>4 DEF ZoneAnswered, Arrives
    <2>2. /\ InFlight(zoneReqs', {"zone"}) /\ (q.mine => ~Wanted(zoneReqs')) /\ (~q.mine => (Wanted(zoneReqs') <=> Wanted(zoneReqs)))
          /\ q \in RequestsAbout({"zone"})
      BY <1>0, <2>1, AnsweredRequests
    <2>3. q.version \in Versions /\ q.mine \in BOOLEAN
      BY <2>2 DEF RequestsAbout
    <2>4. ~outlived => \A r \in zoneReqs' : r.mine /\ r.stage = "served" => r.version >= acked
      BY <2>1 DEF PrefInv, PrefFresh
    <2>5. CASE ~q.mine
      <3>1. UNCHANGED zone
        BY <1>4, <2>5 DEF ZoneAnswered
      <3> QED
        BY <1>0, <2>2, <2>4, <2>5, <3>1 DEF PrefInv, PrefTies, PrefFresh
    <2>6. CASE q.mine
      <3>1. loggedIn
        BY <2>6 DEF PrefInv, PrefTies, Wanted
      <3>2. \/ zone' = [status |-> "ready", version |-> q.version] /\ q.stage = "served"
            \/ zone' = zone /\ zone.status = "ready"
            \/ zone' = [status |-> "error", version |-> 0]
        BY <1>4, <2>1, <2>6 DEF ZoneAnswered
      <3>3. zone' \in PrefZones /\ zone'.status # "loading"
        BY <1>0, <2>3, <3>2 DEF PrefZones
      <3>4. ~outlived => (zone'.status = "ready" => zone'.version >= acked)
        BY <2>6, <3>2 DEF PrefInv, PrefFresh
      <3> QED
        BY <2>2, <2>4, <3>1, <3>3, <3>4
    <2> QED
      BY <2>3, <2>5, <2>6
  <1> QED
    BY <1>3, <1>4

\* The page is opened, left and typed into.
LEMMA PrefForm ==
  ASSUME RequestsAssumption, PreferencesAssumption, PrefInv,
         OpenPage \/ reloadPage \/ LeavePage \/ reset \/ save \/ (\E a, b \in BOOLEAN : Edit(a, b))
  PROVE  PrefInv'
  <1>0. /\ page \in PrefPages /\ InFlight(loads, {"page"}) /\ InFlight(saves, Epochs) /\ account \in PrefAccounts /\ preview \in Epochs
        /\ preview \in {0, account.epoch} /\ account.epoch \in Epochs
        /\ page.phase = "loading" <=> Wanted(loads)
        /\ page.phase = "saving" <=> Wanted(saves)
    BY DEF PrefInv, PrefTypes, PrefTies, PrefBindings, PrefAccounts
  <1>1. UNCHANGED <<prefs, account, exchange, savedUser, stored, zone, zoneReqs, acked, overtaken>>
    BY DEF OpenPage, reloadPage, LeavePage, reset, save, Edit
  <1>2. CASE OpenPage \/ reloadPage
    <2>1. /\ loads' = Asked(loads, "page") /\ UNCHANGED <<saves, preview, outlived>> /\ page.phase \in {"absent", "loadFailed"}
          /\ page' \in PrefPages /\ page'.phase = "loading"
      <3>1. CASE OpenPage
        <4>1. [NoPage EXCEPT !.phase = "loading"] \in PrefPages /\ [NoPage EXCEPT !.phase = "loading"].phase = "loading"
          BY PrefNothing DEF PrefPages
        <4> QED
          BY <3>1, <4>1 DEF OpenPage
      <3>2. CASE reloadPage
        BY <1>0, <3>2 DEF reloadPage, PrefPages
      <3> QED
        BY <1>2, <3>1, <3>2
    <2>2. /\ InFlight(loads', {"page"}) /\ Wanted(loads') /\ \A q \in loads' : q.mine => q.stage = "sent"
      BY <1>0, <2>1, AskedRequests
    <2>3. loggedIn
      BY <1>2 DEF OpenPage, reloadPage, PrefInv, PrefTies, NoPage
    <2>4. PrefTypes'
      BY <1>0, <1>1, <2>1, <2>2 DEF PrefInv, PrefTypes
    <2>5. PrefTies'
      BY <1>0, <1>1, <2>1, <2>2, <2>3 DEF PrefInv, PrefTies, PrefBindings, PrefSaves, loggedIn, PreviewEndsWithPage
    <2>6. PrefFresh'
      BY <1>1, <2>1, <2>2 DEF PrefInv, PrefFresh, loggedIn, chooseBase
    <2> QED
      BY <2>4, <2>5, <2>6 DEF PrefInv
  <1>3. CASE LeavePage
    <2>1. /\ page' = NoPage /\ InFlight(loads', {"page"}) /\ InFlight(saves', Epochs) /\ ~Wanted(loads') /\ ~Wanted(saves')
          /\ outlived' \in BOOLEAN /\ (~outlived' => ~outlived /\ saves' = {}) /\ PrefSaves'
      BY <1>1, <1>3, PrefUnmounts DEF LeavePage
    <2>2. preview' = 0
      BY <1>3 DEF LeavePage, clearPreview
    <2>3. PrefTypes'
      BY <1>1, <2>1, <2>2, PrefNothing DEF PrefInv, PrefTypes
    <2>4. PrefTies'
      BY <1>1, <2>1, <2>2 DEF PrefInv, PrefTies, PrefBindings, loggedIn, NoPage, PreviewEndsWithPage
    <2>5. PrefFresh'
      BY <1>1, <2>1 DEF PrefInv, PrefFresh, loggedIn, chooseBase, Wanted
    <2> QED
      BY <2>3, <2>4, <2>5 DEF PrefInv
  <1>4. CASE reset \/ (\E a, b \in BOOLEAN : Edit(a, b))
    <2>1. /\ page.phase = "ready" /\ UNCHANGED <<loads, saves, outlived>> /\ preview' \in {0, account.epoch}
      BY <1>0, <1>4 DEF reset, ResetOffered, Edit, editable, setPreview, clearPreview
    <2>2. page' \in PrefPages /\ page'.phase = "ready"
      <3>1. PICK d \in BOOLEAN : page' = [page EXCEPT !.dirty = d]
        BY <1>4 DEF reset, Edit
      <3> QED
        BY <1>0, <2>1, <3>1 DEF PrefPages
    <2>3. loggedIn
      BY <2>1 DEF PrefInv, PrefTies, NoPage
    <2>4. PrefTypes'
      BY <1>0, <1>1, <2>1, <2>2, PrefNothing DEF PrefInv, PrefTypes
    <2>5. PrefTies'
      BY <1>0, <1>1, <2>1, <2>2, <2>3 DEF PrefInv, PrefTies, PrefBindings, PrefSaves, loggedIn, PreviewEndsWithPage
    <2>6. PrefFresh'
      BY <1>1, <2>1 DEF PrefInv, PrefFresh, loggedIn, chooseBase
    <2> QED
      BY <2>4, <2>5, <2>6 DEF PrefInv
  <1>5. CASE save
    <2>1. /\ page.phase = "ready" /\ UNCHANGED <<loads, preview, outlived>> /\ saves' = saves \cup {Request(0)}
      BY <1>5 DEF save, editable
    <2>2. page' \in PrefPages /\ page'.phase = "saving"
      BY <1>0, <1>5 DEF save, PrefPages
    <2>3. Request(0) \in RequestsAbout(Epochs) /\ Request(0).mine /\ Request(0).stage = "sent" /\ Request(0).about = 0
      BY PrefNothing DEF Request, RequestsAbout
    <2>9. Request(0).version <= prefs /\ 0 <= exchange.number
      <3>1. Request(0).version = 0 /\ prefs \in Nat /\ exchange.number \in Nat
        BY DEF Request, PrefInv, PrefTypes, PrefExchanges, Epochs, Versions
      <3> QED
        BY <3>1
    <2>4. InFlight(saves', Epochs) /\ Wanted(saves') /\ ~Wanted(saves)
      BY <1>0, <2>1, <2>3 DEF InFlight, Wanted
    <2>5. loggedIn
      BY <2>1 DEF PrefInv, PrefTies, NoPage
    <2>6. PrefTypes'
      BY <1>1, <2>1, <2>2, <2>4 DEF PrefInv, PrefTypes
    <2>7. PrefTies'
      BY <1>0, <1>1, <2>1, <2>2, <2>3, <2>4, <2>5, <2>9 DEF PrefInv, PrefTies, PrefBindings, PrefSaves, loggedIn, PreviewEndsWithPage
    <2>8. PrefFresh'
      BY <1>1, <2>1, <2>3 DEF PrefInv, PrefFresh, loggedIn, chooseBase
    <2> QED
      BY <2>6, <2>7, <2>8 DEF PrefInv
  <1> QED
    BY <1>2, <1>3, <1>4, <1>5

\* What the page reads is shown and taken for the dates.
LEMMA PrefLoaded ==
  ASSUME RequestsAssumption, PreferencesAssumption, PrefInv, NEW q \in loads, NEW ok \in BOOLEAN, LoadAnswered(q, ok)
  PROVE  PrefInv'
  <1>0. page \in PrefPages /\ InFlight(loads, {"page"}) /\ (page.phase = "loading" <=> Wanted(loads))
    BY DEF PrefInv, PrefTypes, PrefTies
  <1>1. /\ loads' = loads \ {q} /\ (ok => q.stage = "served")
        /\ UNCHANGED <<prefs, account, exchange, saves, acked, outlived, overtaken>>
    BY DEF LoadAnswered, Arrives
  <1>2. /\ InFlight(loads', {"page"}) /\ (q.mine => ~Wanted(loads')) /\ (~q.mine => (Wanted(loads') <=> Wanted(loads)))
        /\ q \in RequestsAbout({"page"})
    BY <1>0, <1>1, AnsweredRequests
  <1>3. q.version \in Versions /\ q.mine \in BOOLEAN
    BY <1>2 DEF RequestsAbout
  <1>4. CASE ~q.mine
    <2>1. UNCHANGED <<page, savedUser, preview, stored, zone, zoneReqs>>
      BY <1>4 DEF LoadAnswered
    <2>2. PrefTypes'
      BY <1>1, <1>2, <2>1 DEF PrefInv, PrefTypes
    <2>3. PrefTies' /\ PrefFresh'
      BY <1>1, <1>2, <1>4, <2>1 DEF PrefInv, PrefTies, PrefBindings, PrefSaves, PrefFresh, loggedIn, chooseBase, PreviewEndsWithPage
    <2> QED
      BY <2>2, <2>3 DEF PrefInv
  <1>5. CASE q.mine
    <2>1. Wanted(loads) /\ page.phase = "loading" /\ loggedIn /\ ~Wanted(saves)
      BY <1>5 DEF Wanted, PrefInv, PrefTies, NoPage
    <2>2. CASE ~ok
      <3>1. page' \in PrefPages /\ page'.phase = "loadFailed" /\ UNCHANGED <<savedUser, preview, stored, zone, zoneReqs>>
        BY <1>0, <1>5, <2>2 DEF LoadAnswered, PrefPages
      <3>2. PrefTypes'
        BY <1>1, <1>2, <3>1 DEF PrefInv, PrefTypes
      <3>3. PrefTies' /\ PrefFresh'
        BY <1>1, <1>2, <1>5, <2>1, <3>1 DEF PrefInv, PrefTies, PrefBindings, PrefSaves, PrefFresh, loggedIn, chooseBase, PreviewEndsWithPage
      <3> QED
        BY <3>2, <3>3 DEF PrefInv
    <2>3. CASE ok
      <3>1. /\ page' = [phase |-> "ready", version |-> q.version, dirty |-> FALSE] /\ applySaved(q.version)
            /\ applyUserPreferences(account.epoch, q.version) \/ (chooseBase = q.version /\ UNCHANGED <<savedUser, preview, stored>>)
        BY <1>5, <2>3 DEF LoadAnswered
      <3>2. page' \in PrefPages /\ page'.phase = "ready"
        BY <1>3, <3>1 DEF PrefPages
      <3>3. /\ PrefBound' /\ chooseBase' = q.version /\ (preview = 0 => preview' = 0)
            /\ zone' \in PrefZones /\ zone'.status = "ready" /\ zone'.version = q.version /\ InFlight(zoneReqs', {"zone"}) /\ ~Wanted(zoneReqs')
        BY <1>1, <1>3, <2>1, <3>1, PrefApplied
      <3>4. ~outlived => q.version >= acked
        BY <1>1, <1>5, <2>3 DEF PrefInv, PrefFresh
      <3>5. PrefTypes'
        BY <1>1, <1>2, <3>2, <3>3 DEF PrefInv, PrefTypes, PrefBound
      <3>6. PrefTies'
        BY <1>1, <1>2, <1>5, <2>1, <3>2, <3>3 DEF PrefInv, PrefTies, PrefSaves, PrefBound, loggedIn, PreviewEndsWithPage
      <3>7. PrefFresh'
        BY <1>1, <3>3, <3>4 DEF PrefInv, PrefFresh, Wanted
      <3> QED
        BY <3>5, <3>6, <3>7 DEF PrefInv
    <2> QED
      BY <2>2, <2>3
  <1> QED
    BY <1>3, <1>4, <1>5

\* A save is answered: what it saved is what is shown.
LEMMA PrefSaved ==
  ASSUME RequestsAssumption, PreferencesAssumption, PrefInv, NEW q \in saves, Saved(q) \/ SaveFailed(q)
  PROVE  PrefInv'
  <1>0. page \in PrefPages /\ InFlight(saves, Epochs) /\ (page.phase = "saving" <=> Wanted(saves)) /\ InFlight(zoneReqs, {"zone"})
        /\ acked \in Nat /\ acked \in Versions /\ prefs \in Nat /\ prefs \in Versions /\ acked <= prefs
    BY DEF PrefInv, PrefTypes, PrefTies, Versions
  <1>1. /\ saves' = saves \ {q} /\ UNCHANGED <<prefs, account, exchange, loads, outlived, overtaken>>
    BY DEF Saved, SaveFailed
  <1>2. /\ InFlight(saves', Epochs) /\ (q.mine => ~Wanted(saves')) /\ (~q.mine => (Wanted(saves') <=> Wanted(saves)))
        /\ q \in RequestsAbout(Epochs)
    BY <1>0, <1>1, AnsweredRequests
  <1>3. q.version \in Versions /\ q.mine \in BOOLEAN
    BY <1>2 DEF RequestsAbout
  <1>4. q.mine => Wanted(saves) /\ page.phase = "saving" /\ loggedIn /\ ~Wanted(loads)
    BY DEF Wanted, PrefInv, PrefTies, NoPage
  <1>5. page' \in PrefPages /\ (q.mine => page'.phase = "ready") /\ (~q.mine => page' = page)
    <2>1. CASE ~q.mine
      BY <1>0, <2>1 DEF Saved, SaveFailed
    <2>2. CASE q.mine /\ Saved(q)
      BY <1>3, <2>2 DEF Saved, PrefPages
    <2>3. CASE q.mine /\ SaveFailed(q)
      BY <1>0, <2>3 DEF SaveFailed, PrefPages
    <2> QED
      BY <1>3, <2>1, <2>2, <2>3
  <1>6. CASE SaveFailed(q)
    <2>1. UNCHANGED <<savedUser, preview, stored, zone, zoneReqs, acked>>
      BY <1>6 DEF SaveFailed
    <2>2. PrefTypes'
      BY <1>1, <1>2, <1>5, <2>1 DEF PrefInv, PrefTypes
    <2>3. PrefTies' /\ PrefFresh'
      BY <1>1, <1>2, <1>3, <1>4, <1>5, <2>1 DEF PrefInv, PrefTies, PrefBindings, PrefSaves, PrefFresh, loggedIn, chooseBase, PreviewEndsWithPage
    <2> QED
      BY <2>2, <2>3 DEF PrefInv
  <1>7. CASE Saved(q)
    <2>0. q.version <= prefs
      BY DEF PrefInv, PrefTies, PrefSaves
    <2>1. acked' = (IF q.version > acked THEN q.version ELSE acked) /\ acked' \in Versions /\ acked' <= prefs
      BY <1>0, <1>3, <1>7, <2>0 DEF Saved, Versions
    <2>2. applyUserPreferences(RenderedWith(q), q.version) /\ applySaved(q.version) /\ q.stage = "served"
      BY <1>7 DEF Saved
    <2>9. PrefSaves'
      BY <1>1 DEF PrefInv, PrefTies, PrefSaves
    <2>3. CASE q.mine
      <3>1. /\ PrefBound' /\ chooseBase' = q.version /\ (preview = 0 => preview' = 0)
            /\ zone' \in PrefZones /\ zone'.status = "ready" /\ zone'.version = q.version /\ InFlight(zoneReqs', {"zone"}) /\ ~Wanted(zoneReqs')
        BY <1>1, <1>3, <1>4, <2>2, <2>3, PrefApplied DEF RenderedWith
      <3>2. ~outlived => q.mine /\ q.version >= acked /\ saves' = {} /\ ~Wanted(loads)
        <4>1. ~outlived => q.mine /\ q.version >= acked /\ \A r \in saves : r = q
          BY <1>0, <2>2 DEF PrefInv, PrefTies, PrefFresh, InFlight
        <4> QED
          BY <1>1, <1>4, <4>1
      <3>3. ~outlived => acked' = q.version
        BY <1>0, <1>3, <2>1, <3>2 DEF Versions
      <3>4. PrefTypes'
        BY <1>1, <1>2, <1>5, <2>1, <3>1 DEF PrefInv, PrefTypes, PrefBound
      <3>5. PrefTies'
        BY <1>1, <1>2, <1>3, <1>4, <1>5, <2>3, <2>9, <3>1 DEF PrefInv, PrefTies, PrefBound, loggedIn, PreviewEndsWithPage
      <3>6. PrefFresh'
        <4>1. q.version >= q.version
          BY <1>3 DEF Versions
        <4> QED
          BY <1>1, <3>1, <3>2, <3>3, <4>1 DEF PrefFresh, Wanted
      <3> QED
        BY <3>4, <3>5, <3>6 DEF PrefInv
    \* Its page is gone: it is bound to the login state of then, and shows only while that is the one there is.
    <2>4. CASE ~q.mine
      <3>1. outlived
        BY <2>4 DEF PrefInv, PrefTies
      <3>2. q.about \in Epochs /\ q.about # 0 /\ q.about <= exchange.number
        BY <1>2, <2>4 DEF PrefInv, PrefTies, PrefSaves, RequestsAbout
      <3>3. savedUser' = [epoch |-> q.about, version |-> q.version] /\ preview' = 0 /\ stored' = q.version
        BY <2>2, <2>4, <3>2 DEF applyUserPreferences, RenderedWith
      <3>4. savedUser' \in PrefAccounts /\ savedUser'.epoch <= exchange.number
        BY <1>3, <3>2, <3>3 DEF PrefAccounts
      <3>5. PrefBindings'
        BY <1>1, <3>1, <3>3, <3>4 DEF PrefInv, PrefTies, PrefBindings
      <3>6. /\ zone' \in PrefZones /\ InFlight(zoneReqs', {"zone"}) /\ (loggedIn => zone'.status = "ready")
            /\ ~loggedIn => zone' = zone /\ zoneReqs' = zoneReqs
        <4>1. CASE loggedIn
          <5>1. zone' = [status |-> "ready", version |-> q.version] /\ zoneReqs' = Dropped(zoneReqs)
            BY <2>2, <4>1 DEF applySaved
          <5> QED
            BY <1>0, <1>3, <4>1, <5>1, DroppedRequests DEF PrefZones
        <4>2. CASE ~loggedIn
          BY <2>2, <4>2 DEF applySaved, PrefInv, PrefTypes
        <4> QED
          BY <4>1, <4>2
      <3>7. PrefTypes'
        BY <1>1, <1>2, <1>5, <2>1, <3>3, <3>4, <3>6, PrefNothing, <1>3 DEF PrefInv, PrefTypes
      <3>8. PrefTies'
        BY <1>1, <1>2, <1>5, <2>4, <2>9, <3>1, <3>3, <3>5, <3>6 DEF PrefInv, PrefTies, loggedIn, PreviewEndsWithPage
      <3>9. PrefFresh'
        BY <1>1, <3>1 DEF PrefFresh
      <3> QED
        BY <3>7, <3>8, <3>9 DEF PrefInv
    <2> QED
      BY <1>3, <2>3, <2>4
  <1> QED
    BY <1>6, <1>7

\* The server reads and saves.
LEMMA PrefServed ==
  ASSUME RequestsAssumption, PrefInv,
         OtherTabSaves \/ (\E q \in zoneReqs \cup loads : ServeRead(q)) \/ (\E q \in saves : ServeSave(q))
  PROVE  PrefInv'
  <1>0. /\ InFlight(zoneReqs, {"zone"}) /\ InFlight(loads, {"page"}) /\ InFlight(saves, Epochs)
        /\ acked \in Nat /\ prefs \in Nat /\ prefs \in Versions /\ acked <= prefs
    BY DEF PrefInv, PrefTypes, Versions
  <1>1. UNCHANGED <<account, exchange, savedUser, preview, stored, zone, page, acked, outlived, overtaken>>
    BY DEF OtherTabSaves, ServeRead, ServeSave
  <1>2. prefs < MaxVersion => prefs + 1 \in Versions
    BY <1>0 DEF Versions, RequestsAssumption
  \* What is on its way stays what it is, and is not older than what is shown.
  <1>3. ASSUME prefs' \in Versions, prefs' >= prefs, acked <= prefs',
               InFlight(zoneReqs', {"zone"}), InFlight(loads', {"page"}), InFlight(saves', Epochs),
               Wanted(zoneReqs') <=> Wanted(zoneReqs), Wanted(loads') <=> Wanted(loads), Wanted(saves') <=> Wanted(saves),
               \A q \in saves' : \E r \in saves : q.mine = r.mine /\ q.about = r.about,
               \A q \in saves' : q.version <= prefs',
               \A q \in zoneReqs' \cup loads' \cup saves' : q \in zoneReqs \cup loads \cup saves \/ q.version >= acked
        PROVE  PrefInv'
    <2>1. PrefTypes'
      BY <1>1, <1>3 DEF PrefInv, PrefTypes
    <2>2. PrefTies'
      BY <1>1, <1>3 DEF PrefInv, PrefTies, PrefBindings, PrefSaves, loggedIn, PreviewEndsWithPage
    <2>3. PrefFresh'
      BY <1>1, <1>3 DEF PrefInv, PrefFresh, loggedIn, chooseBase
    <2> QED
      BY <2>1, <2>2, <2>3 DEF PrefInv
  <1>4. \A q \in saves : q.version <= prefs /\ q.version \in Nat
    BY DEF PrefInv, PrefTypes, PrefTies, PrefSaves, InFlight, RequestsAbout, Versions
  <1>5. CASE OtherTabSaves
    <2>1. prefs' = prefs + 1 /\ prefs' \in Versions /\ UNCHANGED <<zoneReqs, loads, saves>>
      BY <1>2, <1>5 DEF OtherTabSaves
    <2>2. prefs' >= prefs /\ acked <= prefs' /\ \A q \in saves' : q.version <= prefs'
      BY <1>0, <1>4, <2>1
    <2> QED
      BY <1>0, <1>3, <2>1, <2>2
  <1>6. ASSUME NEW q \in zoneReqs \cup loads, ServeRead(q) PROVE PrefInv'
    <2>1. UNCHANGED <<prefs, saves>>
      BY <1>6 DEF ServeRead
    <2>2. CASE q \in zoneReqs /\ zoneReqs' = ServedAt(zoneReqs, q, prefs) /\ UNCHANGED loads
      <3>1. /\ InFlight(zoneReqs', {"zone"}) /\ (Wanted(zoneReqs') <=> Wanted(zoneReqs))
            /\ \A r \in zoneReqs' : r \in zoneReqs \/ r.version = prefs
        BY <1>0, <2>2, ServedRequests
      <3> QED
        BY <1>0, <1>3, <1>4, <2>1, <2>2, <3>1
    <2>3. CASE q \in loads /\ loads' = ServedAt(loads, q, prefs) /\ UNCHANGED zoneReqs
      <3>1. /\ InFlight(loads', {"page"}) /\ (Wanted(loads') <=> Wanted(loads))
            /\ \A r \in loads' : r \in loads \/ r.version = prefs
        BY <1>0, <2>3, ServedRequests
      <3> QED
        BY <1>0, <1>3, <1>4, <2>1, <2>3, <3>1
    <2> QED
      BY <1>6, <2>2, <2>3 DEF ServeRead
  <1>7. ASSUME NEW q \in saves, ServeSave(q) PROVE PrefInv'
    <2>1. /\ prefs' = prefs + 1 /\ prefs' \in Versions /\ prefs' \in Nat /\ saves' = ServedAt(saves, q, prefs') /\ UNCHANGED <<zoneReqs, loads>>
      BY <1>0, <1>2, <1>7 DEF ServeSave
    <2>2. /\ InFlight(saves', Epochs) /\ (Wanted(saves') <=> Wanted(saves))
          /\ \A r \in saves' : r \in saves \/ (r.mine = q.mine /\ r.about = q.about /\ r.version = prefs')
      BY <1>0, <2>1, ServedRequests
    <2>3. prefs' >= prefs /\ acked <= prefs' /\ prefs' >= acked /\ \A r \in saves : r.version <= prefs'
      BY <1>0, <1>4, <2>1
    <2>4. \A r \in saves' : r.version <= prefs'
      BY <2>1, <2>2, <2>3
    <2>5. \A r \in saves' : \E p \in saves : r.mine = p.mine /\ r.about = p.about
      BY <2>2
    <2> QED
      BY <1>0, <1>3, <2>1, <2>2, <2>3, <2>4, <2>5
  <1> QED
    BY <1>5, <1>6, <1>7

\* Every step of the settings keeps the invariant.
LEMMA PrefStep ==
  ASSUME RequestsAssumption, PreferencesAssumption, PrefInv, PreferencesNext
  PROVE  PrefInv'
  BY PrefSession, PrefZone, PrefForm, PrefLoaded, PrefSaved, PrefServed DEF PreferencesNext

\* Nothing changes with what is not the screen's.
LEMMA PrefRests ==
  ASSUME PrefInv, UNCHANGED prefVars
  PROVE  PrefInv'
  BY DEF prefVars, PrefInv, PrefTypes, PrefTies, PrefBindings, PrefSaves, PrefFresh, PreviewEndsWithPage, chooseBase, loggedIn

\* What the runs check of the screen.
LEMMA PrefShows ==
  ASSUME PrefInv
  PROVE  PreferencesTypeOK /\ ScreenShowsOwnSave /\ PreviewEndsWithPage
  <1>1. acked \in 0..prefs
    BY DEF PrefInv, PrefTypes, Versions
  <1>2. \A q \in saves : q.mine = (q.about = 0) /\ q.about <= exchange.number
    <2>1. \A q \in saves : q.mine \in BOOLEAN
      BY DEF PrefInv, PrefTypes, InFlight, RequestsAbout
    <2> QED
      BY <2>1 DEF PrefInv, PrefTies, PrefSaves
  <1>3. (page.phase = "loading") = Wanted(loads) /\ (page.phase = "saving") = Wanted(saves)
    <2>1. Wanted(loads) \in BOOLEAN /\ Wanted(saves) \in BOOLEAN
      BY DEF Wanted
    <2> QED
      BY <2>1 DEF PrefInv, PrefTies
  <1>4. PreferencesTypeOK
    BY <1>1, <1>2, <1>3 DEF PrefInv, PrefTypes, PrefTies, PrefBindings, PreferencesTypeOK, InFlight, PrefPages, PrefZones, PrefAccounts, PrefExchanges
  <1>5. ScreenShowsOwnSave /\ PreviewEndsWithPage
    BY DEF PrefInv, PrefTies, PrefFresh, ScreenShowsOwnSave
  <1> QED
    BY <1>4, <1>5

\* No answer replaces what was typed.
LEMMA PrefKeeps ==
  ASSUME PrefInv, [PreferencesNext]_prefVars
  PROVE  EditsSurviveStep
  <1>0. page \in PrefPages
    BY DEF PrefInv, PrefTypes
  <1>1. SUFFICES ASSUME page.phase = "ready", page.dirty, page'.phase = "ready", ~page'.dirty PROVE page'.version = page.version
    BY DEF EditsSurviveStep
  <1>2. ~Wanted(loads) /\ ~Wanted(saves)
    BY <1>1 DEF PrefInv, PrefTies
  <1>3. CASE UNCHANGED page
    BY <1>3
  <1>4. CASE ExchangeSent \/ ExchangeServed \/ Renewed \/ reloadZone \/ OtherTabSaves \/ (\E q \in zoneReqs \cup loads : ServeRead(q))
             \/ (\E q \in zoneReqs, ok \in BOOLEAN : ZoneAnswered(q, ok)) \/ (\E q \in saves : ServeSave(q))
    BY <1>3, <1>4 DEF ExchangeSent, ExchangeServed, Renewed, reloadZone, OtherTabSaves, ServeRead, ZoneAnswered, ServeSave
  <1>5. CASE SessionEnded \/ LeavePage
    BY <1>1, <1>5 DEF SessionEnded, LeavePage, Unmount, NoPage
  <1>6. CASE OpenPage \/ reloadPage \/ save
    BY <1>0, <1>1, <1>6 DEF OpenPage, reloadPage, save, PrefPages
  <1>7. CASE reset \/ (\E a, b \in BOOLEAN : Edit(a, b))
    <2>1. PICK d \in BOOLEAN : page' = [page EXCEPT !.dirty = d]
      BY <1>7 DEF reset, Edit
    <2> QED
      BY <1>0, <2>1 DEF PrefPages
  <1>8. ASSUME NEW q \in loads, NEW ok \in BOOLEAN, LoadAnswered(q, ok) PROVE page' = page
    BY <1>2, <1>8 DEF LoadAnswered, Wanted
  <1>9. ASSUME NEW q \in saves, Saved(q) \/ SaveFailed(q) PROVE page' = page
    BY <1>2, <1>9 DEF Saved, SaveFailed, Wanted
  <1> QED
    BY <1>3, <1>4, <1>5, <1>6, <1>7, <1>8, <1>9 DEF PreferencesNext, prefVars

-----------------------------------------------------------------------------
(* The guard of a form *)

FormCounts == edits \in Nat /\ edits <= MaxEdits /\ cleanAt \in Nat /\ cleanAt <= edits + 1
FormFlags ==
  /\ where \in FormPaths /\ skip \in BOOLEAN /\ skipHere \in BOOLEAN /\ expiry \in BOOLEAN /\ blocked \in FormPaths \cup {NoMove}
  /\ sending \in BOOLEAN /\ clock \in BOOLEAN /\ slow \in BOOLEAN
  /\ intended \in BOOLEAN /\ markedAt \in FormPaths /\ unsaved \in BOOLEAN
FormKinds == FormCounts /\ FormFlags

\* Nothing of the form is left on another page.
FormIsLeft == where # "form" => edits = 0 /\ cleanAt = 0 /\ ~skip /\ blocked = NoMove /\ ~sending /\ ~unsaved

\* Input that was not saved is guarded: a move on is free only while what was saved is all there is.
InputIsGuarded ==
  /\ skip => expiry /\ cleanAt # 0
  /\ unsaved => edits > 0 /\ cleanAt # edits + 1 /\ ~skip
  /\ clock => sending

FormInv == FormKinds /\ FormIsLeft /\ InputIsGuarded /\ SlowMeansSending /\ MarkIsRecent

\* At first nothing was typed.
LEMMA FormStart == ASSUME FormGuardAssumption, FormGuardInit PROVE FormInv
  <1>1. FormKinds
    <2>1. FormCounts
      BY DEF FormGuardAssumption, FormGuardInit, FormKinds, FormCounts, FormPaths
    <2>2. FormFlags
      BY DEF FormGuardAssumption, FormGuardInit, FormKinds, FormFlags, FormPaths
    <2> QED
      BY <2>1, <2>2 DEF FormKinds
  <1> QED
    BY <1>1 DEF FormGuardInit, FormInv, FormIsLeft, InputIsGuarded, SlowMeansSending, MarkIsRecent

\* A page that is left takes all of its form with it.
LEMMA FormArrives ==
  ASSUME FormGuardAssumption, FormInv, NEW next \in FormPaths, NEW mark \in BOOLEAN, Arrive(next, mark), next # where,
         markedAt' \in FormPaths, intended' /\ next # "logout" => markedAt' = next
  PROVE  FormInv'
  <1>1. /\ where' = next /\ edits' = 0 /\ cleanAt' = 0 /\ skip' = FALSE /\ skipHere' = FALSE /\ expiry' = FALSE /\ blocked' = NoMove
        /\ sending' = FALSE /\ clock' = FALSE /\ slow' = FALSE /\ unsaved' = FALSE /\ intended' = (mark /\ next = "logout")
    BY DEF Arrive, LeavePageHooks, clearLogoutIntent
  <1>2. 0 <= MaxEdits
    BY DEF FormGuardAssumption
  <1>3. FormKinds'
    <2>1. FormCounts'
      BY <1>1, <1>2 DEF FormInv, FormKinds, FormCounts
    <2>2. FormFlags'
      BY <1>1, <1>2 DEF FormInv, FormKinds, FormFlags
    <2> QED
      BY <2>1, <2>2 DEF FormKinds
  <1> QED
    BY <1>1, <1>3 DEF FormInv, FormIsLeft, InputIsGuarded, SlowMeansSending, MarkIsRecent

\* A move that is stopped, or that leads to the same page, or that goes through.
LEMMA FormGoes ==
  ASSUME FormGuardAssumption, FormInv, NEW next \in FormPaths, NEW mark \in BOOLEAN, Go(next, mark), markedAt' \in FormPaths,
         mark /\ where # "logout" => markedAt' = where, next = where => mark = intended, where = "logout" => markedAt' = markedAt
  PROVE  FormInv'
  <1>1. CASE shouldBlockNavigation(next)
    <2>1. blocked' = next /\ intended' = mark /\ UNCHANGED <<where, edits, cleanAt, skip, skipHere, expiry, sending, clock, slow, unsaved>>
      BY <1>1 DEF Go
    <2>2. edits > 0 /\ where = "form"
      BY <1>1 DEF shouldBlockNavigation, effectiveDirty, FormInv, FormKinds, FormCounts, FormFlags, FormIsLeft
    <2> QED
      BY <2>1, <2>2 DEF FormInv, FormKinds, FormCounts, FormFlags, FormIsLeft, InputIsGuarded, SlowMeansSending, MarkIsRecent
  <1>2. CASE ~shouldBlockNavigation(next) /\ next = where
    <2>1. skip' = FALSE /\ skipHere' = FALSE /\ intended' = mark /\ UNCHANGED <<where, edits, cleanAt, expiry, blocked, sending, clock, slow, unsaved>>
      BY <1>2 DEF Go
    <2> QED
      BY <1>2, <2>1 DEF FormInv, FormKinds, FormCounts, FormFlags, FormIsLeft, InputIsGuarded, SlowMeansSending, MarkIsRecent
  <1>3. CASE ~shouldBlockNavigation(next) /\ next # where
    <2>1. Arrive(next, mark)
      BY <1>3 DEF Go
    <2> QED
      BY <1>3, <2>1, FormArrives DEF Arrive, clearLogoutIntent
  <1> QED
    BY <1>1, <1>2, <1>3

\* The user types, waits, sends, and is asked.
LEMMA FormWorks ==
  ASSUME FormGuardAssumption, FormInv, EditInput \/ SkipExpires \/ stay \/ run \/ FiveSecondsPass \/ Refused \/ markClean
  PROVE  FormInv'
  <1>1. CASE EditInput
    <2>1. /\ where = "form" /\ ~sending /\ edits < MaxEdits /\ edits' = edits + 1 /\ unsaved' = TRUE /\ ExpireOnEdit(edits + 1)
          /\ UNCHANGED <<where, cleanAt, expiry, blocked, sending, clock, slow, intended, markedAt>>
      BY <1>1 DEF EditInput
    <2>2. /\ edits \in Nat /\ MaxEdits \in Nat /\ cleanAt \in Nat /\ cleanAt <= edits + 1 /\ skip \in BOOLEAN
          /\ skipHere \in BOOLEAN /\ (skip => cleanAt # 0)
      BY DEF FormInv, FormKinds, FormCounts, FormFlags, InputIsGuarded, FormGuardAssumption
    <2>3. cleanAt # edits + 1 + 1
      BY <2>2
    <2>4. ~skip' /\ skip' \in BOOLEAN /\ skipHere' \in BOOLEAN
      BY <2>1, <2>2, <2>3 DEF ExpireOnEdit
    <2>5. FormKinds'
      <3>1. FormCounts'
        BY <2>1, <2>2, <2>4 DEF FormInv, FormKinds, FormCounts
      <3>2. FormFlags'
        BY <2>1, <2>2, <2>4 DEF FormInv, FormKinds, FormFlags
      <3> QED
        BY <3>1, <3>2 DEF FormKinds
    <2> QED
      BY <2>1, <2>2, <2>3, <2>4, <2>5 DEF FormInv, FormIsLeft, InputIsGuarded, SlowMeansSending, MarkIsRecent
  <1>2. CASE SkipExpires \/ stay \/ run \/ FiveSecondsPass \/ Refused
    <2>1. FormKinds'
      <3>1. FormCounts'
        BY <1>2 DEF SkipExpires, stay, run, FiveSecondsPass, Refused, finish, FormInv, FormKinds, FormCounts
      <3>2. FormFlags'
        BY <1>2 DEF SkipExpires, stay, run, FiveSecondsPass, Refused, finish, FormInv, FormKinds, FormFlags
      <3> QED
        BY <3>1, <3>2 DEF FormKinds
    <2>2. FormIsLeft' /\ InputIsGuarded' /\ SlowMeansSending' /\ MarkIsRecent'
      BY <1>2 DEF SkipExpires, stay, run, FiveSecondsPass, Refused, finish, FormInv, FormIsLeft, InputIsGuarded, SlowMeansSending,
                  MarkIsRecent
    <2> QED
      BY <2>1, <2>2 DEF FormInv
  <1>3. CASE markClean
    <2>1. FormKinds' /\ cleanAt' # 0
      <3>1. FormCounts' /\ cleanAt' # 0
        BY <1>3 DEF markClean, finish, FormInv, FormKinds, FormCounts
      <3>2. FormFlags'
        BY <1>3 DEF markClean, finish, FormInv, FormKinds, FormFlags
      <3> QED
        BY <3>1, <3>2 DEF FormKinds
    <2>2. FormIsLeft' /\ InputIsGuarded' /\ SlowMeansSending' /\ MarkIsRecent'
      BY <1>3, <2>1 DEF markClean, finish, FormInv, FormIsLeft, InputIsGuarded, SlowMeansSending, MarkIsRecent
    <2> QED
      BY <2>1, <2>2 DEF FormInv
  <1> QED
    BY <1>1, <1>2, <1>3

\* Every step keeps the guard, and no input is lost without a question.
LEMMA FormStep ==
  ASSUME FormGuardAssumption, FormInv, FormGuardNext
  PROVE  FormInv' /\ NoSilentLossStep
  <1>1. CASE EditInput \/ SkipExpires \/ stay \/ run \/ FiveSecondsPass \/ Refused \/ markClean
    <2>1. UNCHANGED where
      BY <1>1 DEF EditInput, SkipExpires, stay, run, FiveSecondsPass, Refused, markClean
    <2> QED
      BY <1>1, <2>1, FormWorks DEF NoSilentLossStep, FormInv, FormIsLeft
  <1>2. CASE leave
    <2>1. blocked # NoMove /\ blocked \in FormPaths /\ where = "form" /\ intended \in BOOLEAN /\ Arrive(blocked, intended) /\ UNCHANGED markedAt
      BY <1>2 DEF leave, FormInv, FormKinds, FormCounts, FormFlags, FormIsLeft
    <2>2. CASE blocked # where
      <3>1. intended' /\ blocked # "logout" => FALSE
        BY <2>1 DEF Arrive, clearLogoutIntent
      <3>2. markedAt' \in FormPaths
        BY <2>1 DEF FormInv, FormKinds, FormCounts, FormFlags
      <3> QED
        BY <2>1, <2>2, <3>1, <3>2, FormArrives DEF NoSilentLossStep
    <2>3. CASE blocked = where
      <3>1. /\ where' = where /\ where = "form" /\ edits' = 0 /\ cleanAt' = 0 /\ skip' = FALSE /\ skipHere' = FALSE /\ expiry' = FALSE
            /\ blocked' = NoMove /\ sending' = FALSE /\ clock' = FALSE /\ slow' = FALSE /\ unsaved' = FALSE /\ intended' = FALSE
            /\ UNCHANGED markedAt
        BY <2>1, <2>3 DEF Arrive, LeavePageHooks, clearLogoutIntent
      <3>2. 0 <= MaxEdits
        BY DEF FormGuardAssumption
      <3>3. FormKinds'
        <4>1. FormCounts'
          BY <3>1, <3>2 DEF FormInv, FormKinds, FormCounts
        <4>2. FormFlags'
          BY <3>1, <3>2 DEF FormInv, FormKinds, FormFlags
        <4> QED
          BY <4>1, <4>2 DEF FormKinds
      <3> QED
        BY <2>1, <3>1, <3>3 DEF FormInv, FormIsLeft, InputIsGuarded, SlowMeansSending, MarkIsRecent, NoSilentLossStep
    <2> QED
      BY <2>2, <2>3
  <1>3. CASE LogoutItem
    <2>1. where # "logout" /\ Go("logout", TRUE) /\ markedAt' = where /\ where \in FormPaths /\ "logout" \in FormPaths
      BY <1>3 DEF LogoutItem, FormInv, FormKinds, FormCounts, FormFlags, FormPaths
    <2>2. FormInv'
      BY <2>1, FormGoes
    <2>3. NoSilentLossStep
      BY <2>1 DEF Go, Arrive, shouldBlockNavigation, effectiveDirty, NoSilentLossStep, FormInv, FormIsLeft, InputIsGuarded
    <2> QED
      BY <2>2, <2>3
  <1>4. CASE LogoutPage
    BY <1>4 DEF LogoutPage, FormInv, FormKinds, FormCounts, FormFlags, FormIsLeft, InputIsGuarded, SlowMeansSending, MarkIsRecent, NoSilentLossStep, FormPaths
  <1>5. ASSUME NEW next \in FormPaths, Navigate(next) PROVE FormInv' /\ NoSilentLossStep
    <2>1. where # "logout" /\ Go(next, intended) /\ UNCHANGED markedAt /\ intended \in BOOLEAN /\ markedAt \in FormPaths
      BY <1>5 DEF Navigate, FormInv, FormKinds, FormCounts, FormFlags
    <2>2. intended => markedAt = where
      BY <2>1 DEF FormInv, MarkIsRecent
    <2>3. FormInv'
      BY <2>1, <2>2, FormGoes
    <2>4. NoSilentLossStep
      BY <2>1 DEF Go, Arrive, shouldBlockNavigation, effectiveDirty, NoSilentLossStep, FormInv, FormIsLeft, InputIsGuarded
    <2> QED
      BY <2>3, <2>4
  <1> QED
    BY <1>1, <1>2, <1>3, <1>4, <1>5 DEF FormGuardNext

\* A step of another part of the shell leaves the form as it is.
LEMMA FormRests == ASSUME FormInv, UNCHANGED guardVars PROVE FormInv'
  BY DEF guardVars, FormInv, FormKinds, FormCounts, FormFlags, FormIsLeft, InputIsGuarded, SlowMeansSending, MarkIsRecent

\* What the run checks of it.
LEMMA FormShows == ASSUME FormInv, FormGuardAssumption PROVE FormGuardTypeOK /\ SlowMeansSending /\ MarkIsRecent
  BY DEF FormInv, FormKinds, FormCounts, FormFlags, FormIsLeft, InputIsGuarded, FormGuardTypeOK, FormGuardAssumption

-----------------------------------------------------------------------------
(* The registration and the change of the password *)

RegPages == [phase : RegPhases, token : BOOLEAN, typed : BOOLEAN, attempt : 0..1]
Completions == [stage : {"none", "sent", "served"}, result : {"none", "done", "unavailable", "invalid"}]
PwdForms == [phase : {"gone", "idle", "sending"}, typed : BOOLEAN]

RegKinds ==
  /\ link \in {"open", "used", "ended"} /\ session \in BOOLEAN
  /\ reg \in RegPages /\ InFlight(verifyReqs, {"verify"}) /\ completion \in Completions
  /\ handoff \in BOOLEAN /\ keptInBrowser \in BOOLEAN

\* The page verifies while it waits for that answer, and submits while its submission is on its way; only a
\* submission that used the link is answered with success.
RegTies ==
  /\ Phase(reg, session) = "verifying" <=> Wanted(verifyReqs)
  /\ reg.phase = "submitting" <=> completion.stage # "none"
  /\ (reg.phase \in {"gone", "completed"} => ~reg.token) /\ (reg.typed => reg.phase \in {"ready", "submitting"})
  /\ completion.result = "done" => link = "used"

PwdTies ==
  /\ pwd \in PwdForms /\ InFlight(pwdReqs, {"password"})
  /\ pwd.phase = "sending" <=> Wanted(pwdReqs)
  /\ pwd.phase = "gone" => ~pwd.typed

SetupInv == RegKinds /\ RegTies /\ PwdTies /\ HandoffMeansRegistered

\* Both pages are closed at first.
LEMMA SetupStart == ASSUME SetupInit PROVE SetupInv
  <1>1. NoReg \in RegPages /\ NoReg.phase = "gone" /\ ~NoReg.token /\ ~NoReg.typed
    BY DEF NoReg, RegPages, RegPhases
  <1>2. NoCompletion \in Completions /\ NoCompletion.stage = "none" /\ NoCompletion.result = "none"
    BY DEF NoCompletion, Completions
  <1>3. NoPwd \in PwdForms /\ NoPwd.phase = "gone" /\ ~NoPwd.typed
    BY DEF NoPwd, PwdForms
  <1> QED
    BY <1>1, <1>2, <1>3, NoRequests DEF SetupInit, SetupInv, RegKinds, RegTies, PwdTies, HandoffMeansRegistered, Phase, WaitsForLogout

\* What a step of one of the two pages leaves alone.
LEMMA RegRests == ASSUME RegKinds, RegTies, HandoffMeansRegistered, UNCHANGED <<link, session, regVars>>
                  PROVE RegKinds' /\ RegTies' /\ HandoffMeansRegistered'
  BY DEF regVars, RegKinds, RegTies, HandoffMeansRegistered, Phase, WaitsForLogout

\* The change of the password depends on its own variables only.
LEMMA PwdRests == ASSUME PwdTies, UNCHANGED pwdVars PROVE PwdTies'
  BY DEF pwdVars, PwdTies

\* The page opens and closes.
LEMMA RegOpens ==
  ASSUME RequestsAssumption, SetupInv, LeaveRegistration \/ (\E found \in BOOLEAN : OpenRegistration(found))
  PROVE  RegKinds' /\ RegTies' /\ HandoffMeansRegistered' /\ (reg.typed /\ ~reg'.typed => reg'.phase = "gone")
  <1>0. NoReg \in RegPages /\ NoReg.phase = "gone" /\ ~NoReg.token /\ ~NoReg.typed
    BY DEF NoReg, RegPages, RegPhases
  <1>1. InFlight(verifyReqs, {"verify"}) /\ session \in BOOLEAN
    BY DEF SetupInv, RegKinds
  <1>2. CASE LeaveRegistration
    <2>1. /\ reg' = NoReg /\ verifyReqs' = Dropped(verifyReqs) /\ completion' = NoCompletion
          /\ UNCHANGED <<link, session, handoff, keptInBrowser>>
      BY <1>2 DEF LeaveRegistration
    <2>2. NoCompletion \in Completions /\ NoCompletion.stage = "none" /\ NoCompletion.result = "none"
      BY DEF NoCompletion, Completions
    <2>3. InFlight(verifyReqs', {"verify"}) /\ ~Wanted(verifyReqs')
      BY <1>1, <2>1, DroppedRequests
    <2> QED
      BY <1>0, <2>1, <2>2, <2>3 DEF SetupInv, RegKinds, RegTies, HandoffMeansRegistered, Phase, WaitsForLogout
  <1>3. ASSUME NEW found \in BOOLEAN, OpenRegistration(found)
        PROVE  RegKinds' /\ RegTies' /\ HandoffMeansRegistered' /\ (reg.typed /\ ~reg'.typed => reg'.phase = "gone")
    <2>1. /\ reg.phase = "gone" /\ reg' = readRegistrationToken(found) /\ Verifies(reg', session)
          /\ UNCHANGED <<link, session, completion, handoff, keptInBrowser>>
      BY <1>3 DEF OpenRegistration
    <2>2. /\ readRegistrationToken(found) \in RegPages /\ ~readRegistrationToken(found).typed
          /\ readRegistrationToken(found).phase \in {"unavailable", "loggedIn", "verifying"}
          /\ (readRegistrationToken(found).phase = "loggedIn" => session)
      BY <1>0 DEF readRegistrationToken, RegPages, RegPhases
    <2>3. InFlight(verifyReqs', {"verify"}) /\ (Phase(reg', session) = "verifying" <=> Wanted(verifyReqs'))
      BY <1>1, <2>1, AskedRequests, DroppedRequests DEF Verifies
    <2>4. RegKinds'
      BY <2>1, <2>2, <2>3 DEF SetupInv, RegKinds
    <2>5. RegTies'
      BY <2>1, <2>2, <2>3 DEF SetupInv, RegTies
    <2> QED
      BY <2>1, <2>2, <2>4, <2>5 DEF SetupInv, RegTies, HandoffMeansRegistered
  <1> QED
    BY <1>2, <1>3

\* The session ends or comes back: a page that waited for its end verifies.
LEMMA SetupFlips ==
  ASSUME RequestsAssumption, SetupInv, SessionFlips
  PROVE  SetupInv' /\ UNCHANGED reg
  <1>1. InFlight(verifyReqs, {"verify"}) /\ InFlight(pwdReqs, {"password"}) /\ session \in BOOLEAN
    BY DEF SetupInv, RegKinds, PwdTies
  <1>2. /\ session' = ~session /\ pwd' = NoPwd /\ pwdReqs' = Dropped(pwdReqs)
        /\ UNCHANGED <<link, reg, completion, handoff, keptInBrowser>>
    BY DEF SessionFlips
  <1>3. InFlight(verifyReqs', {"verify"}) /\ (Phase(reg', session') = "verifying" <=> Wanted(verifyReqs'))
    <2>1. CASE WaitsForLogout(reg.phase)
      <3>1. Verifies(reg, ~session)
        BY <2>1 DEF SessionFlips
      <3> QED
        BY <1>1, <1>2, <3>1, AskedRequests, DroppedRequests DEF Verifies
    <2>2. CASE ~WaitsForLogout(reg.phase)
      <3>1. UNCHANGED verifyReqs
        BY <2>2 DEF SessionFlips
      <3> QED
        BY <1>1, <1>2, <2>2, <3>1 DEF SetupInv, RegTies, Phase
    <2> QED
      BY <2>1, <2>2
  <1>4. NoPwd \in PwdForms /\ NoPwd.phase = "gone" /\ ~NoPwd.typed
    BY DEF NoPwd, PwdForms
  <1>5. InFlight(pwdReqs', {"password"}) /\ ~Wanted(pwdReqs')
    BY <1>1, <1>2, DroppedRequests
  <1>6. RegKinds' /\ session' \in BOOLEAN
    BY <1>1, <1>2, <1>3 DEF SetupInv, RegKinds
  <1>7. RegTies' /\ HandoffMeansRegistered'
    BY <1>2, <1>3 DEF SetupInv, RegTies, HandoffMeansRegistered
  <1>8. PwdTies'
    BY <1>2, <1>4, <1>5 DEF PwdTies
  <1> QED
    BY <1>2, <1>6, <1>7, <1>8 DEF SetupInv

\* The link is verified.
LEMMA RegVerifies ==
  ASSUME RequestsAssumption, SetupInv,
         reloadRegistration \/ (\E q \in verifyReqs : ServeVerify(q) \/ \E ok \in BOOLEAN : VerifyAnswered(q, ok))
  PROVE  RegKinds' /\ RegTies' /\ HandoffMeansRegistered' /\ (reg.typed => reg'.typed)
  <1>0. /\ InFlight(verifyReqs, {"verify"}) /\ reg \in RegPages /\ 0 \in Versions /\ 1 \in Versions /\ 0 \in 0..1 /\ 1 \in 0..1
        /\ Phase(reg, session) = "verifying" <=> Wanted(verifyReqs)
    BY DEF SetupInv, RegKinds, RegTies, RequestsAssumption, Versions
  <1>1. UNCHANGED <<link, session, completion, handoff, keptInBrowser>>
    BY DEF reloadRegistration, ServeVerify, VerifyAnswered
  <1>2. SUFFICES /\ InFlight(verifyReqs', {"verify"}) /\ (Phase(reg', session) = "verifying" <=> Wanted(verifyReqs'))
                 /\ \/ UNCHANGED reg
                    \/ /\ reg' \in RegPages /\ reg.phase \notin {"gone", "completed", "ready", "submitting"}
                       /\ reg'.phase \notin {"gone", "completed", "submitting"} /\ ~reg'.typed
    <2>1. RegKinds'
      BY <1>1, <1>2 DEF SetupInv, RegKinds
    <2>2. RegTies'
      BY <1>1, <1>2 DEF SetupInv, RegTies
    <2> QED
      BY <1>1, <1>2, <2>1, <2>2 DEF SetupInv, RegTies, HandoffMeansRegistered
  <1>3. CASE reloadRegistration
    <2>1. reg.phase = "loadFailed" /\ reg' = [reg EXCEPT !.phase = "verifying", !.attempt = 1] /\ verifyReqs' = Asked(verifyReqs, "verify")
      BY <1>3 DEF reloadRegistration
    <2>2. ~reg.typed
      BY <2>1 DEF SetupInv, RegTies
    <2>3. reg' \in RegPages /\ reg'.phase = "verifying" /\ ~reg'.typed
      BY <1>0, <2>1, <2>2 DEF RegPages, RegPhases
    <2>4. InFlight(verifyReqs', {"verify"}) /\ Wanted(verifyReqs')
      BY <1>0, <2>1, AskedRequests
    <2> QED
      BY <2>1, <2>3, <2>4 DEF Phase, WaitsForLogout
  <1>4. ASSUME NEW q \in verifyReqs, ServeVerify(q)
        PROVE  InFlight(verifyReqs', {"verify"}) /\ (Wanted(verifyReqs') <=> Wanted(verifyReqs)) /\ UNCHANGED reg
    <2>1. verifyReqs' = ServedAt(verifyReqs, q, IF link = "open" THEN 1 ELSE 0) /\ UNCHANGED reg
      BY <1>4 DEF ServeVerify
    <2>2. (IF link = "open" THEN 1 ELSE 0) \in Versions
      BY <1>0
    <2> QED
      BY <1>0, <2>1, <2>2, ServedRequests
  <1>5. ASSUME NEW q \in verifyReqs, NEW ok \in BOOLEAN, VerifyAnswered(q, ok)
        PROVE  /\ InFlight(verifyReqs', {"verify"}) /\ (Phase(reg', session) = "verifying" <=> Wanted(verifyReqs'))
               /\ \/ UNCHANGED reg
                  \/ /\ reg' \in RegPages /\ reg.phase \notin {"gone", "completed", "ready", "submitting"}
                     /\ reg'.phase \notin {"gone", "completed", "submitting"} /\ ~reg'.typed
    <2>1. /\ InFlight(verifyReqs \ {q}, {"verify"}) /\ (~q.mine => (Wanted(verifyReqs \ {q}) <=> Wanted(verifyReqs)))
      BY <1>0, AnsweredRequests
    <2>2. CASE ~q.mine
      <3>1. verifyReqs' = verifyReqs \ {q} /\ UNCHANGED reg
        BY <1>5, <2>2 DEF VerifyAnswered
      <3> QED
        BY <1>0, <2>1, <2>2, <3>1
    <2>3. CASE q.mine
      <3>1. Wanted(verifyReqs)
        BY <2>3 DEF Wanted
      <3>2. reg.phase \in {"verifying", "loggedIn", "loggingOut"} /\ ~reg.typed
        BY <1>0, <3>1 DEF Phase, WaitsForLogout, SetupInv, RegTies
      <3>3. /\ verifyReqs' = Dropped(verifyReqs \ {q})
            /\ \/ reg' = [reg EXCEPT !.phase = "ready", !.typed = FALSE]
               \/ reg' = [reg EXCEPT !.phase = "unavailable"]
               \/ reg' = [reg EXCEPT !.phase = "loadFailed"]
        BY <1>5, <2>3 DEF VerifyAnswered, verifyFailureKind
      <3>4. reg' \in RegPages /\ reg'.phase \in {"ready", "unavailable", "loadFailed"} /\ ~reg'.typed
        BY <1>0, <3>2, <3>3 DEF RegPages, RegPhases
      <3>5. InFlight(verifyReqs', {"verify"}) /\ ~Wanted(verifyReqs')
        BY <2>1, <3>3, DroppedRequests
      <3> QED
        BY <3>2, <3>4, <3>5 DEF Phase, WaitsForLogout
    <2> QED
      BY <2>2, <2>3
  <1> QED
    BY <1>0, <1>3, <1>4, <1>5

\* The user leaves the session and types; the link ends; the login page takes the address.
LEMMA RegFills ==
  ASSUME SetupInv, logoutAndContinue \/ updateValues \/ LinkEnds \/ clearLoginHandoff
  PROVE  RegKinds' /\ RegTies' /\ HandoffMeansRegistered' /\ (reg.typed => reg'.typed)
  <1>0. reg \in RegPages
    BY DEF SetupInv, RegKinds
  <1>1. CASE logoutAndContinue
    <2>1. reg.phase = "loggedIn" /\ session /\ reg' = [reg EXCEPT !.phase = "loggingOut"]
          /\ UNCHANGED <<link, session, verifyReqs, completion, handoff, keptInBrowser>>
      BY <1>1 DEF logoutAndContinue
    <2>2. reg' \in RegPages /\ reg'.phase = "loggingOut" /\ reg'.typed = reg.typed
      BY <1>0, <2>1 DEF RegPages, RegPhases
    <2> QED
      BY <2>1, <2>2 DEF SetupInv, RegKinds, RegTies, HandoffMeansRegistered, Phase, WaitsForLogout
  <1>2. CASE updateValues
    <2>1. reg.phase = "ready" /\ reg' = [reg EXCEPT !.typed = TRUE]
          /\ UNCHANGED <<link, session, verifyReqs, completion, handoff, keptInBrowser>>
      BY <1>2 DEF updateValues
    <2>2. reg' \in RegPages /\ reg'.phase = "ready" /\ reg'.typed
      BY <1>0, <2>1 DEF RegPages, RegPhases
    <2> QED
      BY <2>1, <2>2 DEF SetupInv, RegKinds, RegTies, HandoffMeansRegistered, Phase, WaitsForLogout
  <1>3. CASE LinkEnds
    BY <1>3 DEF LinkEnds, regVars, SetupInv, RegKinds, RegTies, HandoffMeansRegistered, Phase, WaitsForLogout
  <1>4. CASE clearLoginHandoff
    BY <1>4 DEF clearLoginHandoff, SetupInv, RegKinds, RegTies, HandoffMeansRegistered, Phase, WaitsForLogout
  <1> QED
    BY <1>1, <1>2, <1>3, <1>4

\* The registration is sent, carried out and answered.
LEMMA RegSubmits ==
  ASSUME SetupInv, submitRegistration \/ ServeCompletion \/ Registered \/ (\E lost \in BOOLEAN : RegistrationFailed(lost))
  PROVE  RegKinds' /\ RegTies' /\ HandoffMeansRegistered' /\ (reg.typed /\ ~reg'.typed => reg.phase = "submitting")
  <1>0. reg \in RegPages /\ completion \in Completions
    BY DEF SetupInv, RegKinds
  <1>1. NoCompletion \in Completions /\ NoCompletion.stage = "none" /\ NoCompletion.result = "none"
    BY DEF NoCompletion, Completions
  <1>6. NoReg \in RegPages /\ ~NoReg.token /\ ~NoReg.typed
    <2>1. 0 \in 0..1
      OBVIOUS
    <2> QED
      BY <2>1 DEF NoReg, RegPages, RegPhases
  <1>2. CASE submitRegistration
    <2>1. /\ reg.phase = "ready" /\ reg' = [reg EXCEPT !.phase = "submitting"] /\ completion' = [NoCompletion EXCEPT !.stage = "sent"]
          /\ UNCHANGED <<link, session, verifyReqs, handoff, keptInBrowser>>
      BY <1>2 DEF submitRegistration
    <2>2. reg' \in RegPages /\ reg'.phase = "submitting" /\ reg'.typed = reg.typed
      BY <1>0, <2>1 DEF RegPages, RegPhases
    <2>3. completion' \in Completions /\ completion'.stage = "sent" /\ completion'.result = "none"
      BY <1>1, <2>1 DEF Completions
    <2> QED
      BY <2>1, <2>2, <2>3 DEF SetupInv, RegKinds, RegTies, HandoffMeansRegistered, Phase, WaitsForLogout
  <1>3. CASE ServeCompletion
    <2>1. /\ completion.stage = "sent" /\ UNCHANGED <<session, reg, verifyReqs, handoff, keptInBrowser>>
          /\ link' \in {link, "used"} /\ (link = "used" => link' = "used")
          /\ \E r \in {"done", "unavailable", "invalid"} : completion' = [stage |-> "served", result |-> r] /\ (r = "done" => link' = "used")
      BY <1>3 DEF ServeCompletion
    <2>2. completion' \in Completions /\ completion'.stage = "served" /\ (completion'.result = "done" => link' = "used")
      BY <2>1 DEF Completions
    <2> QED
      BY <2>1, <2>2 DEF SetupInv, RegKinds, RegTies, HandoffMeansRegistered, Phase, WaitsForLogout
  <1>4. CASE Registered
    <2>1. /\ completion.result = "done" /\ completion.stage = "served" /\ completion' = NoCompletion /\ keptInBrowser' = TRUE /\ handoff' = TRUE
          /\ reg' = [NoReg EXCEPT !.phase = "completed"] /\ UNCHANGED <<link, session, verifyReqs>>
      BY <1>4 DEF Registered
    <2>2. reg' \in RegPages /\ reg'.phase = "completed" /\ ~reg'.token /\ ~reg'.typed
      BY <1>6, <2>1 DEF RegPages, RegPhases
    <2>3. reg.phase = "submitting" /\ link = "used"
      BY <2>1 DEF SetupInv, RegTies
    <2> QED
      BY <1>1, <2>1, <2>2, <2>3 DEF SetupInv, RegKinds, RegTies, HandoffMeansRegistered, Phase, WaitsForLogout
  <1>5. ASSUME NEW lost \in BOOLEAN, RegistrationFailed(lost)
        PROVE  RegKinds' /\ RegTies' /\ HandoffMeansRegistered' /\ reg.phase = "submitting"
    <2>1. /\ completion.stage # "none" /\ completion' = NoCompletion /\ UNCHANGED <<link, session, verifyReqs, handoff, keptInBrowser>>
          /\ reg' = [NoReg EXCEPT !.phase = "unavailable"] \/ reg' = [reg EXCEPT !.phase = "ready"]
      BY <1>5 DEF RegistrationFailed, AfterFailure
    <2>2. reg.phase = "submitting"
      BY <2>1 DEF SetupInv, RegTies
    <2>3. /\ reg' \in RegPages /\ reg'.phase \in {"unavailable", "ready"} /\ (reg'.typed => reg'.phase = "ready")
      BY <1>0, <1>6, <2>1 DEF RegPages, RegPhases
    <2> QED
      BY <1>1, <2>1, <2>2, <2>3 DEF SetupInv, RegKinds, RegTies, HandoffMeansRegistered, Phase, WaitsForLogout
  <1> QED
    BY <1>2, <1>3, <1>4, <1>5

\* The password is changed.
LEMMA PwdWorks ==
  ASSUME RequestsAssumption, SetupInv,
         \/ OpenPassword \/ LeavePassword \/ setField \/ submitPassword
         \/ \E q \in pwdReqs : ServePassword(q) \/ \E ok \in BOOLEAN : PasswordAnswered(q, ok)
  PROVE  PwdTies' /\ UNCHANGED <<link, session, regVars>> /\ (pwd.typed /\ pwd'.phase = "idle" /\ ~pwd'.typed => Wanted(pwdReqs))
  <1>0. /\ InFlight(pwdReqs, {"password"}) /\ pwd \in PwdForms /\ 0 \in Versions /\ 1 \in Versions
        /\ pwd.phase = "sending" <=> Wanted(pwdReqs)
        /\ pwd.phase = "gone" => ~pwd.typed
    BY DEF SetupInv, PwdTies, RequestsAssumption, Versions
  <1>1. UNCHANGED <<link, session, regVars>>
    BY DEF OpenPassword, LeavePassword, setField, submitPassword, ServePassword, PasswordAnswered
  <1>2. CASE OpenPassword
    <2>1. pwd.phase = "gone" /\ pwd' = [phase |-> "idle", typed |-> FALSE] /\ UNCHANGED pwdReqs
      BY <1>2 DEF OpenPassword
    <2>2. pwd' \in PwdForms /\ pwd'.phase = "idle"
      BY <2>1 DEF PwdForms
    <2> QED
      BY <1>0, <1>1, <2>1, <2>2 DEF PwdTies
  <1>3. CASE LeavePassword
    <2>1. pwd' = NoPwd /\ pwdReqs' = Dropped(pwdReqs)
      BY <1>3 DEF LeavePassword
    <2>2. pwd' \in PwdForms /\ pwd'.phase = "gone" /\ ~pwd'.typed
      BY <2>1 DEF NoPwd, PwdForms
    <2> QED
      BY <1>0, <1>1, <2>1, <2>2, DroppedRequests DEF PwdTies
  <1>4. CASE setField
    <2>1. pwd.phase = "idle" /\ pwd' = [pwd EXCEPT !.typed = TRUE] /\ UNCHANGED pwdReqs
      BY <1>4 DEF setField
    <2>2. pwd' \in PwdForms /\ pwd'.phase = "idle" /\ pwd'.typed
      BY <1>0, <2>1 DEF PwdForms
    <2> QED
      BY <1>0, <1>1, <2>1, <2>2 DEF PwdTies
  <1>5. CASE submitPassword
    <2>1. pwd' = [pwd EXCEPT !.phase = "sending"] /\ pwdReqs' = Asked(pwdReqs, "password")
      BY <1>5 DEF submitPassword
    <2>2. pwd' \in PwdForms /\ pwd'.phase = "sending"
      BY <1>0, <2>1 DEF PwdForms
    <2>3. InFlight(pwdReqs', {"password"}) /\ Wanted(pwdReqs')
      BY <1>0, <2>1, AskedRequests
    <2> QED
      BY <1>1, <2>2, <2>3 DEF PwdTies
  <1>6. ASSUME NEW q \in pwdReqs, ServePassword(q)
        PROVE  PwdTies' /\ UNCHANGED pwd
    <2>1. PICK changed \in {0, 1} : pwdReqs' = ServedAt(pwdReqs, q, changed)
      BY <1>6 DEF ServePassword
    <2>2. UNCHANGED pwd /\ changed \in Versions
      BY <1>0, <1>6 DEF ServePassword
    <2>3. InFlight(pwdReqs', {"password"}) /\ (Wanted(pwdReqs') <=> Wanted(pwdReqs))
      BY <1>0, <2>1, <2>2, ServedRequests
    <2> QED
      BY <1>0, <2>2, <2>3 DEF PwdTies
  <1>7. ASSUME NEW q \in pwdReqs, NEW ok \in BOOLEAN, PasswordAnswered(q, ok)
        PROVE  PwdTies' /\ (q.mine \/ UNCHANGED pwd)
    <2>1. pwdReqs' = pwdReqs \ {q} /\ pwd' = IF ~q.mine THEN pwd ELSE [phase |-> "idle", typed |-> ~(ok /\ q.version = 1)]
      BY <1>7 DEF PasswordAnswered
    <2>2. /\ InFlight(pwdReqs', {"password"}) /\ (q.mine => ~Wanted(pwdReqs')) /\ (~q.mine => (Wanted(pwdReqs') <=> Wanted(pwdReqs)))
      BY <1>0, <2>1, AnsweredRequests
    <2>3. q.mine => pwd' \in PwdForms /\ pwd'.phase = "idle"
      BY <2>1 DEF PwdForms
    <2> QED
      BY <1>0, <2>1, <2>2, <2>3 DEF PwdTies
  <1>8. \A q \in pwdReqs : q.mine => Wanted(pwdReqs)
    BY DEF Wanted
  <1> QED
    BY <1>0, <1>1, <1>2, <1>3, <1>4, <1>5, <1>6, <1>7, <1>8 DEF LeavePassword, NoPwd, OpenPassword, setField, submitPassword

\* Every step keeps both pages, and what was typed survives it.
LEMMA SetupStep ==
  ASSUME RequestsAssumption, SetupInv, SetupNext
  PROVE  SetupInv' /\ TypedSurvivesStep
  <1>1. CASE SessionFlips
    BY <1>1, SetupFlips DEF SessionFlips, NoPwd, TypedSurvivesStep
  <1>2. CASE \/ LeaveRegistration \/ logoutAndContinue \/ reloadRegistration \/ updateValues
             \/ submitRegistration \/ ServeCompletion \/ Registered \/ LinkEnds \/ clearLoginHandoff
             \/ \E b \in BOOLEAN : OpenRegistration(b) \/ RegistrationFailed(b)
             \/ \E q \in verifyReqs : ServeVerify(q) \/ \E ok \in BOOLEAN : VerifyAnswered(q, ok)
    <2>1. UNCHANGED pwdVars
      BY <1>2 DEF LeaveRegistration, logoutAndContinue, reloadRegistration, updateValues, submitRegistration, ServeCompletion,
                  Registered, LinkEnds, clearLoginHandoff, OpenRegistration, RegistrationFailed, ServeVerify, VerifyAnswered
    <2>2. /\ RegKinds' /\ RegTies' /\ HandoffMeansRegistered'
          /\ reg.typed /\ ~reg'.typed => (reg.phase = "submitting" \/ reg'.phase = "gone")
      BY <1>2, RegOpens, RegVerifies, RegFills, RegSubmits
    <2> QED
      BY <2>1, <2>2, PwdRests DEF pwdVars, SetupInv, TypedSurvivesStep
  <1>3. CASE \/ OpenPassword \/ LeavePassword \/ setField \/ submitPassword
             \/ \E q \in pwdReqs : ServePassword(q) \/ \E ok \in BOOLEAN : PasswordAnswered(q, ok)
    <2>1. PwdTies' /\ UNCHANGED <<link, session, regVars>> /\ (pwd.typed /\ pwd'.phase = "idle" /\ ~pwd'.typed => Wanted(pwdReqs))
      BY <1>3, PwdWorks
    <2> QED
      BY <2>1, RegRests DEF regVars, SetupInv, TypedSurvivesStep
  <1> QED
    BY <1>1, <1>2, <1>3 DEF SetupNext

\* A step of another part of the shell leaves both pages as they are.
LEMMA SetupRests == ASSUME SetupInv, UNCHANGED setupVars PROVE SetupInv'
  BY RegRests, PwdRests DEF setupVars, regVars, pwdVars, SetupInv

\* What the run checks of them.
LEMMA SetupShows == ASSUME SetupInv PROVE SetupTypeOK /\ HandoffMeansRegistered
  <1>1. Wanted(verifyReqs) \in BOOLEAN /\ Wanted(pwdReqs) \in BOOLEAN
    BY DEF Wanted
  <1> QED
    BY <1>1 DEF SetupInv, RegKinds, RegTies, PwdTies, SetupTypeOK, RegPages, Completions, PwdForms, InFlight
===============================================================================
