--------------------------------- MODULE ShellMenu ---------------------------------
(***************************************************************************)
(* The shell around the screens: the work role with the business menu read *)
(* for it, and the sidebar that shows the menu.                            *)
(***************************************************************************)
EXTENDS Integers, Sequences, FiniteSets, SequencesExt

(***************************************************************************)
(* The work role of the top bar (WorkRoleProvider) and the business menu   *)
(* that depends on it (BusinessNavigationProvider).  Both re-read at every  *)
(* trigger and keep only the answer of their last request; a switch asks   *)
(* the open form first, and advances the revision the menu follows.        *)
(*                                                                         *)
(* history is the work role on the server after each switch, of this tab   *)
(* or of another; what an answer says is the length of it when the request *)
(* was served.                                                             *)
(***************************************************************************)
CONSTANTS
  Roles,        \* the roles of the user
  MaxSwitches,  \* bound on the switches the server makes, of any tab
  MaxRevision,  \* bound on revision
  Slots         \* bound: the requests of one kind in flight at once

WorkRoleAssumption == Roles # {} /\ MaxSwitches \in Nat /\ MaxRevision \in Nat

VARIABLES
  history,
  menuOpen,
  roleLoad,  \* load of WorkRoleProvider; version 0 is no data
  menuLoad,  \* state of BusinessNavigationProvider
  roleReq, menuReq,  \* the GETs in flight, by slot
  revision,
  guarded,   \* a form with unsaved changes has registered its guard
  switch,    \* the switch under way
  ackedRole      \* history: Len(history) when the last switch of this tab was answered

menuVars == <<history, menuOpen, roleLoad, menuLoad, roleReq, menuReq, revision, guarded, switch, ackedRole>>

INITIAL == [phase |-> "idle", version |-> 0, reloading |-> FALSE, revision |-> 0]
LOAD_ERROR == [INITIAL EXCEPT !.phase = "load-error"]
NoRequest == [stage |-> "none", mine |-> FALSE, version |-> 0, revision |-> 0]
NoSwitch == [stage |-> "none", to |-> CHOOSE r \in Roles : TRUE, result |-> "none"]

Phases == {"idle", "loading", "loaded", "load-error"}
MenuTypeOK ==
  LET Load == [phase : Phases, version : 0..MaxSwitches + 1, reloading : BOOLEAN, revision : 0..MaxRevision]
      Request == [stage : {"none", "sent", "served"}, mine : BOOLEAN,
                  version : 0..MaxSwitches + 1, revision : 0..MaxRevision]
  IN /\ history \in Seq(Roles) /\ Len(history) \in 1..MaxSwitches + 1
     /\ menuOpen \in BOOLEAN /\ guarded \in BOOLEAN /\ revision \in 0..MaxRevision
     /\ roleLoad \in Load /\ menuLoad \in Load
     /\ \A l \in {roleLoad, menuLoad} : (l.version = 0) = (l.phase # "loaded") /\ (l.reloading => l.phase = "loaded")
     /\ roleReq \in [Slots -> Request] /\ menuReq \in [Slots -> Request]
     /\ switch \in [stage : {"none", "guarding", "sent", "served"}, to : Roles,
                    result : {"none", "switched", "rejected", "failed"}]
     /\ ackedRole \in 0..MaxSwitches + 1

\* The roles are alike: whichever it starts with.
MenuInit ==
  /\ history = <<CHOOSE r \in Roles : TRUE>>
  /\ menuOpen = FALSE /\ roleLoad = INITIAL /\ menuLoad = INITIAL
  /\ roleReq = [s \in Slots |-> NoRequest] /\ menuReq = [s \in Slots |-> NoRequest]
  /\ revision = 0 /\ guarded = FALSE /\ switch = NoSwitch /\ ackedRole = 0

-----------------------------------------------------------------------------
(* Re-reading: generation.current += 1 makes the new request the only one    *)
(* whose answer counts.                                                      *)

Sent(rev) == [stage |-> "sent", mine |-> TRUE, version |-> 0, revision |-> rev]
Supersede(reqs) == [s \in Slots |-> [reqs[s] EXCEPT !.mine = FALSE]]
Free(reqs) == {s \in Slots : reqs[s].stage = "none"}
SendOn(reqs, rev) == [Supersede(reqs) EXCEPT ![CHOOSE s \in Free(reqs) : TRUE] = Sent(rev)]
Loading(load) == IF load.version = 0 THEN [INITIAL EXCEPT !.phase = "loading"] ELSE [load EXCEPT !.reloading = TRUE]

reloadRole ==
  /\ Free(roleReq) # {}
  /\ roleReq' = SendOn(roleReq, 0) /\ roleLoad' = Loading(roleLoad)

reloadMenu(rev) ==
  /\ Free(menuReq) # {}
  /\ menuReq' = SendOn(menuReq, rev) /\ menuLoad' = Loading(menuLoad)

\* useReloadTriggers: a change of the path or news of the session.
Trigger ==
  /\ menuOpen
  /\ reloadRole /\ reloadMenu(revision)
  /\ UNCHANGED <<history, menuOpen, revision, guarded, switch, ackedRole>>

Login ==
  /\ ~menuOpen
  /\ menuOpen' = TRUE
  /\ reloadRole /\ reloadMenu(revision)
  /\ UNCHANGED <<history, revision, guarded, switch, ackedRole>>

\* The values are thrown away, and so are the answers still to come.
Logout ==
  /\ menuOpen
  /\ menuOpen' = FALSE
  /\ roleLoad' = INITIAL /\ menuLoad' = INITIAL
  /\ roleReq' = Supersede(roleReq) /\ menuReq' = Supersede(menuReq)
  /\ UNCHANGED <<history, revision, guarded, switch, ackedRole>>

\* The server answers with the role, and the menu of the role, of that moment.
Served(reqs, s) == [reqs EXCEPT ![s].stage = "served", ![s].version = Len(history)]
ServeRole(s) ==
  /\ roleReq[s].stage = "sent" /\ roleReq' = Served(roleReq, s)
  /\ UNCHANGED <<history, menuOpen, roleLoad, menuLoad, menuReq, revision, guarded, switch, ackedRole>>
ServeMenu(s) ==
  /\ menuReq[s].stage = "sent" /\ menuReq' = Served(menuReq, s)
  /\ UNCHANGED <<history, menuOpen, roleLoad, menuLoad, roleReq, revision, guarded, switch, ackedRole>>

Loaded(req) == [phase |-> "loaded", version |-> req.version, reloading |-> FALSE, revision |-> req.revision]

\* The answer of a read of the role, or its failure: what was read before stays.
RoleAnswered(s, ok) ==
  /\ roleReq[s].stage = "served" \/ (~ok /\ roleReq[s].stage = "sent")
  /\ roleReq' = [roleReq EXCEPT ![s] = NoRequest]
  /\ roleLoad' = CASE ~roleReq[s].mine -> roleLoad
                   [] roleReq[s].mine /\ ok -> Loaded(roleReq[s])
                   [] OTHER -> IF roleLoad.version = 0 THEN LOAD_ERROR ELSE [roleLoad EXCEPT !.reloading = FALSE]
  /\ UNCHANGED <<history, menuOpen, menuLoad, menuReq, revision, guarded, switch, ackedRole>>

\* A menu read before the last switch does not survive the failure.
MenuFailed(req) ==
  IF menuLoad.version = 0 \/ menuLoad.revision # req.revision
    THEN LOAD_ERROR ELSE [menuLoad EXCEPT !.reloading = FALSE]

MenuAnswered(s, ok) ==
  /\ menuReq[s].stage = "served" \/ (~ok /\ menuReq[s].stage = "sent")
  /\ menuReq' = [menuReq EXCEPT ![s] = NoRequest]
  /\ menuLoad' = CASE ~menuReq[s].mine -> menuLoad
                   [] menuReq[s].mine /\ ok -> Loaded(menuReq[s])
                   [] OTHER -> MenuFailed(menuReq[s])
  /\ UNCHANGED <<history, menuOpen, roleLoad, roleReq, revision, guarded, switch, ackedRole>>

-----------------------------------------------------------------------------
(* Switching *)

\* Offered with two roles or more, while no switch is under way; the present
\* role is left alone.  The open form is asked first.
switchTo(r) ==
  /\ menuOpen /\ roleLoad.phase = "loaded" /\ switch.stage = "none"
  /\ history[roleLoad.version] # r
  /\ switch' = [stage |-> IF guarded THEN "guarding" ELSE "sent", to |-> r, result |-> "none"]
  /\ UNCHANGED <<history, menuOpen, roleLoad, menuLoad, roleReq, menuReq, revision, guarded, ackedRole>>

GuardAnswered(allowed) ==
  /\ switch.stage = "guarding"
  /\ switch' = IF allowed THEN [switch EXCEPT !.stage = "sent"] ELSE NoSwitch
  /\ UNCHANGED <<history, menuOpen, roleLoad, menuLoad, roleReq, menuReq, revision, guarded, ackedRole>>

registerSwitchGuard ==
  /\ switch.stage = "none"
  /\ guarded' = ~guarded
  /\ UNCHANGED <<history, menuOpen, roleLoad, menuLoad, roleReq, menuReq, revision, switch, ackedRole>>

\* The server switches, or refuses (the role is not assigned any more, or busy).
ServeSwitch ==
  /\ switch.stage = "sent"
  /\ \/ /\ Len(history) <= MaxSwitches
        /\ history' = Append(history, switch.to)
        /\ switch' = [switch EXCEPT !.stage = "served", !.result = "switched"]
     \/ switch' = [switch EXCEPT !.stage = "served", !.result = "rejected"] /\ UNCHANGED history
  /\ UNCHANGED <<menuOpen, roleLoad, menuLoad, roleReq, menuReq, revision, guarded, ackedRole>>

OtherTabSwitches(r) ==
  /\ Len(history) <= MaxSwitches /\ r # history[Len(history)]
  /\ history' = Append(history, r)
  /\ UNCHANGED <<menuOpen, roleLoad, menuLoad, roleReq, menuReq, revision, guarded, switch, ackedRole>>

\* The answer of the switch: whatever it is, the role is read again; the
\* revision advances, and with it the menu is read again, unless the outcome
\* is unknown.
FollowSwitch(known) ==
  IF known
    THEN /\ revision' = revision + 1
         /\ IF menuOpen THEN reloadMenu(revision + 1) ELSE UNCHANGED <<menuReq, menuLoad>>
    ELSE UNCHANGED <<revision, menuReq, menuLoad>>

SwitchAnswered(lost) ==
  /\ switch.stage = "served" \/ (lost /\ switch.stage = "sent")
  /\ revision < MaxRevision
  /\ switch' = NoSwitch
  /\ ackedRole' = IF ~lost /\ switch.result = "switched" THEN Len(history) ELSE ackedRole
  /\ FollowSwitch(~lost)
  /\ IF menuOpen THEN reloadRole ELSE UNCHANGED <<roleReq, roleLoad>>
  /\ UNCHANGED <<history, menuOpen, guarded>>

-----------------------------------------------------------------------------
MenuNext ==
  \/ Trigger \/ Login \/ Logout \/ registerSwitchGuard \/ ServeSwitch
  \/ \E s \in Slots : ServeRole(s) \/ ServeMenu(s) \/ \E ok \in BOOLEAN : RoleAnswered(s, ok) \/ MenuAnswered(s, ok)
  \/ \E r \in Roles : switchTo(r) \/ OtherTabSwitches(r)
  \/ \E b \in BOOLEAN : GuardAnswered(b) \/ SwitchAnswered(b)

-----------------------------------------------------------------------------
\* A menu that is shown as up to date was read after the last switch of this tab
\* was answered, whatever answers were late or failed in between (R-01).
MenuFollowsSwitch ==
  menuOpen /\ menuLoad.phase = "loaded" /\ ~menuLoad.reloading => menuLoad.version >= ackedRole

\* Nothing read for a session outlives it: no late answer brings it back.
NothingAfterLogout == ~menuOpen => roleLoad = INITIAL /\ menuLoad = INITIAL

-----------------------------------------------------------------------------
(***************************************************************************)
(* The business menu: what the server keeps of the DSL's menu for the work *)
(* role (MenuFilter), the items and the home cards the shell makes of it,  *)
(* the item of the page that is shown, and the groups that are open        *)
(* (ShellLayout, buildNavSections, navExpansion).                          *)
(*                                                                         *)
(* An item is named by its position in the menu, a sequence of numbers; a  *)
(* menu gives each position a table or none.                               *)
(***************************************************************************)
CONSTANTS
  Menus,        \* the DSLs: functions of positions, closed under their prefixes, to tables or None
  MenuTables, NoItem,
  MaxMenuChanges    \* bound: the changes of the DSL and of the permissions

Positions == UNION {DOMAIN m : m \in Menus}
SidebarAssumption ==
  /\ MaxMenuChanges \in Nat /\ NoItem \notin MenuTables \cup Positions
  /\ \A m \in Menus : m \in [DOMAIN m -> MenuTables \cup {NoItem}]
                      /\ \A p \in DOMAIN m : \A i \in 1..Len(p) : SubSeq(p, 1, i) \in DOMAIN m
  /\ \A p \in Positions : p \in Seq(Nat) /\ p # <<>>

VARIABLES
  menu, granted, menuChanges,    \* the server: the menu of the DSL, the tables the work role may see
  phase, reloading, response, ofRole,  \* what the menu is read as; ofRole: asked for after the last switch of the role
  address,                   \* home, another page or a table's, which may name the item it was opened by
  expanded, key              \* the open groups, also kept for the tab; the groups around the item when last rendered

sidebarVars == <<menu, granted, menuChanges, phase, reloading, response, ofRole, address, expanded, key>>

-----------------------------------------------------------------------------
(* What the server keeps *)
\* An item leads to its table if the role may see it; one that leads nowhere is kept for an item below it.
filter(m, tables) ==
  LET leads == {p \in DOMAIN m : m[p] \in tables}
  IN  [p \in {q \in DOMAIN m : \E l \in leads : IsPrefix(q, l)} |-> IF p \in leads THEN m[p] ELSE NoItem]
emptyReason(m, tables) ==
  IF DOMAIN m = {} THEN "NOT_CONFIGURED" ELSE IF DOMAIN filter(m, tables) = {} THEN "NOTHING_VISIBLE" ELSE NoItem

-----------------------------------------------------------------------------
(* What the shell makes of it *)
status == IF phase = "loaded" /\ reloading THEN "reloading" ELSE phase
items == IF status \in {"loaded", "reloading"} THEN response.items ELSE <<>>
navigable(shown) == {p \in DOMAIN shown : shown[p] # NoItem}
\* An item that has neither a path nor an item below it is dropped.
businessIds(shown) == {p \in DOMAIN shown : \E q \in navigable(shown) : IsPrefix(p, q)}

\* The order of the menu, an item before those below it.
Before(p, q) == IsStrictPrefix(p, q) \/ \E i \in DOMAIN p \cap DOMAIN q : SubSeq(p, 1, i - 1) = SubSeq(q, 1, i - 1) /\ p[i] < q[i]
FirstOf(positions) == CHOOSE p \in positions : \A q \in positions \ {p} : Before(p, q)

\* The items are in a line, so any of them have a first; and None is no answer and no text.
OrderAssumption ==
  /\ \A S \in (SUBSET Positions) \ {{}} : \E p \in S : \A q \in S \ {p} : Before(p, q)
  /\ \A m \in Menus, tables \in SUBSET MenuTables :
       NoItem # [items |-> filter(m, tables), reason |-> emptyReason(m, tables)]
  /\ NoItem \notin {"home.notConfigured", "home.nothingVisible"}

Home == [page |-> "home", table |-> NoItem, item |-> NoItem]
OtherPage == [page |-> "other", table |-> NoItem, item |-> NoItem]
AtTable(table, item) == [page |-> "table", table |-> table, item |-> item]
MutFirstOfTable(shown, at) ==
  LET same == {p \in navigable(shown) : shown[p] = at.table}
  IN  IF same = {} THEN NoItem ELSE FirstOf(same)
\* The item of the page: the one it was opened by, if it still leads to the table, or the first that does.
findBusinessCurrent(shown, at) ==
  LET same == {p \in navigable(shown) : shown[p] = at.table}
  IN  IF same = {} THEN NoItem ELSE IF at.item \in same THEN at.item ELSE FirstOf(same)
currentAncestorIds(shown, at) ==
  LET p == findBusinessCurrent(shown, at) IN IF p = NoItem THEN {} ELSE {SubSeq(p, 1, i) : i \in 1..Len(p) - 1}

firstNavigable(shown, p) == FirstOf({q \in navigable(shown) : IsPrefix(p, q)})
cards == {p \in DOMAIN items : Len(p) = 1}
\* The two texts of NOTHING_VISIBLE, with a work role and without one, are one here.
homeNoticeKey ==
  IF status = "load-error" THEN "home.loadError"
  ELSE IF status # "loaded" \/ DOMAIN items # {} THEN NoItem
  ELSE IF response.reason = "NOT_CONFIGURED" THEN "home.notConfigured" ELSE "home.nothingVisible"

pruneExpanded(ids, business) == ids \cap business
addAncestors(ids, ancestors) == ids \cup ancestors

-----------------------------------------------------------------------------
\* A rendering of the shell: a menu that was just loaded takes the groups it does not have, then the groups
\* around the item are opened if they changed since before.
Renders(before, loaded) ==
  LET around == currentAncestorIds(items', address')
      kept == IF loaded THEN pruneExpanded(expanded, businessIds(items')) ELSE expanded
  IN  /\ expanded' = IF around # before THEN addAncestors(kept, around) ELSE kept
      /\ key' = around

\* The menu is read again: at every change of the address, and after a switch.
Reads == /\ phase' = (IF response = NoItem THEN "loading" ELSE phase)
         /\ reloading' = (response # NoItem)
         /\ UNCHANGED response

SidebarInit ==
  /\ menu \in Menus /\ granted \in SUBSET MenuTables /\ menuChanges = 0
  /\ phase = "loading" /\ reloading = FALSE /\ response = NoItem /\ ofRole = TRUE
  /\ address = Home /\ expanded = {} /\ key = {}

\* Another DSL is applied, or the permissions of the work role change.
MenuChanges ==
  /\ menuChanges < MaxMenuChanges /\ menuChanges' = menuChanges + 1
  /\ \/ menu' \in Menus \ {menu} /\ UNCHANGED granted
     \/ granted' \in (SUBSET MenuTables) \ {granted} /\ UNCHANGED menu
  /\ UNCHANGED <<phase, reloading, response, ofRole, address, expanded, key>>

\* The user takes another work role, which may see other tables.
RoleSwitched ==
  /\ menuChanges < MaxMenuChanges /\ menuChanges' = menuChanges + 1
  /\ granted' \in SUBSET MenuTables /\ ofRole' = FALSE
  /\ Reads /\ UNCHANGED <<menu, address>> /\ Renders(key, FALSE)

SidebarLoaded ==
  /\ phase = "loading" \/ reloading
  /\ response' = [items |-> filter(menu, granted), reason |-> emptyReason(menu, granted)]
  /\ phase' = "loaded" /\ reloading' = FALSE /\ ofRole' = TRUE
  /\ UNCHANGED <<menu, granted, menuChanges, address>> /\ Renders(key, TRUE)
\* A menu of the work role before the switch is not shown any longer.
LoadFails ==
  /\ phase = "loading" \/ reloading
  /\ IF response = NoItem \/ ~ofRole THEN phase' = "load-error" /\ response' = NoItem ELSE UNCHANGED <<phase, response>>
  /\ reloading' = FALSE /\ ofRole' = TRUE
  /\ UNCHANGED <<menu, granted, menuChanges, address>> /\ Renders(key, FALSE)

\* Home has a shell of its own: coming to it or going from it starts one, which opens the groups around the item.
GoTo(at) ==
  /\ address' = at /\ Reads
  /\ Renders(IF (at = Home) # (address = Home) THEN {} ELSE key, FALSE)
  /\ UNCHANGED <<menu, granted, menuChanges, ofRole>>
Press(p) ==
  /\ p \in navigable(items) /\ \A i \in 1..Len(p) - 1 : SubSeq(p, 1, i) \in expanded
  /\ GoTo(AtTable(items[p], p))
OpenCard(p) == /\ address = Home /\ p \in cards
               /\ LET q == firstNavigable(items, p) IN GoTo(AtTable(items[q], q))
\* Any other way: a link, the history of the browser.
Visit ==
  \E at \in {Home, OtherPage} \cup {AtTable(t, i) : t \in MenuTables, i \in Positions \cup {NoItem}} : at # address /\ GoTo(at)

Toggle(p) ==
  /\ p \in businessIds(items) /\ \E q \in DOMAIN items : IsStrictPrefix(p, q)
  /\ \A i \in 1..Len(p) - 1 : SubSeq(p, 1, i) \in expanded
  /\ expanded' = IF p \in expanded THEN expanded \ {p} ELSE expanded \cup {p}
  /\ UNCHANGED <<menu, granted, menuChanges, phase, reloading, response, ofRole, address, key>>

\* The tab is loaded again: the open groups are those it kept.
TabReloaded ==
  /\ phase' = "loading" /\ reloading' = FALSE /\ response' = NoItem /\ ofRole' = TRUE /\ key' = {}
  /\ UNCHANGED <<menu, granted, menuChanges, address, expanded>>
LoggedOutAndIn ==
  /\ phase' = "loading" /\ reloading' = FALSE /\ response' = NoItem /\ ofRole' = TRUE
  /\ address' = Home /\ expanded' = {} /\ key' = {}
  /\ UNCHANGED <<menu, granted, menuChanges>>

SidebarNext ==
  \/ MenuChanges \/ RoleSwitched \/ SidebarLoaded \/ LoadFails \/ Visit \/ TabReloaded \/ LoggedOutAndIn
  \/ \E p \in Positions : Press(p) \/ OpenCard(p) \/ Toggle(p)
SidebarSpec == SidebarInit /\ [][SidebarNext]_sidebarVars

-----------------------------------------------------------------------------
(* Properties *)

SidebarTypeOK ==
  /\ menu \in Menus /\ granted \subseteq MenuTables /\ menuChanges \in 0..MaxMenuChanges
  /\ phase \in {"loading", "loaded", "load-error"} /\ (response = NoItem) = (phase # "loaded") /\ (reloading => phase = "loaded")
  /\ ofRole \in BOOLEAN /\ (~ofRole => reloading \/ phase = "loading")
  /\ expanded \subseteq Positions /\ key = currentAncestorIds(items, address)

\* Where a menu is shown, a group that is kept open is a group of it: a group of an earlier DSL or of another
\* work role does not come open when its position has an item again.
OpenGroupsAreShown == phase = "loaded" => expanded \subseteq DOMAIN response.items

\* Nothing the server sends is dropped by the shell, and every item is, or leads to, a page.
EveryItemLeads == businessIds(items) = DOMAIN items

\* The item a page was opened by is the item of the page, and the groups around it are open; so it is for the
\* first item of a card.
OpenedItemIsCurrentStep ==
  \A p \in Positions :
    (Press(p) => findBusinessCurrent(items', address') = p) /\
    (OpenCard(p) => LET q == findBusinessCurrent(items', address')
                    IN  q # NoItem /\ IsPrefix(p, q) /\ currentAncestorIds(items', address') \subseteq expanded')
OpenedItemIsCurrent == [][OpenedItemIsCurrentStep]_sidebarVars

\* A page of a table that is opened afresh shows its item as soon as the menu is there.
ReachedItemIsShownStep ==
  response = NoItem /\ response' # NoItem => currentAncestorIds(items', address') \subseteq expanded'
ReachedItemIsShown == [][ReachedItemIsShownStep]_sidebarVars

\* A group is closed by the user, or because a menu that was read no longer has it; while the page and the menu
\* stay as they are, nothing but the user opens one.
UserChoicesStandStep ==
  expanded' # expanded =>
    \/ \E p \in Positions : Toggle(p)
    \/ LoggedOutAndIn
    \/ /\ expanded \ expanded' # {} => response' # response /\ (expanded \ expanded') \cap DOMAIN items' = {}
       /\ expanded' \ expanded # {} => address' # address \/ key' # key
UserChoicesStand == [][UserChoicesStandStep]_sidebarVars

\* A home without a business card says why.
EmptyMenuIsExplained == status = "loaded" /\ cards = {} => homeNoticeKey # NoItem /\ (homeNoticeKey = "home.notConfigured") = (response.reason = "NOT_CONFIGURED")
=============================================================================
