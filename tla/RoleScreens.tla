-------------------------------- MODULE RoleScreens --------------------------------
(***************************************************************************)
(* The page of one role (RoleDetailPage): the reading of the role, and the *)
(* panels of its permissions and of its assignments.                       *)
(***************************************************************************)
EXTENDS Requests

(***************************************************************************)
(* The page of one role (RoleDetailPage) and the reading of the role that  *)
(* it is about (useRole).  The page stays mounted when the address moves   *)
(* from one role to another; a panel on it may report that the role is     *)
(* gone.                                                                   *)
(***************************************************************************)
CONSTANTS
  RoleIds,  \* the roles, by their id
  NoRole    \* no role, or an address that is no id

RolePageAssumption == NoRole \notin RoleIds

VARIABLES
  exists,    \* the roles the server has
  roleAddress,   \* roleId
  rolePhase, role,  \* of useRole
  readings   \* the requests: the role asked, what the server said, and whether the answer still counts

rolePageVars == <<exists, roleAddress, rolePhase, role, readings>>

Ask(r) == [of |-> r, said |-> "none", latest |-> TRUE]
Invalidated == {[q EXCEPT !.latest = FALSE] : q \in readings}

RolePageInit ==
  /\ exists = RoleIds /\ roleAddress \in RoleIds \cup {NoRole} /\ role = NoRole
  /\ rolePhase = IF roleAddress = NoRole THEN "missing" ELSE "loading"
  /\ readings = IF roleAddress = NoRole THEN {} ELSE {Ask(roleAddress)}

\* What the page shows: the panels of the address, under the heading of role.
Shows ==
  CASE rolePhase = "missing" \/ roleAddress = NoRole -> "missing"
    [] roleAddress # NoRole /\ (rolePhase = "loading" \/ (role = NoRole /\ rolePhase = "ready")) -> "loading"
    [] roleAddress # NoRole /\ rolePhase = "load-error" /\ role = NoRole -> "error"
    [] roleAddress # NoRole /\ rolePhase \in {"ready", "load-error"} /\ role # NoRole -> "panels"

-----------------------------------------------------------------------------
RoleDeleted == \E r \in exists : exists' = exists \ {r} /\ UNCHANGED <<roleAddress, rolePhase, role, readings>>

\* The cleanup of the effect, and load for the new address.
NavigateRole(to) ==
  /\ to # roleAddress /\ Cardinality(readings) < 2 /\ roleAddress' = to
  /\ rolePhase' = IF to = NoRole THEN "missing" ELSE "loading"
  /\ readings' = Invalidated \cup (IF to = NoRole THEN {} ELSE {Ask(to)})
  /\ UNCHANGED <<exists, role>>
retryRole ==
  /\ Shows = "error" /\ Cardinality(readings) < 2
  /\ rolePhase' = "loading" /\ readings' = Invalidated \cup {Ask(roleAddress)} /\ UNCHANGED <<exists, roleAddress, role>>

Serve(q) ==
  /\ q.said = "none" /\ readings' = (readings \ {q}) \cup {[q EXCEPT !.said = IF q.of \in exists THEN "role" ELSE "gone"]}
  /\ UNCHANGED <<exists, roleAddress, rolePhase, role>>
RoleRead(q) ==
  /\ q.said = "role" /\ readings' = readings \ {q} /\ UNCHANGED <<exists, roleAddress>>
  /\ IF q.latest THEN rolePhase' = "ready" /\ role' = q.of ELSE UNCHANGED <<rolePhase, role>>
RoleGone(q) ==
  /\ q.said = "gone" /\ readings' = readings \ {q} /\ UNCHANGED <<exists, roleAddress, role>>
  /\ rolePhase' = IF q.latest THEN "missing" ELSE rolePhase
RoleFails(q) ==
  /\ readings' = readings \ {q} /\ UNCHANGED <<exists, roleAddress, role>>
  /\ rolePhase' = IF q.latest THEN "load-error" ELSE rolePhase

\* A panel was told that the role of the address is gone.
markMissing ==
  /\ Shows = "panels" /\ roleAddress \notin exists
  /\ rolePhase' = "missing" /\ readings' = Invalidated /\ UNCHANGED <<exists, roleAddress, role>>

RolePageNext ==
  \/ RoleDeleted \/ (\E to \in RoleIds \cup {NoRole} : NavigateRole(to)) \/ retryRole \/ markMissing
  \/ \E q \in readings : Serve(q) \/ RoleRead(q) \/ RoleGone(q) \/ RoleFails(q)

RolePageSpec == RolePageInit /\ [][RolePageNext]_rolePageVars

-----------------------------------------------------------------------------
\* Types, with the ties of the reading: one answer counts, that of the address, and it counts while the page is loading.
RolePageTypeOK ==
  /\ exists \subseteq RoleIds /\ roleAddress \in RoleIds \cup {NoRole} /\ role \in RoleIds \cup {NoRole}
  /\ rolePhase \in {"loading", "ready", "missing", "load-error"}
  /\ \A q \in readings : q.latest => q.of = roleAddress /\ rolePhase = "loading"
  /\ rolePhase = "loading" => \E q \in readings : q.latest

\* useRole.ts: the role that is ready is that of the address, and a role shown as missing is one the server has no more.
ReadyIsOfTheAddress ==
  /\ rolePhase = "ready" => role = roleAddress
  /\ rolePhase = "missing" => roleAddress \notin exists

\* RoleDetailPage: the heading names the role whose permissions and assignments are shown.
\* The code does not keep it: see the README.
HeadingNamesTheRole == Shows = "panels" => role = roleAddress

-----------------------------------------------------------------------------
(***************************************************************************)
(* The permissions of a role (useRolePermissions, PermissionPanel): a tree *)
(* of schemas and tables, the columns of the selected table, edits kept in *)
(* a draft until they are saved, and the readings that follow a save.  One *)
(* schema "s" with the tables "t" and "u", each with one column.           *)
(***************************************************************************)
VARIABLES
  perms,      \* on the server: version of the permissions, targets that left the DSL
  permPage,   \* phase, what is selected, asked for and shown
  schemaReqs, columnReqs, tableReqs,  \* readings in flight; only those of columns matter by what they read
  draft,      \* targets with an edit that is not saved
  permOp,     \* the save or the clearing in flight
  retaining,  \* the readings after which the draft is cut to what is in the DSL
  ackedPerm   \* ghost: the version after the last operation this page heard done

permVars == <<perms, permPage, schemaReqs, columnReqs, tableReqs, draft, permOp, retaining, ackedPerm>>

Scopes == {"s", "t", "u"}
\* The targets edited: one table and both columns.
Targets1 == {"t", "tc", "uc"}
ColumnOf(table) == IF table = "t" THEN "tc" ELSE "uc"

\* inScope: a schema alone, or a table with its columns.
inScope(target, scope) == CASE scope = "s" -> FALSE [] scope = "t" -> target \in {"t", "tc"} [] OTHER -> target = "uc"

NoColumns == [phase |-> "idle", of |-> "none", version |-> 0, inDsl |-> TRUE]
NoPermPage == [phase |-> "gone", selected |-> "none", pending |-> "none", tables |-> "none",
               columns |-> NoColumns, prefetch |-> FALSE]
NoPermOp == [kind |-> "none", stage |-> "none", result |-> "none", scope |-> "none", entries |-> {}]
NotRetaining == [on |-> FALSE, waits |-> {}, fresh |-> {}]

savingPerms == permOp.kind # "none"
dirtyPerms == draft # {}

PermTypeOK ==
  /\ perms \in [version : Versions, dsl : BOOLEAN, gone : {{}, {"tc"}}]
  /\ permPage \in [phase : {"gone", "loading", "noDsl", "ready", "load-error"}, selected : Scopes \cup {"none"},
                   pending : Scopes \cup {"none"}, tables : {"none", "shown"},
                   columns : [phase : {"idle", "loading", "loaded", "failed"}, of : {"none", "t", "u"}, version : Versions, inDsl : BOOLEAN],
                   prefetch : BOOLEAN]
  /\ schemaReqs \subseteq RequestsAbout(BOOLEAN) /\ columnReqs \subseteq RequestsAbout([of : {"t", "u"}, inDsl : BOOLEAN, retain : BOOLEAN])
  /\ tableReqs \subseteq RequestsAbout({"tree", "refresh"}) /\ draft \subseteq Targets1 /\ ackedPerm \in Versions
  /\ permOp \in [kind : {"none", "save", "clear"}, stage : {"none", "sent", "served"}, entries : SUBSET Targets1,
                 result : {"none", "done", "noChange", "notInDsl", "other"}, scope : Scopes \cup {"none"}]
  /\ retaining \in [on : BOOLEAN, waits : SUBSET {"schemas", "tables", "columns"}, fresh : SUBSET Targets1]
  /\ (permPage.pending # "none" => ~savingPerms /\ permPage.pending # permPage.selected)
  /\ (permPage.phase = "ready" => permPage.selected # "none") /\ (permPage.columns.phase = "loading") = Wanted(columnReqs)

PermInit ==
  /\ perms \in [version : {0}, dsl : BOOLEAN, gone : {{}}] /\ permPage = NoPermPage /\ schemaReqs = {} /\ columnReqs = {}
  /\ tableReqs = {} /\ draft = {} /\ permOp = NoPermOp /\ retaining = NotRetaining /\ ackedPerm = 0

-----------------------------------------------------------------------------
\* The answer of a reading of the schemas that was superseded changes nothing: it is left out.
loadSchemas(first) == schemaReqs' = {Request(first)}

\* The columns of the table shown before stay on the screen until the answer.
loadColumns(page, table, retain) ==
  IF table = "s" THEN permPage' = [page EXCEPT !.columns = NoColumns] /\ columnReqs' = Dropped(columnReqs)
  ELSE /\ MayAsk(columnReqs) /\ columnReqs' = Asked(columnReqs, [of |-> table, inDsl |-> TRUE, retain |-> retain])
       /\ permPage' = [page EXCEPT !.columns.phase = "loading"]

loadTables(why) == MayAsk(tableReqs) /\ tableReqs' = tableReqs \cup {Request(why)}

OpenPerms ==
  /\ permPage.phase = "gone" /\ loadSchemas(TRUE) /\ permPage' = [NoPermPage EXCEPT !.phase = "loading"] /\ ackedPerm' = 0
  /\ UNCHANGED <<perms, columnReqs, tableReqs, draft, permOp, retaining>>

\* The page is left, or the role or the right is gone (handledCommonly); an answer that comes later finds no page.
PermsGone ==
  /\ permPage.phase # "gone" /\ permPage' = NoPermPage /\ schemaReqs' = {} /\ columnReqs' = {}
  /\ tableReqs' = {} /\ draft' = {} /\ permOp' = NoPermOp /\ retaining' = NotRetaining /\ ackedPerm' = 0
  /\ UNCHANGED perms

\* Somebody else changes the permissions or applies another DSL.
PermsChange ==
  /\ \/ perms.version < MaxVersion /\ perms' = [perms EXCEPT !.version = @ + 1]
     \/ ~perms.dsl /\ perms' = [perms EXCEPT !.dsl = TRUE]
     \/ perms.dsl /\ perms' = [perms EXCEPT !.gone = {"tc"}]
  /\ UNCHANGED <<permPage, schemaReqs, columnReqs, tableReqs, draft, permOp, retaining, ackedPerm>>

ServeColumns(q) ==
  /\ q \in columnReqs /\ q.stage = "sent"
  /\ columnReqs' = (columnReqs \ {q}) \cup {[q EXCEPT !.stage = "served", !.version = perms.version, !.about.inDsl = ColumnOf(q.about.of) \notin perms.gone]}
  /\ UNCHANGED <<perms, permPage, schemaReqs, tableReqs, draft, permOp, retaining, ackedPerm>>

\* A reading of refresh has settled: what it found in the DSL counts, after a failure nothing.
Settled(part, found) ==
  retaining' = IF part \in retaining.waits THEN [retaining EXCEPT !.waits = @ \ {part}, !.fresh = @ \cup found] ELSE retaining

\* After the schemas the tree reads the tables of the open schema again, from prefetch when it is there.
SchemasRead(q) ==
  /\ q \in schemaReqs /\ schemaReqs' = schemaReqs \ {q}
  /\ IF ~perms.dsl THEN permPage' = [permPage EXCEPT !.phase = "noDsl"] /\ draft' = {} /\ UNCHANGED <<tableReqs, retaining>>
     ELSE /\ permPage' = [permPage EXCEPT !.phase = "ready", !.prefetch = FALSE,
                                          !.selected = IF q.about THEN "s" ELSE @]
          /\ IF permPage.prefetch THEN UNCHANGED tableReqs ELSE loadTables("tree")
          /\ Settled("schemas", {}) /\ UNCHANGED draft
  /\ UNCHANGED <<perms, columnReqs, permOp, ackedPerm>>
SchemasFail(q) ==
  /\ q \in schemaReqs /\ schemaReqs' = schemaReqs \ {q}
  /\ permPage' = [permPage EXCEPT !.phase = IF q.about THEN "load-error" ELSE "ready"] /\ Settled("schemas", {})
  /\ UNCHANGED <<perms, columnReqs, tableReqs, draft, permOp, ackedPerm>>

ColumnsRead(q) ==
  /\ q \in columnReqs /\ q.stage = "served" /\ columnReqs' = columnReqs \ {q}
  /\ permPage' = IF q.mine THEN [permPage EXCEPT !.columns =
                   [phase |-> "loaded", of |-> q.about.of, version |-> q.version, inDsl |-> q.about.inDsl]] ELSE permPage
  /\ Settled(IF q.about.retain THEN "columns" ELSE "none", IF q.mine /\ q.about.inDsl THEN {ColumnOf(q.about.of)} ELSE {})
  /\ UNCHANGED <<perms, schemaReqs, tableReqs, draft, permOp, ackedPerm>>
ColumnsFail(q) ==
  /\ q \in columnReqs /\ columnReqs' = columnReqs \ {q}
  /\ permPage' = IF q.mine THEN [permPage EXCEPT !.columns = [NoColumns EXCEPT !.phase = "failed"]] ELSE permPage
  /\ Settled(IF q.about.retain THEN "columns" ELSE "none", {})
  /\ UNCHANGED <<perms, schemaReqs, tableReqs, draft, permOp, ackedPerm>>

\* loadChildren: whatever answer comes last is kept, no generation is compared.
TablesRead(q, ok) ==
  /\ q \in tableReqs /\ tableReqs' = tableReqs \ {q}
  /\ permPage' = IF q.mine /\ ok THEN [permPage EXCEPT !.tables = "shown"] ELSE permPage
  /\ Settled(IF q.mine /\ q.about = "refresh" THEN "tables" ELSE "none", IF ok THEN {"t"} ELSE {})
  /\ UNCHANGED <<perms, schemaReqs, columnReqs, draft, permOp, ackedPerm>>

retryTree ==
  /\ permPage.phase = "ready" /\ permPage.tables = "none" /\ ~Wanted(tableReqs) /\ loadTables("tree")
  /\ UNCHANGED <<perms, permPage, schemaReqs, columnReqs, draft, permOp, retaining, ackedPerm>>

-----------------------------------------------------------------------------
\* PermissionPanel: the dialog about unsaved edits keeps the rest out of reach.
PanelFree == permPage.phase = "ready" /\ permPage.pending = "none"

doSelect(page, scope) == loadColumns([page EXCEPT !.selected = scope, !.pending = "none"], scope, FALSE)

select(scope) ==
  /\ PanelFree /\ ~savingPerms /\ scope # permPage.selected /\ (scope = "s" \/ permPage.tables = "shown")
  /\ IF dirtyPerms THEN permPage' = [permPage EXCEPT !.pending = scope] /\ UNCHANGED columnReqs ELSE doSelect(permPage, scope)
  /\ UNCHANGED <<perms, schemaReqs, tableReqs, draft, permOp, retaining, ackedPerm>>

staySelect ==
  /\ permPage.pending # "none" /\ permPage' = [permPage EXCEPT !.pending = "none"]
  /\ UNCHANGED <<perms, schemaReqs, columnReqs, tableReqs, draft, permOp, retaining, ackedPerm>>
leaveSelect ==
  /\ permPage.pending # "none" /\ draft' = {} /\ doSelect(permPage, permPage.pending)
  /\ UNCHANGED <<perms, schemaReqs, tableReqs, permOp, retaining, ackedPerm>>

\* What PermissionTable shows with a select: the node selected, and the columns still on the screen,
\* which until the answer are those of the table selected before.
Editable ==
  ({permPage.selected} \cap Targets1) \cup
  (IF permPage.selected \in {"t", "u"} /\ permPage.columns.phase # "failed" /\ permPage.columns.of # "none" /\ permPage.columns.inDsl
   THEN {ColumnOf(permPage.columns.of)} ELSE {})

\* applyChange: back to the value of the server takes the target out of the draft.
changePerm(target) ==
  /\ PanelFree /\ ~savingPerms /\ target \in Editable
  /\ draft' = IF target \in draft THEN draft \ {target} ELSE draft \cup {target}
  /\ UNCHANGED <<perms, permPage, schemaReqs, columnReqs, tableReqs, permOp, retaining, ackedPerm>>
discard ==
  /\ PanelFree /\ dirtyPerms /\ ~savingPerms /\ draft' = {}
  /\ UNCHANGED <<perms, permPage, schemaReqs, columnReqs, tableReqs, permOp, retaining, ackedPerm>>

toEntries == {target \in draft : inScope(target, permPage.selected)}

\* Bound: no other operation while the draft waits to be cut.
savePerms ==
  /\ PanelFree /\ ~savingPerms /\ ~retaining.on /\ toEntries # {}
  /\ permOp' = [NoPermOp EXCEPT !.kind = "save", !.stage = "sent", !.scope = permPage.selected, !.entries = toEntries]
  /\ UNCHANGED <<perms, permPage, schemaReqs, columnReqs, tableReqs, draft, retaining, ackedPerm>>
clearOrphan ==
  /\ PanelFree /\ ~savingPerms /\ ~retaining.on /\ permPage.columns.phase = "loaded" /\ ~permPage.columns.inDsl
  /\ permOp' = [NoPermOp EXCEPT !.kind = "clear", !.stage = "sent", !.scope = permPage.selected]
  /\ UNCHANGED <<perms, permPage, schemaReqs, columnReqs, tableReqs, draft, retaining, ackedPerm>>

ServePermOp ==
  /\ permOp.stage = "sent"
  /\ \/ /\ perms.version < MaxVersion /\ permOp.entries \cap perms.gone = {}
        /\ perms' = [perms EXCEPT !.version = @ + 1] /\ permOp' = [permOp EXCEPT !.stage = "served", !.result = "done"]
     \/ /\ \E why \in IF permOp.entries \cap perms.gone # {} THEN {"notInDsl"} ELSE {"noChange", "other"} :
             permOp' = [permOp EXCEPT !.stage = "served", !.result = why]
        /\ UNCHANGED perms
  /\ UNCHANGED <<permPage, schemaReqs, columnReqs, tableReqs, draft, retaining, ackedPerm>>

\* refresh: the schemas, the tables (put into prefetch) and the columns of what is selected.
refresh(retain) ==
  /\ loadSchemas(FALSE) /\ loadTables("refresh")
  /\ loadColumns([permPage EXCEPT !.prefetch = TRUE], permPage.selected, retain)
  /\ retaining' = IF retain THEN [on |-> TRUE, fresh |-> {},
                                  waits |-> {"schemas", "tables"} \cup (IF permPage.selected = "s" THEN {} ELSE {"columns"})]
                  ELSE retaining

PermOpDone ==
  /\ permOp.result = "done" /\ permOp' = NoPermOp /\ refresh(FALSE) /\ ackedPerm' = perms.version
  /\ draft' = IF permOp.kind = "save" THEN {} ELSE draft
  /\ UNCHANGED perms
PermNoChange ==
  /\ permOp.result = "noChange" /\ permOp' = NoPermOp /\ refresh(FALSE) /\ draft' = IF permOp.kind = "save" THEN {} ELSE draft
  /\ UNCHANGED <<perms, ackedPerm>>
PermNotInDsl ==
  /\ permOp.result = "notInDsl" /\ permOp' = NoPermOp /\ refresh(TRUE)
  /\ UNCHANGED <<perms, draft, ackedPerm>>
PermOpFails(lost) ==
  /\ savingPerms /\ (lost \/ permOp.result = "other") /\ permOp' = NoPermOp
  /\ UNCHANGED <<perms, permPage, schemaReqs, columnReqs, tableReqs, draft, retaining, ackedPerm>>

\* Promise.all of refresh, then retainDraft: a reading that failed leaves nothing of its part.
retainDraft ==
  /\ retaining.on /\ retaining.waits = {} /\ draft' = draft \cap retaining.fresh /\ retaining' = NotRetaining
  /\ UNCHANGED <<perms, permPage, schemaReqs, columnReqs, tableReqs, permOp, ackedPerm>>

retryColumns ==
  /\ PanelFree /\ permPage.columns.phase = "failed" /\ permPage.selected # "s" /\ loadColumns(permPage, permPage.selected, FALSE)
  /\ UNCHANGED <<perms, schemaReqs, tableReqs, draft, permOp, retaining, ackedPerm>>
retryPerms ==
  /\ permPage.phase = "load-error" /\ loadSchemas(TRUE) /\ permPage' = [permPage EXCEPT !.phase = "loading"]
  /\ UNCHANGED <<perms, columnReqs, tableReqs, draft, permOp, retaining, ackedPerm>>

PermNext ==
  \/ OpenPerms \/ PermsGone \/ PermsChange \/ retryTree \/ staySelect \/ leaveSelect \/ discard \/ savePerms \/ clearOrphan
  \/ ServePermOp \/ PermOpDone \/ PermNoChange \/ PermNotInDsl \/ retainDraft \/ retryColumns \/ retryPerms
  \/ \E q \in schemaReqs : SchemasRead(q) \/ SchemasFail(q)
  \/ \E q \in columnReqs : ServeColumns(q) \/ ColumnsRead(q) \/ ColumnsFail(q)
  \/ \E q \in tableReqs : \E ok \in BOOLEAN : TablesRead(q, ok)
  \/ \E scope \in Scopes : select(scope)
  \/ \E target \in Targets1 : changePerm(target)
  \/ \E lost \in BOOLEAN : PermOpFails(lost)

-----------------------------------------------------------------------------
\* Columns shown as loaded are those of the selected table, and not older than the last save or clearing this page
\* heard done (useRolePermissions.ts, loadColumns and refresh): the answers of several selections and of a save cross.
ColumnsFollow ==
  permPage.columns.phase = "loaded" => permPage.columns.of = permPage.selected /\ permPage.columns.version >= ackedPerm

\* While a save is on its way its scope is what the page shows, and it holds nothing outside it: the readings that
\* follow it are of what was saved (useRolePermissions.ts, select and save).
SaveMatchesSelection ==
  permOp.kind = "save" => permOp.scope = permPage.selected /\ \A target \in permOp.entries : inScope(target, permPage.selected)

\* What permissionDraft.ts promises of the edits after PERMISSION_TARGET_NOT_IN_DSL: those of targets still in the DSL are kept.
\* The code does not keep it: see the README.
EditsKeptStep == retaining.on /\ ~retaining'.on /\ permPage'.phase = "ready" => draft \ perms.gone \subseteq draft'
EditsKept == [][EditsKeptStep]_permVars

-----------------------------------------------------------------------------
(***************************************************************************)
(* The users and groups a role is assigned to (useRoleAssignments), with   *)
(* the dialog that looks for candidates (CandidateDialog) and the question *)
(* asked before a user loses the role.  The roles a user would keep are    *)
(* read before the question, for several users at once if need be.         *)
(***************************************************************************)
VARIABLES
  asg,       \* version of the assignments on the server
  asgList,   \* what the panel shows; failed: the last reading failed under a list already shown
  asgReqs,   \* readings in flight
  picker,    \* the dialog of candidates
  pickReqs,  \* its searches (pages) in flight
  impacts,   \* users whose roles are being read
  confirm,   \* the user the question is about
  removal,   \* the removal in flight
  asgAfter,  \* a reading waits for the dialog to have closed
  ackedAsg   \* ghost: the version after the last operation this panel heard done

asgVars == <<asg, asgList, asgReqs, picker, pickReqs, impacts, confirm, removal, asgAfter, ackedAsg>>

AssignedUsers == {"a", "b"}
Removals == AssignedUsers \cup {"group"}
Texts == {1, 2}                  \* search texts, pages
Candidates == {"c"}

NoAsgList == [state |-> "gone", version |-> 0, failed |-> FALSE]
\* asked: ghost, the search made last.  done: the candidates marked as taken or gone.
NoPicker == [kind |-> "none", phase |-> "idle", results |-> 0, asked |-> 0, adding |-> "none", done |-> {}]

AsgTypeOK ==
  /\ {asg, ackedAsg} \subseteq Versions
  /\ asgList \in [state : {"gone", "loading", "ready", "failed"}, version : Versions, failed : BOOLEAN]
  /\ asgReqs \subseteq RequestsAbout({"list"}) /\ pickReqs \subseteq [text : Texts, mine : BOOLEAN]
  /\ picker \in [kind : {"none", "user", "group"}, phase : {"idle", "loading", "results", "failed"}, results : Texts \cup {0},
                 asked : Texts \cup {0}, adding : Candidates \cup {"none"}, done : SUBSET Candidates]
  /\ impacts \subseteq AssignedUsers /\ confirm \in AssignedUsers \cup {"none"} /\ removal \in Removals \cup {"none"}
  /\ asgAfter \in BOOLEAN
  /\ (asgList.state = "loading" => Wanted(asgReqs) \/ asgAfter) /\ ((picker.phase = "loading") = \E r \in pickReqs : r.mine)
  /\ (picker.adding # "none" => picker.kind # "none" /\ picker.adding \notin picker.done)
  /\ (picker.kind # "none" => asgList.state \in {"ready"})

AsgInit ==
  /\ asg = 0 /\ asgList = NoAsgList /\ asgReqs = {} /\ picker = NoPicker /\ pickReqs = {} /\ impacts = {}
  /\ confirm = "none" /\ removal = "none" /\ asgAfter = FALSE /\ ackedAsg = 0

-----------------------------------------------------------------------------
loadAsg == MayAsk(asgReqs) /\ asgReqs' = Asked(asgReqs, "list")

OpenAsg ==
  /\ asgList.state = "gone" /\ loadAsg /\ asgList' = [NoAsgList EXCEPT !.state = "loading"]
  /\ UNCHANGED <<asg, picker, pickReqs, impacts, confirm, removal, asgAfter, ackedAsg>>

\* The panel is left; the role, the session or the right to administer is gone.
AsgGone ==
  /\ asgList.state # "gone" /\ asgList' = NoAsgList /\ asgReqs' = {} /\ picker' = NoPicker /\ pickReqs' = {}
  /\ impacts' = {} /\ confirm' = "none" /\ removal' = "none" /\ asgAfter' = FALSE /\ ackedAsg' = 0
  /\ UNCHANGED asg

AsgChange ==
  /\ asg < MaxVersion /\ asg' = asg + 1
  /\ UNCHANGED <<asgList, asgReqs, picker, pickReqs, impacts, confirm, removal, asgAfter, ackedAsg>>

ServeAsg(q) ==
  /\ q \in asgReqs /\ q.stage = "sent" /\ asgReqs' = ServedAt(asgReqs, q, asg)
  /\ UNCHANGED <<asg, asgList, picker, pickReqs, impacts, confirm, removal, asgAfter, ackedAsg>>
AsgRead(q) ==
  /\ q \in asgReqs /\ q.stage = "served" /\ asgReqs' = asgReqs \ {q}
  /\ asgList' = IF q.mine THEN [state |-> "ready", version |-> q.version, failed |-> FALSE] ELSE asgList
  /\ UNCHANGED <<asg, picker, pickReqs, impacts, confirm, removal, asgAfter, ackedAsg>>
\* A list already shown stays.
AsgReadFails(q) ==
  /\ q \in asgReqs /\ asgReqs' = asgReqs \ {q}
  /\ asgList' = IF q.mine THEN [asgList EXCEPT !.state = IF @ = "ready" THEN @ ELSE "failed", !.failed = TRUE] ELSE asgList
  /\ UNCHANGED <<asg, picker, pickReqs, impacts, confirm, removal, asgAfter, ackedAsg>>

-----------------------------------------------------------------------------
\* AssignmentPanel behind a dialog is inert.
AsgPanelFree == asgList.state = "ready" /\ picker.kind = "none" /\ confirm = "none" /\ ~asgAfter

retryAsg ==
  /\ asgList.state = "failed" /\ loadAsg /\ asgList' = [asgList EXCEPT !.state = "loading"]
  /\ UNCHANGED <<asg, picker, pickReqs, impacts, confirm, removal, asgAfter, ackedAsg>>

openAsgPicker(kind) ==
  /\ AsgPanelFree /\ removal = "none" /\ kind # "none"
  /\ picker' = [NoPicker EXCEPT !.kind = kind, !.phase = IF kind = "group" THEN "loading" ELSE "idle",
                                !.asked = IF kind = "group" THEN 1 ELSE 0]
  /\ pickReqs' = IF kind = "group" THEN {[text |-> 1, mine |-> TRUE]} ELSE {}
  /\ UNCHANGED <<asg, asgList, asgReqs, impacts, confirm, removal, asgAfter, ackedAsg>>

\* requestRemoveUser up to the call, for a user assigned directly.
requestRemoveUser(u) ==
  /\ AsgPanelFree /\ removal = "none" /\ impacts' = impacts \cup {u}
  /\ UNCHANGED <<asg, asgList, asgReqs, picker, pickReqs, confirm, removal, asgAfter, ackedAsg>>

\* The user keeps the role through a group: removed at once, unless a removal is in flight.
KeepsRole(u) ==
  /\ u \in impacts /\ impacts' = impacts \ {u} /\ removal' = IF removal = "none" THEN u ELSE removal
  /\ UNCHANGED <<asg, asgList, asgReqs, picker, pickReqs, confirm, asgAfter, ackedAsg>>
\* The user loses the role, or that cannot be told: the question, in place of one already asked.
LosesRole(u) ==
  /\ u \in impacts /\ impacts' = impacts \ {u} /\ confirm' = u
  /\ UNCHANGED <<asg, asgList, asgReqs, picker, pickReqs, removal, asgAfter, ackedAsg>>

\* RemovalConfirmDialog
ConfirmFree == confirm # "none"
confirmRemoval ==
  /\ ConfirmFree /\ confirm' = "none" /\ removal' = IF removal = "none" THEN confirm ELSE removal
  /\ UNCHANGED <<asg, asgList, asgReqs, picker, pickReqs, impacts, asgAfter, ackedAsg>>
cancelRemoval ==
  /\ ConfirmFree /\ confirm' = "none" /\ UNCHANGED <<asg, asgList, asgReqs, picker, pickReqs, impacts, removal, asgAfter, ackedAsg>>
removeGroup ==
  /\ AsgPanelFree /\ removal = "none" /\ removal' = "group"
  /\ UNCHANGED <<asg, asgList, asgReqs, picker, pickReqs, impacts, confirm, asgAfter, ackedAsg>>

AsgDone == asg < MaxVersion /\ asg' = asg + 1
Removed ==
  /\ removal # "none" /\ AsgDone /\ removal' = "none" /\ ackedAsg' = asg' /\ loadAsg
  /\ UNCHANGED <<asgList, picker, pickReqs, impacts, confirm, asgAfter>>
\* stale: the assignment (the group) is gone already.  A lost answer leaves open whether it was done.
RemovalFails(why) ==
  /\ removal # "none" /\ removal' = "none"
  /\ IF why = "lost" THEN AsgDone \/ UNCHANGED asg ELSE UNCHANGED asg
  /\ IF why = "stale" THEN loadAsg ELSE UNCHANGED asgReqs
  /\ UNCHANGED <<asgList, picker, pickReqs, impacts, confirm, asgAfter, ackedAsg>>

-----------------------------------------------------------------------------
\* CandidateDialog: its list, its pager and its close button.
PickerFree == picker.kind # "none" /\ confirm = "none"
CandidatesShown == PickerFree /\ picker.phase # "failed" /\ picker.results # 0

\* runSearch and showPage (isLatest by a number of their own).
showCandidates(text) ==
  /\ PickerFree /\ picker.phase # "loading" /\ (picker.kind = "group" => picker.results # 0 /\ text # picker.results)
  /\ MayAsk(pickReqs)
  /\ pickReqs' = {[r EXCEPT !.mine = FALSE] : r \in pickReqs} \cup {[text |-> text, mine |-> TRUE]}
  /\ picker' = [picker EXCEPT !.phase = "loading", !.asked = text]
  /\ UNCHANGED <<asg, asgList, asgReqs, impacts, confirm, removal, asgAfter, ackedAsg>>
\* The language changes under the dialog: the groups are read again from the first page.
LanguageChanges ==
  /\ picker.kind = "group" /\ MayAsk(pickReqs)
  /\ pickReqs' = {[r EXCEPT !.mine = FALSE] : r \in pickReqs} \cup {[text |-> 1, mine |-> TRUE]}
  /\ picker' = [picker EXCEPT !.phase = "loading", !.asked = 1]
  /\ UNCHANGED <<asg, asgList, asgReqs, impacts, confirm, removal, asgAfter, ackedAsg>>

MutAnyCandidates(r, ok) ==
  /\ r \in pickReqs /\ pickReqs' = pickReqs \ {r}
  /\ picker' = IF ok /\ ~r.mine THEN [picker EXCEPT !.results = r.text]
               ELSE IF ok THEN [picker EXCEPT !.phase = "results", !.results = r.text]
               ELSE IF r.mine THEN [picker EXCEPT !.phase = "failed"] ELSE picker
  /\ UNCHANGED <<asg, asgList, asgReqs, impacts, confirm, removal, asgAfter, ackedAsg>>
CandidatesAnswered(r, ok) ==
  /\ r \in pickReqs /\ pickReqs' = pickReqs \ {r}
  /\ picker' = IF ~r.mine THEN picker
               ELSE IF ok THEN [picker EXCEPT !.phase = "results", !.results = r.text] ELSE [picker EXCEPT !.phase = "failed"]
  /\ UNCHANGED <<asg, asgList, asgReqs, impacts, confirm, removal, asgAfter, ackedAsg>>

addCandidate(c) ==
  /\ CandidatesShown /\ picker.adding = "none" /\ c \notin picker.done /\ picker' = [picker EXCEPT !.adding = c]
  /\ UNCHANGED <<asg, asgList, asgReqs, pickReqs, impacts, confirm, removal, asgAfter, ackedAsg>>

\* added; marked: taken already, or the user (group) is gone; failed: nothing known.
AddAnswered(how) ==
  /\ picker.adding # "none"
  /\ CASE how = "added" -> AsgDone [] how = "marked" -> UNCHANGED asg [] OTHER -> AsgDone \/ UNCHANGED asg
  /\ picker' = [picker EXCEPT !.adding = "none", !.done = IF how = "failed" THEN @ ELSE @ \cup {picker.adding}]
  /\ ackedAsg' = IF how = "added" THEN asg' ELSE ackedAsg
  /\ UNCHANGED <<asgList, asgReqs, pickReqs, impacts, confirm, removal, asgAfter>>

\* The list is read again once the dialog has closed.
closeAsgPicker ==
  /\ PickerFree /\ picker.adding = "none" /\ picker' = NoPicker /\ pickReqs' = {} /\ asgAfter' = TRUE
  /\ UNCHANGED <<asg, asgList, asgReqs, impacts, confirm, removal, ackedAsg>>
ReloadAsgAfterClose ==
  /\ asgAfter /\ asgAfter' = FALSE /\ loadAsg
  /\ UNCHANGED <<asg, asgList, picker, pickReqs, impacts, confirm, removal, ackedAsg>>

AsgNext ==
  \/ OpenAsg \/ AsgGone \/ AsgChange \/ retryAsg \/ confirmRemoval \/ cancelRemoval \/ removeGroup \/ Removed
  \/ LanguageChanges \/ closeAsgPicker \/ ReloadAsgAfterClose
  \/ \E q \in asgReqs : ServeAsg(q) \/ AsgRead(q) \/ AsgReadFails(q)
  \/ \E kind \in {"user", "group"} : openAsgPicker(kind)
  \/ \E u \in AssignedUsers : requestRemoveUser(u) \/ KeepsRole(u) \/ LosesRole(u)
  \/ \E why \in {"stale", "refused", "lost"} : RemovalFails(why)
  \/ \E text \in Texts : showCandidates(text)
  \/ \E r \in pickReqs, ok \in BOOLEAN : CandidatesAnswered(r, ok)
  \/ \E c \in Candidates : addCandidate(c)
  \/ \E how \in {"added", "marked", "failed"} : AddAnswered(how)

-----------------------------------------------------------------------------
\* Once it has settled, a panel whose last reading succeeded contains every assignment made or removed here that was
\* heard done, with additions in the dialog, removals and readings of roles in any order.
AsgFollows ==
  asgList.state = "ready" /\ ~asgList.failed /\ ~asgAfter /\ picker.kind = "none" /\ ~Wanted(asgReqs)
    => asgList.version >= ackedAsg

\* The candidates offered are those of the search (the page) asked for last, also when the language changes under a
\* search in flight (CandidateDialog.tsx, seq).
ResultsAreLast == picker.phase = "results" => picker.results = picker.asked
=============================================================================
