------------------------------ MODULE ApiBodies ------------------------------
(***************************************************************************)
(* The answers of the administration, navigation and account operations:   *)
(* what the backend writes (its response records), what the parser of the  *)
(* frontend accepts and turns it into, and the type the screens are        *)
(* compiled against.  One answer is read in one step; the body is one the  *)
(* backend writes, or such a body with one field harmed on its way (a      *)
(* proxy's page, another version of the backend).                          *)
(***************************************************************************)
EXTENDS Naturals

(***************************************************************************)
(* JSON bodies, as far as the code that reads them tells their values      *)
(* apart.  A body is a record from its fields to kinds of value: a text,   *)
(* an integer, a Boolean, null, and so on; where one of a few words is     *)
(* wanted the word itself stands for the value.  A field that holds an     *)
(* object or a list is "object" or "list" when each part of it is accepted *)
(* by the parser of that part, and "badObject" or "badList" when one is    *)
(* not: the parts have parsers, and bodies, of their own.                  *)
(***************************************************************************)
VARIABLES
  asked,  \* the parser that reads
  body,   \* what arrived
  shown   \* what it made of it

Text == {"text"}
Num == {"number", "zero"}
Positive == {"number"}
Bool == {"true", "false"}
Null == {"null"}
One == {"object"}
Many == {"list"}

(* Every kind a field may hold, and "missing" for the field that is absent.*)
Kinds == Text \cup {"longText"} \cup Num \cup {"fraction"} \cup Bool \cup Null
         \cup One \cup {"emptyObject", "badObject"} \cup Many \cup {"badList"} \cup {"missing"}

At(v, f) == IF f \in DOMAIN v THEN v[f] ELSE "missing"

(* What a body refused by its parser comes to: the callers turn it into    *)
(* the error of a lost answer.                                             *)
Refused == [refused |-> "body"]
NotRead == [nothing |-> "read"]

(* spec gives, for each field the parser looks at, the kinds it accepts.   *)
Fits(v, spec) == \A f \in DOMAIN spec : At(v, f) \in spec[f]

ReadAs(v, spec, value) == IF Fits(v, spec) THEN value ELSE Refused

(* The parser that returns the fields it looked at and no others.          *)
Read(v, spec) == ReadAs(v, spec, [f \in DOMAIN spec |-> At(v, f)])

(* A nullable field that may also be absent, as the parsers return it.     *)
OrNull(kind) == IF kind = "missing" THEN "null" ELSE kind

(* The bodies that differ from v in one field.                             *)
Harmed(v) == {[v EXCEPT ![f] = k] : f \in DOMAIN v, k \in Kinds}

(* readJson and required, the same in every api module: the body is one    *)
(* the parser accepts or the caller sees the error of a lost answer.       *)
Accepted(value) == value \notin {NotRead, Refused}

-----------------------------------------------------------------------------
apiVars == <<asked, body, shown>>

(* The words of the enumerations, each as its own module of types has it.  *)
MAIN_VALUES == {"NONE", "READ", "FULL"}
INHERITED_FROM_VALUES == {"EXPLICIT", "TABLE", "SCHEMA", "DEFAULT"}
SEND_RESULTS == {"SENT", "FAILED"}
Languages == {"ja", "en"}
Themes == {"light", "dark", "system"}
FontSizes == {"sm", "md", "lg"}
BrandColors == {"blue", "green", "purple", "orange"}
FontFamilies == {"sans", "serif"}
TRANSFER_MAIN_VALUES == {"NONE", "READ", "FULL"}
TRANSFER_ACTIONS == {"CREATE", "REPLACE"}
TRANSFER_CHANGE_REASONS == {"ADDED", "CHANGED", "CLEARED"}
EmptyReasons == {"NOT_CONFIGURED", "NOTHING_VISIBLE"}
NavTableKind == {"TABLE", "VIEW"}
DslSource == {"GENERATED", "UPLOAD", "PASTE", "RESTORE"}
TableChange == {"ADDED", "REMOVED", "CHANGED", "UNCHANGED"}
ColumnChange == {"ADDED", "REMOVED", "CHANGED"}
WarningKind == {"TABLE_MISSING", "COLUMN_MISSING", "TYPE_MISMATCH", "TARGET_UNCONFIGURED",
                "TARGET_UNAVAILABLE", "SCHEMA_MISMATCH"}
DslErrorKind == {"SIZE_LIMIT", "DEPTH_LIMIT", "ALIAS_LIMIT", "FORBIDDEN_TAG", "DUPLICATE_KEY",
                 "UNSUPPORTED_VERSION", "SYNTAX", "SEMANTIC"}

-----------------------------------------------------------------------------
(* Roles and their permissions.                                            *)

RoleResponse == [roleId : Num, name : Text, createdAt : Text, updatedAt : Text]
toRole(v) == Read(v, [roleId |-> Num, name |-> Text, createdAt |-> Text, updatedAt |-> Text])
Role == [roleId : Num, name : Text, createdAt : Text, updatedAt : Text]

RoleRowResponse == [roleId : Num, name : Text, userCount : Num, groupCount : Num]
toRoleRow(v) == Read(v, [roleId |-> Num, name |-> Text, userCount |-> Num, groupCount |-> Num])
RoleRow == [roleId : Num, name : Text, userCount : Num, groupCount : Num]

RolePageResponse == [items : Many, page : Num, size : Num, total : Num]
toPage(v) == Read(v, [items |-> Many, page |-> Num, size |-> Num, total |-> Num])
RolePage == [items : Many, page : Num, size : Num, total : Num]

ExplicitResponse ==
  [main : MAIN_VALUES \cup Null, create : Bool \cup Null, delete : Bool \cup Null]
toExplicit(v) ==
  Read(v, [main |-> MAIN_VALUES \cup Null, create |-> Bool \cup Null, delete |-> Bool \cup Null])
Explicit == [main : MAIN_VALUES \cup Null, create : Bool \cup Null, delete : Bool \cup Null]

EffectiveResponse == [main : MAIN_VALUES, create : Bool, delete : Bool]
toEffective(v) == Read(v, [main |-> MAIN_VALUES, create |-> Bool, delete |-> Bool])
Effective == [main : MAIN_VALUES, create : Bool, delete : Bool]

(* A node of a schema has no table, one of a table no column.              *)
NodeOfLevel(b) == b.columnName \in Text => b.tableName \in Text
PermissionNodeResponse ==
  {b \in [schemaName : Text, tableName : Text \cup Null, columnName : Text \cup Null,
          displayName : Text, explicit : One, effective : One,
          inheritedFrom : INHERITED_FROM_VALUES, inMenu : Bool, inCurrentDsl : Bool,
          hasChildren : Bool] : NodeOfLevel(b)}
toPermissionNode(v) ==
  Read(v, [schemaName |-> Text, tableName |-> Text \cup Null, columnName |-> Text \cup Null,
           displayName |-> Text, explicit |-> One, effective |-> One,
           inheritedFrom |-> INHERITED_FROM_VALUES, inMenu |-> Bool, inCurrentDsl |-> Bool,
           hasChildren |-> Bool])
PermissionNode ==
  [schemaName : Text, tableName : Text \cup Null, columnName : Text \cup Null,
   displayName : Text, explicit : One, effective : One, inheritedFrom : INHERITED_FROM_VALUES,
   inMenu : Bool, inCurrentDsl : Bool, hasChildren : Bool]

(* A role is held directly or through a group; only then is a group named. *)
RoleSourceResponse ==
  [type : {"DIRECT"}, groupId : Null, name : Null] \cup [type : {"GROUP"}, groupId : Num, name : Text]
Direct == [kind |-> "DIRECT"]
ThroughGroup(v) ==
  ReadAs(v, [type |-> {"GROUP"}, groupId |-> Num, name |-> Text],
         [kind |-> "GROUP", groupId |-> At(v, "groupId"), name |-> At(v, "name")])
toAssignmentSource(v) == IF At(v, "type") = "DIRECT" THEN Direct ELSE ThroughGroup(v)
AssignmentSource == {Direct} \cup [kind : {"GROUP"}, groupId : Num, name : Text]

AssignedUserResponse ==
  [userId : Num, displayName : Text, email : Text, suspended : Bool, sources : Many]
toAssignedUser(v) ==
  Read(v, [userId |-> Num, displayName |-> Text, email |-> Text, suspended |-> Bool,
           sources |-> Many])
AssignedUser == [userId : Num, displayName : Text, email : Text, suspended : Bool, sources : Many]

AssignedGroupResponse == [groupId : Num, name : Text]
toAssignedGroup(v) == Read(v, [groupId |-> Num, name |-> Text])
AssignedGroup == [groupId : Num, name : Text]

RoleAssignmentsResponse == [users : Many, groups : Many]
toAssignments(v) == Read(v, [users |-> Many, groups |-> Many])
RoleAssignments == [users : Many, groups : Many]

UserRoleResponse == [roleId : Num, name : Text, sources : Many]
toUserRole(v) == Read(v, [roleId |-> Num, name |-> Text, sources |-> Many])
UserRole == [roleId : Num, name : Text, sources : Many]

-----------------------------------------------------------------------------
(* Groups.                                                                 *)

GroupResponse == [groupId : Num, name : Text, createdAt : Text, updatedAt : Text]
toGroup(v) == Read(v, [groupId |-> Num, name |-> Text, createdAt |-> Text, updatedAt |-> Text])
Group == [groupId : Num, name : Text, createdAt : Text, updatedAt : Text]

(* The role screen reads the same rows to find a group to assign.          *)
GroupRowResponse == [groupId : Num, name : Text, memberCount : Num, assignedRoleCount : Num]
toGroupRow(v) ==
  Read(v, [groupId |-> Num, name |-> Text, memberCount |-> Num, assignedRoleCount |-> Num])
GroupRow == [groupId : Num, name : Text, memberCount : Num, assignedRoleCount : Num]
toGroupCandidate(v) == toAssignedGroup(v)
GroupCandidate == [groupId : Num, name : Text]

GroupPageResponse == [items : Many, page : Num, size : Num, total : Num]
toGroupPage(v) == Read(v, [items |-> Many, page |-> Num, size |-> Num, total |-> Num])
GroupPage == [items : Many, page : Num, size : Num, total : Num]

GroupMemberResponse == [userId : Num, displayName : Text, email : Text, suspended : Bool]
toMember(v) == Read(v, [userId |-> Num, displayName |-> Text, email |-> Text, suspended |-> Bool])
Member == [userId : Num, displayName : Text, email : Text, suspended : Bool]

GroupDetailResponse == [groupId : Num, name : Text, members : Many]
toGroupDetail(v) == Read(v, [groupId |-> Num, name |-> Text, members |-> Many])
GroupDetail == [groupId : Num, name : Text, members : Many]

RoleRefResponse == [roleId : Num, name : Text]
toRoleRef(v) == Read(v, [roleId |-> Num, name |-> Text])
GroupRoleRef == [roleId : Num, name : Text]

toRoleSource(v) == IF At(v, "type") = "DIRECT" THEN Direct ELSE ThroughGroup(v)
RoleSource == {Direct} \cup [kind : {"GROUP"}, groupId : Num, name : Text]
toMemberRole(v) == Read(v, [roleId |-> Num, name |-> Text, sources |-> Many])
MemberRole == [roleId : Num, name : Text, sources : Many]

-----------------------------------------------------------------------------
(* Users, invitations and registration.                                    *)

(* The time a lock ends is there only while there is one to end.           *)
AdminUserResponse ==
  {b \in [userId : Num, email : Text, displayName : Text, language : Languages, admin : Bool,
          suspended : Bool, locked : Bool, lockedUntil : Text \cup Null, resettable : Bool,
          registeredAt : Text, self : Bool] : /\ b.lockedUntil \in Text <=> b.locked = "true"
                                                    /\ b.locked = "true" => b.resettable = "true"}
AdminUserSpec ==
  [userId |-> Num, email |-> Text, displayName |-> Text, language |-> Languages, admin |-> Bool,
   suspended |-> Bool, locked |-> Bool, resettable |-> Bool, registeredAt |-> Text,
   self |-> Bool, lockedUntil |-> Text \cup Null \cup {"missing"}]
toAdminUser(v) ==
  LET until == IF At(v, "lockedUntil") \in Text THEN At(v, "lockedUntil") ELSE "missing"
  IN  ReadAs(v, AdminUserSpec,
             [f \in DOMAIN AdminUserSpec |-> IF f = "lockedUntil" THEN until ELSE At(v, f)])
AdminUser ==
  [userId : Num, email : Text, displayName : Text, language : Languages, admin : Bool,
   suspended : Bool, locked : Bool, lockedUntil : Text \cup {"missing"}, resettable : Bool,
   registeredAt : Text, self : Bool]

AdminUserPageResponse == [items : Many, page : Num, size : Num, total : Num]
toAdminUserPage(v) == Read(v, [items |-> Many, page |-> Num, size |-> Num, total |-> Num])
AdminUserPage == [items : Many, page : Num, size : Num, total : Num]

(* The candidates for a role or a group are read out of the same rows.     *)
toUserCandidate(v) ==
  Read(v, [userId |-> Num, displayName |-> Text, email |-> Text, suspended |-> Bool])
UserCandidate == [userId : Num, displayName : Text, email : Text, suspended : Bool]

toUserRoleSource(v) == IF At(v, "type") = "DIRECT" THEN Direct ELSE ThroughGroup(v)
UserRoleSource == {Direct} \cup [kind : {"GROUP"}, groupId : Num, name : Text]
toUserAdminRole(v) == Read(v, [roleId |-> Num, name |-> Text, sources |-> Many])
UserAdminRole == [roleId : Num, name : Text, sources : Many]

InvitationResponse ==
  [invitationId : Num, email : Text, language : Languages, invitedBy : Text, invitedAt : Text,
   expiresAt : Text, sendResult : SEND_RESULTS, expired : Bool]
(* A result nobody knows is shown as a failure: the invitation can be sent *)
(* again.                                                                  *)
toInvitation(v) ==
  LET spec == [invitationId |-> Num, email |-> Text, language |-> Languages,
               invitedBy |-> Text, invitedAt |-> Text, expiresAt |-> Text, expired |-> Bool]
      sent == At(v, "sendResult")
  IN  ReadAs(v, spec, [f \in DOMAIN spec \cup {"sendResult"} |->
                         IF f # "sendResult" THEN At(v, f)
                         ELSE IF sent \in SEND_RESULTS THEN sent ELSE "FAILED"])
Invitation ==
  [invitationId : Num, email : Text, language : Languages, invitedBy : Text, invitedAt : Text,
   expiresAt : Text, sendResult : SEND_RESULTS, expired : Bool]

InvitationPageResponse ==
  [items : Many, page : Num, size : Num, total : Num, invitationEnabled : Bool,
   unavailableReasons : Many]
(* Reasons nobody knows are left out of the list of reasons.               *)
toInvitationPage(v) ==
  LET spec == [items |-> Many, page |-> Num, size |-> Num, total |-> Num,
               invitationEnabled |-> Bool, unavailableReasons |-> Many \cup {"badList"}]
  IN  ReadAs(v, spec, [f \in DOMAIN spec |->
                         IF f = "unavailableReasons" THEN "list" ELSE At(v, f)])
InvitationPage ==
  [items : Many, page : Num, size : Num, total : Num, invitationEnabled : Bool,
   unavailableReasons : Many]

(* The problem bodies two refusals carry: where the pending invitation is, *)
(* and what is missing before one can be sent.                             *)
PendingResponse == [invitationId : Num, page : Positive]
readPendingProblem(v) == Read(v, [invitationId |-> Num, page |-> Positive])
PendingProblem == [invitationId : Num, page : Positive]
NotConfiguredResponse == [unavailableReasons : Many]
readUnavailableReasons(v) == [reasons |-> "list"]
UnavailableReasons == [reasons : Many]

InvitationViewResponse == [email : Text, language : Languages]
toVerifiedInvitation(v) == Read(v, [email |-> Text, language |-> Languages])
VerifiedInvitation == [email : Text, language : Languages]

-----------------------------------------------------------------------------
(* The account, the menu and the work role.                                *)

CurrentUserResponse ==
  [email : Text, admin : Bool, displayName : Text, language : Languages, theme : Themes,
   fontSize : FontSizes]
CurrentUser ==
  [email : Text, admin : Bool, displayName : Text, language : Languages, theme : Themes,
   fontSize : FontSizes]
TokenResponse == [accessToken : Text, expiresAt : Text, user : One]
TokenResult == [accessToken : Text, expiresAt : Text, user : One]

PreferencesResponse ==
  [displayName : Text, language : Languages, theme : Themes, fontSize : FontSizes,
   displayTimeZone : Text \cup Null]
toPreferences(v) ==
  Read(v, [displayName |-> Text \cup {"longText"}, language |-> Languages, theme |-> Themes,
           fontSize |-> FontSizes, displayTimeZone |-> Text \cup Null])
Preferences ==
  [displayName : Text \cup {"longText"}, language : Languages, theme : Themes,
   fontSize : FontSizes, displayTimeZone : Text \cup Null]
fetchDisplayTimeZone(v) == Read(v, [displayTimeZone |-> Text \cup Null])
DisplayTimeZone == [displayTimeZone : Text \cup Null]

(* A brand or a font nobody knows is left at the built-in one.             *)
AppearanceResponse == [brandColor : BrandColors, fontFamily : FontFamilies]
parseAppearance(v) ==
  LET known(f, words) == IF At(v, f) \in words THEN At(v, f) ELSE "missing"
  IN  [brandColor |-> known("brandColor", BrandColors),
       fontFamily |-> known("fontFamily", FontFamilies)]
Appearance ==
  [brandColor : BrandColors \cup {"missing"}, fontFamily : FontFamilies \cup {"missing"}]

WorkRoleResponse == [roles : Many, current : One \cup Null]
parseWorkRole(v) == Read(v, [roles |-> Many, current |-> One \cup Null])
WorkRoleState == [roles : Many, current : One \cup Null]
parseRef(v) == Read(v, [roleId |-> Num, name |-> Text])
WorkRoleRef == [roleId : Num, name : Text]

DisplayLabelResponse == [ja : Text, en : Text]
parseLabel(v) == Read(v, [ja |-> Text, en |-> Text])
LocalizedLabel == [ja : Text, en : Text]
NavTableRefResponse == [schemaName : Text, tableName : Text]
parseTable(v) == Read(v, [schemaName |-> Text, tableName |-> Text])
TableRef == [schemaName : Text, tableName : Text]
(* Only an entry that leads somewhere has a table and its kind.            *)
NavNodeResponse ==
  {b \in [id : Text, label : One, icon : Text, table : One \cup Null, navigable : Bool,
          items : Many, tableKind : NavTableKind \cup Null] :
     /\ b.table \in One <=> b.navigable = "true"
     /\ b.tableKind \in NavTableKind => b.navigable = "true"}
parseTableKind(kind) == IF kind \in NavTableKind THEN kind ELSE "null"
parseNode(v) ==
  LET spec == [id |-> Text, label |-> One, icon |-> Text \cup Null, table |-> One \cup Null,
               navigable |-> Bool, items |-> Many]
  IN  ReadAs(v, spec, [f \in DOMAIN spec \cup {"tableKind"} |->
                         CASE f = "tableKind" -> parseTableKind(At(v, f))
                           [] f = "icon"      -> "text"
                           [] OTHER           -> At(v, f)])
NavNode ==
  [id : Text, label : One, icon : Text, table : One \cup Null, navigable : Bool,
   items : Many, tableKind : NavTableKind \cup Null]
NavigationResponse == [items : Many, emptyReason : EmptyReasons \cup Null]
parseNavigation(v) == Read(v, [items |-> Many, emptyReason |-> EmptyReasons \cup Null])
Navigation == [items : Many, emptyReason : EmptyReasons \cup Null]

(* What one may see: the nodes of one's own work role.                     *)
MyNodeResponse ==
  {b \in [schemaName : Text, tableName : Text \cup Null, columnName : Text \cup Null,
          displayName : Text, effective : One, inMenu : Bool, hasChildren : Bool] : NodeOfLevel(b)}
parseMyNode(v) ==
  LET spec == [schemaName |-> Text, tableName |-> Text \cup Null, columnName |-> Text \cup Null,
               displayName |-> Text \cup Null, effective |-> One, inMenu |-> Bool,
               hasChildren |-> Bool]
  IN  ReadAs(v, spec, [f \in DOMAIN spec |-> IF f = "displayName" THEN "text" ELSE At(v, f)])
MyPermissionNode ==
  [schemaName : Text, tableName : Text \cup Null, columnName : Text \cup Null,
   displayName : Text, effective : One, inMenu : Bool, hasChildren : Bool]
MyEffective == [main : MAIN_VALUES, create : Bool, delete : Bool]
MyPermissionsResponse == [workRole : One \cup Null, items : Many]
parseMyPermissions(v) == Read(v, [workRole |-> One \cup Null, items |-> Many])
MyPermissionNodes == [workRole : One \cup Null, items : Many]

-----------------------------------------------------------------------------
(* The transfer of roles.                                                  *)

TransferTargetResponse ==
  {b \in [schemaName : Text, tableName : Text \cup Null, columnName : Text \cup Null] :
     NodeOfLevel(b)}
toTarget(v) ==
  Read(v, [schemaName |-> Text, tableName |-> Text \cup Null, columnName |-> Text \cup Null])
TransferTarget == [schemaName : Text, tableName : Text \cup Null, columnName : Text \cup Null]

TransferValuesResponse ==
  [main : TRANSFER_MAIN_VALUES \cup Null, create : Bool \cup Null, delete : Bool \cup Null]
toValues(v) ==
  Read(v, [main |-> TRANSFER_MAIN_VALUES \cup Null, create |-> Bool \cup Null,
           delete |-> Bool \cup Null])
TransferValues ==
  [main : TRANSFER_MAIN_VALUES \cup Null, create : Bool \cup Null, delete : Bool \cup Null]

TransferChangeResponse ==
  [target : One, before : One, after : One, reason : TRANSFER_CHANGE_REASONS, inCurrentDsl : Bool]
toChange(v) ==
  Read(v, [target |-> One, before |-> One, after |-> One, reason |-> TRANSFER_CHANGE_REASONS,
           inCurrentDsl |-> Bool])
TransferChange ==
  [target : One, before : One, after : One, reason : TRANSFER_CHANGE_REASONS, inCurrentDsl : Bool]

(* A role to be created has no identifier yet.                             *)
RolePlanResponse ==
  {b \in [name : Text, roleId : Num \cup Null, action : TRANSFER_ACTIONS, added : Num,
          changed : Num, cleared : Num, notInDsl : Num, changes : Many] :
     b.roleId \in Null <=> b.action = "CREATE"}
toRolePlan(v) ==
  Read(v, [name |-> Text, roleId |-> Num \cup Null, action |-> TRANSFER_ACTIONS, added |-> Num,
           changed |-> Num, cleared |-> Num, notInDsl |-> Num, changes |-> Many])
TransferRolePlan ==
  [name : Text, roleId : Num \cup Null, action : TRANSFER_ACTIONS, added : Num, changed : Num,
   cleared : Num, notInDsl : Num, changes : Many]

TransferCheckResponse == [fingerprint : Text, roles : Many, untouchedRoles : Many]
toCheck(v) == Read(v, [fingerprint |-> Text, roles |-> Many, untouchedRoles |-> Many])
TransferCheck == [fingerprint : Text, roles : Many, untouchedRoles : Many]

TransferResultResponse == [created : Num, replaced : Num]
toResult(v) == Read(v, [created |-> Num, replaced |-> Num])
TransferResult == [created : Num, replaced : Num]

(* One mistake of the file; where it is may be unknown.                    *)
TransferErrorResponse ==
  [reason : Text, line : Num \cup Null, column : Num \cup Null, path : Text \cup Null]
toErrorItem(v) ==
  LET spec == [reason |-> Text, line |-> Num \cup Null \cup {"missing"},
               column |-> Num \cup Null \cup {"missing"}, path |-> Text \cup Null \cup {"missing"}]
  IN  ReadAs(v, spec, [f \in DOMAIN spec |-> OrNull(At(v, f))])
TransferErrorItem ==
  [reason : Text, line : Num \cup Null, column : Num \cup Null, path : Text \cup Null]

-----------------------------------------------------------------------------
(* The DSL.  Its api module looks at no field: the body is taken to be of  *)
(* the type (readJson), the report of a DSL refused excepted.              *)

Ref == [dslHash : Text, source : DslSource, by : One, at : Text]
With(field, refs) == {[f \in DOMAIN r \cup {field} |-> IF f = field THEN "text" ELSE r[f]] : r \in refs}
DslUserResponse == [userId : Text, email : Text \cup Null]
DslUser == [userId : Text, email : Text \cup Null]
AppliedRefResponse == With("revisionId", Ref)
AppliedRef == [dslHash : Text, source : DslSource, by : One, at : Text, revisionId : Text]
PreviewRefResponse == With("previewId", Ref)
PreviewRef == [dslHash : Text, source : DslSource, by : One, at : Text, previewId : Text]
HistoryEntryResponse ==
  [revisionId : Text, dslHash : Text, source : DslSource, by : One, at : Text, current : Bool]
HistoryEntry ==
  [dslHash : Text, source : DslSource, by : One, at : Text, revisionId : Text, current : Bool]
DslStatusResponse ==
  [applied : One \cup Null, preview : One \cup Null, appliedUnreadable : Bool, prunedMenuItems : Num]
DslStatus ==
  [applied : One \cup Null, preview : One \cup Null, appliedUnreadable : Bool, prunedMenuItems : Num]
PreviewResponse ==
  [previewId : Text, dslHash : Text, source : DslSource, by : One, at : Text, summary : One,
   diff : One, warnings : Many]
Preview ==
  [dslHash : Text, source : DslSource, by : One, at : Text, previewId : Text, summary : One,
   diff : One, warnings : Many]
SummaryResponse ==
  [schemaCount : Num, tableCount : Num, viewCount : Num, columnCount : Num, menuTree : Many,
   missingDisplayNames : Many, missingDisplayNameTotal : Num]
PreviewSummary ==
  [schemaCount : Num, tableCount : Num, viewCount : Num, columnCount : Num, menuTree : Many,
   missingDisplayNames : Many, missingDisplayNameTotal : Num \cup {"missing"}]
MenuNodeResponse == [label : One, table : One \cup Null, children : Many]
MenuNode == [label : One, table : One \cup Null, children : Many]
MissingDisplayNameResponse == [path : Text, language : Languages]
MissingDisplayName == [path : Text, language : Languages]
DiffResponse == [appliedExists : Bool, schemas : Many]
DslDiff == [appliedExists : Bool, schemas : Many]
SchemaDiffResponse == [name : Text, label : One, change : TableChange, tables : Many]
SchemaDiff == [name : Text, label : One, change : TableChange, tables : Many]
TableDiffResponse == [name : Text, change : TableChange, columns : Many]
TableDiff == [name : Text, change : TableChange, columns : Many]
ColumnDiffResponse == [name : Text, change : TableChange \ {"UNCHANGED"}, changedItems : Many]
ColumnDiff == [name : Text, change : ColumnChange, changedItems : Many]
WarningResponse == [kind : WarningKind, path : Text \cup Null, message : Text]
DslWarning == [kind : WarningKind, path : Text \cup Null, message : Text]

(* The kind of an error is any text to the parser.                         *)
DslErrorResponse ==
  [kind : DslErrorKind, line : Num \cup Null, column : Num \cup Null, path : Text \cup Null,
   message : Text]
isErrorItem(v) ==
  Fits(v, [kind |-> Text \cup DslErrorKind, message |-> Text,
           line |-> Num \cup Null \cup {"fraction", "missing"},
           column |-> Num \cup Null \cup {"fraction", "missing"},
           path |-> Text \cup {"longText"} \cup Null \cup {"missing"}])
toDslErrorItem(v) ==
  IF isErrorItem(v)
  THEN [f \in {"kind", "message", "line", "column", "path"} |-> OrNull(At(v, f))]
  ELSE Refused
DslErrorItem ==
  [kind : DslErrorKind, line : Num \cup Null, column : Num \cup Null, path : Text \cup Null,
   message : Text]
DslInvalidResponse == [total : Positive, errors : Many]
readErrorReport(v) == Read(v, [total |-> Positive, errors |-> Many])
DslErrorReport == [total : Positive, errors : Many]

-----------------------------------------------------------------------------
(* What the backend writes when a type is asked for.                       *)
SentBy ==
  [Role |-> RoleResponse, RoleRow |-> RoleRowResponse, RolePage |-> RolePageResponse,
   Explicit |-> ExplicitResponse, Effective |-> EffectiveResponse,
   PermissionNode |-> PermissionNodeResponse, AssignmentSource |-> RoleSourceResponse,
   AssignedUser |-> AssignedUserResponse, AssignedGroup |-> AssignedGroupResponse,
   RoleAssignments |-> RoleAssignmentsResponse, UserRole |-> UserRoleResponse,
   Group |-> GroupResponse, GroupRow |-> GroupRowResponse,
   GroupCandidate |-> GroupRowResponse, GroupPage |-> GroupPageResponse,
   Member |-> GroupMemberResponse, GroupDetail |-> GroupDetailResponse,
   GroupRoleRef |-> RoleRefResponse, RoleSource |-> RoleSourceResponse,
   MemberRole |-> UserRoleResponse, AdminUser |-> AdminUserResponse,
   AdminUserPage |-> AdminUserPageResponse, UserCandidate |-> AdminUserResponse,
   UserRoleSource |-> RoleSourceResponse, UserAdminRole |-> UserRoleResponse,
   Invitation |-> InvitationResponse, InvitationPage |-> InvitationPageResponse,
   PendingProblem |-> PendingResponse, UnavailableReasons |-> NotConfiguredResponse,
   VerifiedInvitation |-> InvitationViewResponse, Preferences |-> PreferencesResponse,
   DisplayTimeZone |-> PreferencesResponse, Appearance |-> AppearanceResponse,
   WorkRoleState |-> WorkRoleResponse, WorkRoleRef |-> RoleRefResponse,
   LocalizedLabel |-> DisplayLabelResponse, TableRef |-> NavTableRefResponse,
   NavNode |-> NavNodeResponse, Navigation |-> NavigationResponse,
   MyPermissionNode |-> MyNodeResponse, MyPermissionNodes |-> MyPermissionsResponse,
   TransferTarget |-> TransferTargetResponse, TransferValues |-> TransferValuesResponse,
   TransferChange |-> TransferChangeResponse, TransferRolePlan |-> RolePlanResponse,
   TransferCheck |-> TransferCheckResponse, TransferResult |-> TransferResultResponse,
   TransferErrorItem |-> TransferErrorResponse, DslErrorItem |-> DslErrorResponse,
   DslErrorReport |-> DslInvalidResponse, CurrentUser |-> CurrentUserResponse,
   TokenResult |-> TokenResponse, DslUser |-> DslUserResponse,
   AppliedRef |-> AppliedRefResponse, PreviewRef |-> PreviewRefResponse,
   HistoryEntry |-> HistoryEntryResponse, DslStatus |-> DslStatusResponse,
   Preview |-> PreviewResponse, PreviewSummary |-> SummaryResponse,
   MenuNode |-> MenuNodeResponse, MissingDisplayName |-> MissingDisplayNameResponse,
   DslDiff |-> DiffResponse, SchemaDiff |-> SchemaDiffResponse,
   TableDiff |-> TableDiffResponse, ColumnDiff |-> ColumnDiffResponse,
   DslWarning |-> WarningResponse]

(* What a type of the frontend may hold, by its interface.                 *)
DeclaredAs ==
  [Role |-> Role, RoleRow |-> RoleRow, RolePage |-> RolePage, Explicit |-> Explicit,
   Effective |-> Effective, PermissionNode |-> PermissionNode,
   AssignmentSource |-> AssignmentSource, AssignedUser |-> AssignedUser,
   AssignedGroup |-> AssignedGroup, RoleAssignments |-> RoleAssignments,
   UserRole |-> UserRole, Group |-> Group, GroupRow |-> GroupRow,
   GroupCandidate |-> GroupCandidate, GroupPage |-> GroupPage, Member |-> Member,
   GroupDetail |-> GroupDetail, GroupRoleRef |-> GroupRoleRef, RoleSource |-> RoleSource,
   MemberRole |-> MemberRole, AdminUser |-> AdminUser, AdminUserPage |-> AdminUserPage,
   UserCandidate |-> UserCandidate, UserRoleSource |-> UserRoleSource,
   UserAdminRole |-> UserAdminRole, Invitation |-> Invitation,
   InvitationPage |-> InvitationPage, PendingProblem |-> PendingProblem,
   UnavailableReasons |-> UnavailableReasons, VerifiedInvitation |-> VerifiedInvitation,
   Preferences |-> Preferences, DisplayTimeZone |-> DisplayTimeZone,
   Appearance |-> Appearance, WorkRoleState |-> WorkRoleState, WorkRoleRef |-> WorkRoleRef,
   LocalizedLabel |-> LocalizedLabel, TableRef |-> TableRef, NavNode |-> NavNode,
   Navigation |-> Navigation, MyPermissionNode |-> MyPermissionNode,
   MyPermissionNodes |-> MyPermissionNodes, TransferTarget |-> TransferTarget,
   TransferValues |-> TransferValues, TransferChange |-> TransferChange,
   TransferRolePlan |-> TransferRolePlan, TransferCheck |-> TransferCheck,
   TransferResult |-> TransferResult, TransferErrorItem |-> TransferErrorItem,
   DslErrorItem |-> DslErrorItem, DslErrorReport |-> DslErrorReport,
   CurrentUser |-> CurrentUser, TokenResult |-> TokenResult, DslUser |-> DslUser,
   AppliedRef |-> AppliedRef, PreviewRef |-> PreviewRef, HistoryEntry |-> HistoryEntry,
   DslStatus |-> DslStatus, Preview |-> Preview, PreviewSummary |-> PreviewSummary,
   MenuNode |-> MenuNode, MissingDisplayName |-> MissingDisplayName, DslDiff |-> DslDiff,
   SchemaDiff |-> SchemaDiff, TableDiff |-> TableDiff, ColumnDiff |-> ColumnDiff,
   DslWarning |-> DslWarning]

(* What the parsers make of the body that came, and the types they cover.  *)
Parsed ==
  [Role |-> toRole(body), RoleRow |-> toRoleRow(body), RolePage |-> toPage(body),
   Explicit |-> toExplicit(body), Effective |-> toEffective(body),
   PermissionNode |-> toPermissionNode(body), AssignmentSource |-> toAssignmentSource(body),
   AssignedUser |-> toAssignedUser(body), AssignedGroup |-> toAssignedGroup(body),
   RoleAssignments |-> toAssignments(body), UserRole |-> toUserRole(body),
   Group |-> toGroup(body), GroupRow |-> toGroupRow(body),
   GroupCandidate |-> toGroupCandidate(body), GroupPage |-> toGroupPage(body),
   Member |-> toMember(body), GroupDetail |-> toGroupDetail(body),
   GroupRoleRef |-> toRoleRef(body), RoleSource |-> toRoleSource(body),
   MemberRole |-> toMemberRole(body), AdminUser |-> toAdminUser(body),
   AdminUserPage |-> toAdminUserPage(body), UserCandidate |-> toUserCandidate(body),
   UserRoleSource |-> toUserRoleSource(body), UserAdminRole |-> toUserAdminRole(body),
   Invitation |-> toInvitation(body), InvitationPage |-> toInvitationPage(body),
   PendingProblem |-> readPendingProblem(body),
   UnavailableReasons |-> readUnavailableReasons(body),
   VerifiedInvitation |-> toVerifiedInvitation(body), Preferences |-> toPreferences(body),
   DisplayTimeZone |-> fetchDisplayTimeZone(body), Appearance |-> parseAppearance(body),
   WorkRoleState |-> parseWorkRole(body), WorkRoleRef |-> parseRef(body),
   LocalizedLabel |-> parseLabel(body), TableRef |-> parseTable(body),
   NavNode |-> parseNode(body), Navigation |-> parseNavigation(body),
   MyPermissionNode |-> parseMyNode(body), MyPermissionNodes |-> parseMyPermissions(body),
   TransferTarget |-> toTarget(body), TransferValues |-> toValues(body),
   TransferChange |-> toChange(body), TransferRolePlan |-> toRolePlan(body),
   TransferCheck |-> toCheck(body), TransferResult |-> toResult(body),
   TransferErrorItem |-> toErrorItem(body), DslErrorItem |-> toDslErrorItem(body),
   DslErrorReport |-> readErrorReport(body)]

(* readJson of the DSL and of the login: the body as it came.              *)
readJson == body

ApiInit ==
  /\ asked \in DOMAIN SentBy
  /\ \E sent \in SentBy[asked] : body \in {sent} \cup Harmed(sent)
  /\ shown = NotRead

readChecked ==
  /\ shown = NotRead
  /\ asked \in DOMAIN Parsed
  /\ shown' = Parsed[asked]
  /\ UNCHANGED <<asked, body>>

readUnchecked ==
  /\ shown = NotRead
  /\ asked \notin DOMAIN Parsed
  /\ shown' = readJson
  /\ UNCHANGED <<asked, body>>

ApiNext == readChecked \/ readUnchecked
ApiSpec == ApiInit /\ [][ApiNext]_apiVars

(* Every answer the backend can write is accepted by the frontend, and     *)
(* what the screens get is of the type they are compiled against: the two  *)
(* halves are written apart, in two languages, and no compiler and no test *)
(* with a mocked answer sees both.                                         *)
ServerIsUnderstood ==
  shown # NotRead /\ body \in SentBy[asked] => shown \in DeclaredAs[asked]

(* And whatever else comes, no value outside its declared type reaches a   *)
(* screen through a parser.  The kind of a DSL error, which is any text to *)
(* isErrorItem, is the one that does, and is left out.                     *)
NothingElseGetsIn ==
  Accepted(shown) /\ asked \in DOMAIN Parsed \ {"DslErrorItem"} => shown \in DeclaredAs[asked]

=============================================================================
