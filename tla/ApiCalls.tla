------------------------------- MODULE ApiCalls -------------------------------
(***************************************************************************)
(* The calls of the screens and the handlers of the server, which are two  *)
(* programs that only meet at run time: what the API modules of the        *)
(* frontend send (method, path, query, content type, fields, size), the    *)
(* limit of the size, the choice of the handler and what the handler       *)
(* needs and reads.  A name of what is done says on both sides what the    *)
(* caller wants and what the handler does.                                 *)
(*                                                                         *)
(* A path is the sequence of its segments after /api; an identifier in it  *)
(* is Id, in the pattern of a handler as in the path of a call.            *)
(***************************************************************************)
EXTENDS Naturals, Sequences

Id == "{id}"
Sizes == {1, 65536, 65537, 4194304, 4194305, 5242880, 5242881, 10485760, 10485761}
Unlimited == 10485761

VARIABLES
  stage,    \* "idle", "sent", "refused" (by the client), "answered"
  call,     \* the call of the screen
  chosen,   \* the size of what the user chose or entered
  request,  \* what is sent: the method, the path, the names of the query, the content type, the fields, the size
  apiAnswer    \* what the server makes of it

apiCallVars == <<stage, call, chosen, request, apiAnswer>>

-----------------------------------------------------------------------------
(* Calls.  query and fields are the sets of names that may be sent; limit   *)
(* is the size the client sends at most, file whether a file is read.       *)

Call(does, method, path, query, content, fields, limit, file) ==
  [does |-> does, method |-> method, path |-> path, query |-> query, content |-> content, fields |-> fields, limit |-> limit, file |-> file]
Get(does, path, query) == Call(does, "GET", path, query, "none", {{}}, Unlimited, FALSE)
Bare(does, method, path) == Call(does, method, path, {{}}, "none", {{}}, Unlimited, FALSE)
jsonInit(does, method, path, fields) == Call(does, method, path, {{}}, "json", {fields}, Unlimited, FALSE)

rolePath(suffix) == <<"admin", "roles", Id>> \o suffix
permissionTreePath(level) == rolePath(<<"permissions", level>>)
userRolesPath == <<"admin", "users", Id, "roles">>
searchQuery == {{"page"}, {"page", "q"}}
RoleCalls ==
  {Get("list roles", <<"admin", "roles">>, {{"page"}}), Get("read role", rolePath(<<>>), {{}}), jsonInit("create role", "POST", <<"admin", "roles">>, {"name"}),
   jsonInit("rename role", "PUT", rolePath(<<>>), {"name"}), Bare("delete role", "DELETE", rolePath(<<>>)),
   Get("list schemas", permissionTreePath("schemas"), {{}}), Get("list tables", permissionTreePath("tables"), {{"schema"}}), Get("list columns", permissionTreePath("columns"), {{"schema", "table"}}),
   jsonInit("save permissions", "PUT", rolePath(<<"permissions">>), {"scope", "entries"}), jsonInit("clear permissions", "POST", rolePath(<<"permissions", "clear">>), {"targets"})}
AssignmentCalls ==
  {Get("list assignments", rolePath(<<"assignments">>), {{}}), jsonInit("assign user", "POST", rolePath(<<"assignments">>), {"userId"}), jsonInit("assign group", "POST", rolePath(<<"assignments">>), {"groupId"}),
   Bare("unassign user", "DELETE", rolePath(<<"assignments", "users", Id>>)), Bare("unassign group", "DELETE", rolePath(<<"assignments", "groups", Id>>)),
   Get("list groups", <<"admin", "groups">>, {{"page"}}), Get("list users", <<"admin", "users">>, searchQuery), Get("roles of user", userRolesPath, {{}})}

groupPath(suffix) == <<"admin", "groups", Id>> \o suffix
GroupCalls ==
  {Get("list groups", <<"admin", "groups">>, {{"page"}}), jsonInit("create group", "POST", <<"admin", "groups">>, {"name"}), Get("read group", groupPath(<<>>), {{}}), jsonInit("rename group", "PUT", groupPath(<<>>), {"name"}),
   Bare("delete group", "DELETE", groupPath(<<>>)), jsonInit("add member", "POST", groupPath(<<"members">>), {"userId"}), Bare("remove member", "DELETE", groupPath(<<"members", Id>>)),
   Get("roles of group", groupPath(<<"roles">>), {{}}), Get("roles of user", userRolesPath, {{}}), Get("list users", <<"admin", "users">>, searchQuery)}

OPERATION_SEGMENTS ==
  [grantAdmin |-> "grant-admin", revokeAdmin |-> "revoke-admin", suspend |-> "suspend", resume |-> "resume", resetFailures |-> "reset-login-failures", profile |-> "profile"]
userAdminOperationPath(operation) == <<"admin", "users", Id, OPERATION_SEGMENTS[operation]>>
UserCalls ==
  {Bare(operation, "POST", userAdminOperationPath(operation)) : operation \in DOMAIN OPERATION_SEGMENTS \ {"profile"}}
    \cup {Get("list users", <<"admin", "users">>, searchQuery), jsonInit("profile", "PUT", userAdminOperationPath("profile"), {"displayName", "language"}), Get("roles of user", userRolesPath, {{}})}

InvitationCalls ==
  {Get("list invitations", <<"admin", "invitations">>, {{"page"}}), jsonInit("invite", "POST", <<"admin", "invitations">>, {"email", "language"}),
   Bare("resend", "POST", <<"admin", "invitations", Id, "resend">>), Bare("cancel", "POST", <<"admin", "invitations", Id, "cancel">>)}

MAX_SUBMIT_BYTES == 10485760
Dsl(suffix) == <<"admin", "dsl">> \o suffix
submitPreview(file) == Call("submit preview", "POST", Dsl(<<"preview">>), {{"source"}}, "yaml", {{}}, MAX_SUBMIT_BYTES, file)
DslCalls ==
  {Get("read status", Dsl(<<"status">>), {{}}), Get("read preview", Dsl(<<"preview">>), {{}}), Bare("generate preview", "POST", Dsl(<<"preview", "generate">>)), submitPreview(TRUE), submitPreview(FALSE),
   Bare("discard preview", "DELETE", Dsl(<<"preview">>)), jsonInit("apply preview", "POST", Dsl(<<"apply">>), {"previewId"}), Get("read history", Dsl(<<"history">>), {{}}), Bare("restore revision", "POST", Dsl(<<"history", Id, "restore">>)),
   Get("download preview", Dsl(<<"preview", "download">>), {{}}), Get("download applied", Dsl(<<"applied", "download">>), {{}})}

MAX_TRANSFER_BYTES == 5242880
\* The header of the fingerprint is a field of the request here.
TransferCalls ==
  {Get("export roles", <<"admin", "role-transfer", "export">>, {{}}), Call("check transfer", "POST", <<"admin", "role-transfer", "check">>, {{}}, "yaml", {{}}, MAX_TRANSFER_BYTES, TRUE),
   Call("apply transfer", "POST", <<"admin", "role-transfer", "apply">>, {{}}, "yaml", {{"X-Role-Transfer-Fingerprint"}}, MAX_TRANSFER_BYTES, TRUE)}

MyPermissionCalls ==
  {Get("my schemas", <<"me", "permissions", "schemas">>, {{}}), Get("my tables", <<"me", "permissions", "tables">>, {{"schema"}}), Get("my columns", <<"me", "permissions", "columns">>, {{"schema", "table"}})}
RegistrationCalls ==
  {jsonInit("verify link", "POST", <<"registration", "verify">>, {"token"}),
   jsonInit("register", "POST", <<"registration", "complete">>, {"token", "displayName", "password", "passwordConfirmation", "language", "theme", "fontSize"})}
PreferencesCalls ==
  {Get("read preferences", <<"me", "preferences">>, {{}}), jsonInit("save preferences", "PUT", <<"me", "preferences">>, {"displayName", "language", "theme", "fontSize", "displayTimeZone"}),
   jsonInit("change password", "POST", <<"me", "password">>, {"currentPassword", "newPassword", "newPasswordConfirmation"})}
AuthCalls == {jsonInit("log in", "POST", <<"auth", "login">>, {"email", "password"}), Bare("exchange", "POST", <<"auth", "session", "refresh">>), Bare("log out", "POST", <<"auth", "session", "logout">>)}
WorkRoleCalls == {Get("read work role", <<"me", "work-role">>, {{}}), jsonInit("switch work role", "PUT", <<"me", "work-role">>, {"roleId"})}
getNavigation == Get("read menu", <<"me", "navigation">>, {{}})
callDisplayTimeZone == Get("read preferences", <<"me", "preferences">>, {{}})

MAX_READ_BODY_BYTES == 65536
MAX_WRITE_BODY_BYTES == 4194304
ApiTables(suffix) == <<"tables">> \o suffix
OfTable == {"schema", "table"}
OfDefinition == OfTable \cup {"definitionId"}
OfSource == OfTable \cup {"column"}
Between(needed, known) == {names \in SUBSET known : needed \subseteq names}
postWithinLimit(does, path, fields) == Call(does, "POST", path, {{}}, "json", fields, MAX_READ_BODY_BYTES, FALSE)
TableReads ==
  {postWithinLimit("read definition", ApiTables(<<"definition">>), Between(OfTable, OfDefinition \cup {"purpose"})),
   postWithinLimit("find reference rows", ApiTables(<<"reference", "rows">>), {OfSource \cup {"conditions", "page"}}), postWithinLimit("read label", ApiTables(<<"reference", "rows">>), {OfSource \cup {"value"}}),
   postWithinLimit("search rows", ApiTables(<<"rows", "search">>), Between(OfDefinition \cup {"conditions", "page", "size"}, OfDefinition \cup {"conditions", "sort", "page", "size"})),
   postWithinLimit("read row", ApiTables(<<"rows", "get">>), {OfDefinition \cup {"key"}})}
sendWrite(does, method, path, fields, limit) == Call(does, method, path, {{}}, "json", {fields}, limit, FALSE)
TableWrites ==
  {sendWrite("create row", "POST", ApiTables(<<"rows">>), OfDefinition \cup {"values"}, MAX_WRITE_BODY_BYTES),
   sendWrite("update row", "PATCH", ApiTables(<<"rows">>), OfDefinition \cup {"key", "values"}, MAX_WRITE_BODY_BYTES),
   sendWrite("delete row", "POST", ApiTables(<<"rows", "delete">>), OfDefinition \cup {"key"}, MAX_READ_BODY_BYTES)}

Calls ==
  RoleCalls \cup AssignmentCalls \cup GroupCalls \cup UserCalls \cup InvitationCalls \cup DslCalls \cup TransferCalls \cup MyPermissionCalls
    \cup RegistrationCalls \cup PreferencesCalls \cup AuthCalls \cup WorkRoleCalls \cup {getNavigation, callDisplayTimeZone} \cup TableReads \cup TableWrites

-----------------------------------------------------------------------------
(* Handlers.  query and fields are the sets of names a request may come     *)
(* with: all that is needed, and nothing that is not read.                  *)

Handler(does, method, path, query, consumes, fields) == [does |-> does, method |-> method, path |-> path, query |-> query, consumes |-> consumes, fields |-> fields]
ApiReads(does, path, query) == Handler(does, "GET", path, query, "any", {{}})
Does(does, method, path) == Handler(does, method, path, {{}}, "any", {{}})
Takes(does, method, path, fields) == Handler(does, method, path, {{}}, "json", {fields})
Paged == {{}, {"page"}}

RoleAdminController ==
  {ApiReads("list roles", <<"admin", "roles">>, Paged), Takes("create role", "POST", <<"admin", "roles">>, {"name"}), ApiReads("read role", <<"admin", "roles", Id>>, {{}}),
   Takes("rename role", "PUT", <<"admin", "roles", Id>>, {"name"}), Does("delete role", "DELETE", <<"admin", "roles", Id>>)}
RolePermissionController ==
  LET path == <<"admin", "roles", Id, "permissions">> IN
  {ApiReads("list schemas", Append(path, "schemas"), {{}}), ApiReads("list tables", Append(path, "tables"), {{"schema"}}), ApiReads("list columns", Append(path, "columns"), {{"schema", "table"}}),
   Takes("save permissions", "PUT", path, {"scope", "entries"}), Takes("clear permissions", "POST", Append(path, "clear"), {"targets"})}
\* One handler assigns a user or a group: what it does is what the body names.
RoleAssignmentController ==
  LET path == <<"admin", "roles", Id, "assignments">> IN
  {ApiReads("list assignments", path, {{}}), Takes("assign user", "POST", path, {"userId"}), Takes("assign group", "POST", path, {"groupId"}),
   Does("unassign user", "DELETE", path \o <<"users", Id>>), Does("unassign group", "DELETE", path \o <<"groups", Id>>)}
RoleLookupController == {ApiReads("roles of group", <<"admin", "groups", Id, "roles">>, {{}}), ApiReads("roles of user", <<"admin", "users", Id, "roles">>, {{}})}
GroupAdminController ==
  LET path == <<"admin", "groups">> IN
  {ApiReads("list groups", path, Paged), Takes("create group", "POST", path, {"name"}), ApiReads("read group", Append(path, Id), {{}}), Takes("rename group", "PUT", Append(path, Id), {"name"}), Does("delete group", "DELETE", Append(path, Id)),
   Takes("add member", "POST", path \o <<Id, "members">>, {"userId"}), Does("remove member", "DELETE", path \o <<Id, "members", Id>>)}
UserAdminController ==
  LET path == <<"admin", "users">> IN
  {ApiReads("list users", path, SUBSET {"page", "q"}), Takes("profile", "PUT", path \o <<Id, "profile">>, {"displayName", "language"}), Does("grantAdmin", "POST", path \o <<Id, "grant-admin">>), Does("revokeAdmin", "POST", path \o <<Id, "revoke-admin">>),
   Does("suspend", "POST", path \o <<Id, "suspend">>), Does("resume", "POST", path \o <<Id, "resume">>), Does("resetFailures", "POST", path \o <<Id, "reset-login-failures">>)}
InvitationAdminController ==
  LET path == <<"admin", "invitations">> IN
  {Takes("invite", "POST", path, {"email", "language"}), ApiReads("list invitations", path, Paged), Does("resend", "POST", path \o <<Id, "resend">>), Does("cancel", "POST", path \o <<Id, "cancel">>)}
DslAdminController ==
  LET path == <<"admin", "dsl">> IN
  {ApiReads("read status", Append(path, "status"), {{}}), ApiReads("read preview", Append(path, "preview"), {{}}), Handler("submit preview", "POST", Append(path, "preview"), {{"source"}}, "yaml", {{}}), Does("discard preview", "DELETE", Append(path, "preview")),
   Does("generate preview", "POST", path \o <<"preview", "generate">>), ApiReads("download preview", path \o <<"preview", "download">>, {{}}), Takes("apply preview", "POST", Append(path, "apply"), {"previewId"}),
   ApiReads("read history", Append(path, "history"), {{}}), Does("restore revision", "POST", path \o <<"history", Id, "restore">>), ApiReads("download applied", path \o <<"applied", "download">>, {{}})}
RoleTransferController ==
  LET path == <<"admin", "role-transfer">> IN
  {ApiReads("export roles", Append(path, "export"), {{}}), Handler("check transfer", "POST", Append(path, "check"), {{}}, "yaml", {{}}), Handler("apply transfer", "POST", Append(path, "apply"), {{}}, "yaml", {{"X-Role-Transfer-Fingerprint"}})}
MyPermissionsController ==
  LET path == <<"me", "permissions">> IN
  {ApiReads("my schemas", Append(path, "schemas"), {{}}), ApiReads("my tables", Append(path, "tables"), {{"schema"}}), ApiReads("my columns", Append(path, "columns"), {{"schema", "table"}})}
MeController ==
  {ApiReads("read preferences", <<"me", "preferences">>, {{}}), Takes("change password", "POST", <<"me", "password">>, {"currentPassword", "newPassword", "newPasswordConfirmation"}),
   Handler("save preferences", "PUT", <<"me", "preferences">>, {{}}, "json", LET needed == {"displayName", "language", "theme", "fontSize"} IN Between(needed, needed \cup {"displayTimeZone"}))}
MeWorkRoleController == {ApiReads("read work role", <<"me", "work-role">>, {{}}), Takes("switch work role", "PUT", <<"me", "work-role">>, {"roleId"})}
NavigationController == {ApiReads("read menu", <<"me", "navigation">>, {{}})}
RegistrationController ==
  {Takes("verify link", "POST", <<"registration", "verify">>, {"token"}),
   Takes("register", "POST", <<"registration", "complete">>, {"token", "displayName", "password", "passwordConfirmation", "language", "theme", "fontSize"})}
AuthController == {Takes("log in", "POST", <<"auth", "login">>, {"email", "password"}), Does("exchange", "POST", <<"auth", "session", "refresh">>), Does("log out", "POST", <<"auth", "session", "logout">>)}
\* The mode of a reading of reference rows is what the body names: conditions with a page, or a value.
BusinessDataReadController ==
  LET Body(does, path, fields) == Handler(does, "POST", <<"tables">> \o path, {{}}, "json", fields) IN
  {Body("read definition", <<"definition">>, Between(OfTable, OfDefinition \cup {"purpose"})), Body("read row", <<"rows", "get">>, Between(OfTable \cup {"key"}, OfDefinition \cup {"key"})),
   Body("search rows", <<"rows", "search">>, Between(OfTable \cup {"page", "size"}, OfDefinition \cup {"conditions", "sort", "page", "size"})),
   Body("find reference rows", <<"reference", "rows">>, {OfSource \cup {"conditions", "page"}}), Body("read label", <<"reference", "rows">>, {OfSource \cup {"value"}})}
BusinessDataWriteController ==
  {Takes("create row", "POST", <<"tables", "rows">>, OfDefinition \cup {"values"}), Takes("update row", "PATCH", <<"tables", "rows">>, OfDefinition \cup {"key", "values"}),
   Takes("delete row", "POST", <<"tables", "rows", "delete">>, OfDefinition \cup {"key"})}
Handlers ==
  RoleAdminController \cup RolePermissionController \cup RoleAssignmentController \cup RoleLookupController \cup GroupAdminController \cup UserAdminController \cup InvitationAdminController \cup DslAdminController
    \cup RoleTransferController \cup MyPermissionsController \cup MeController \cup MeWorkRoleController \cup NavigationController \cup RegistrationController \cup AuthController \cup BusinessDataReadController \cup BusinessDataWriteController

\* The limits of the size of a body: those of some routes, and the one of all others.
DefaultLimit == 1048576
RouteLimits ==
  {<<"POST", ApiTables(path), 65536>> : path \in {<<"definition">>, <<"rows", "search">>, <<"rows", "get">>, <<"rows", "delete">>, <<"reference", "rows">>}}
    \cup {<<method, ApiTables(<<"rows">>), 4194304>> : method \in {"POST", "PATCH"}} \cup {<<"POST", Dsl(<<"preview">>), 10485760>>}
    \cup {<<"POST", <<"admin", "role-transfer", step>>, 5242880>> : step \in {"check", "apply"}}
LimitOf(sent) ==
  LET own == {l \in RouteLimits : l[1] = sent.method /\ l[2] = sent.path} IN IF own = {} THEN DefaultLimit ELSE (CHOOSE l \in own : TRUE)[3]

-----------------------------------------------------------------------------
NoCall == Bare("nothing", "GET", <<>>)
NoRequest == [method |-> "GET", path |-> <<>>, query |-> {}, content |-> "none", fields |-> {}, size |-> 0]
ApiCallsInit == stage = "idle" /\ call = NoCall /\ chosen = 0 /\ request = NoRequest /\ apiAnswer = {}

\* The screen makes a call.  Only some calls look at the size; a body of the others is small.
SizesOf(c) == IF c.limit = Unlimited THEN {1} ELSE Sizes
\* A file is measured as it is, and sent as it is read: bytes that are no UTF-8 become longer, a mark at the beginning is dropped.
SentSizes(c, size) == IF c.file THEN {size, size + 2} ELSE {size}
CallsServer ==
  /\ stage \in {"idle", "refused", "answered"}
  /\ \E c \in Calls : call' = c /\ \E size \in SizesOf(c) :
       /\ chosen' = size
       /\ IF size > c.limit THEN stage' = "refused" /\ request' = NoRequest
          ELSE \E query \in c.query, fields \in c.fields, sent \in SentSizes(c, size) :
                 stage' = "sent" /\ request' = [method |-> c.method, path |-> c.path, query |-> query, content |-> c.content, fields |-> fields, size |-> sent]
  /\ apiAnswer' = {}

\* The size, then the path and the method, then the content type and what is needed of the query and the fields.
Matches(handler) == handler.path = request.path /\ handler.method = request.method
Consumes(handler) == handler.consumes = "any" \/ handler.consumes = request.content
Understands(handler) == request.query \in handler.query /\ request.fields \in handler.fields
Serve ==
  /\ stage = "sent" /\ stage' = "answered"
  /\ apiAnswer' = IF request.size > LimitOf(request) THEN {"PAYLOAD_TOO_LARGE"} ELSE {h.does : h \in {h \in Handlers : Matches(h) /\ Consumes(h) /\ Understands(h)}}
  /\ UNCHANGED <<call, chosen, request>>

ApiCallsNext == CallsServer \/ Serve
ApiCallsSpec == ApiCallsInit /\ [][ApiCallsNext]_apiCallVars

-----------------------------------------------------------------------------
\* The API modules of the frontend and the controllers of the server agree: whatever call a screen makes, one handler takes it, does what the
\* screen wants, gets all it needs, and nothing that is sent is ignored.
EachCallIsHandled == stage = "answered" => apiAnswer \in {{call.does}, {"PAYLOAD_TOO_LARGE"}}

\* businessDataLimits.ts, transferLimits.ts, submitInput.ts and the limits of the routes agree: the client refuses only what the server would
\* refuse, and the server refuses only a file that became longer when it was read.
SizesAgree ==
  /\ stage = "refused" => chosen > LimitOf(call)
  /\ apiAnswer = {"PAYLOAD_TOO_LARGE"} => call.file /\ request.size > chosen
==============================================================================
