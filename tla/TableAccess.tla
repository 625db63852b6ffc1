------------------------------ MODULE TableAccess ------------------------------
(***************************************************************************)
(* What a user may do on a table of business data, as the server derives   *)
(* it from the DSL and the work role's permissions (TableAccessPolicy), as *)
(* the pages offer it, and as the server judges it again when it is asked  *)
(* for.  An administrator may change the permissions at any time; the list *)
(* and the detail keep the definition they read, a form reads one of its   *)
(* own when it is opened.                                                  *)
(***************************************************************************)
EXTENDS Integers, Sequences, FiniteSets, SequencesExt

CONSTANTS
  ColumnNames,   \* the columns of the table, in the order of the list
  AccessTables,        \* [view, key, configured, columns |-> [name |-> [kind, list, detail]]]
  Rows,          \* the rows, [name |-> a cell]
  Grants,        \* the permissions, [readable, create, delete, main |-> [name |-> "NONE", "READ" or "FULL"]]
  MaxAccessChanges,    \* bound: the changes of the permissions
  Unset

VARIABLES
  dsl, grants, accessChanges,   \* the server: the table, the permissions of the work role
  accessPage, known,            \* the page; the permissions its definition was made of, None before
  keptDefinition,                   \* those of the definition the list and the detail keep
  accessRow, values,            \* the row in hand; its values as answered, on the list whether the rows were
  accessTime,                   \* the display time zone
  askedAccess, told             \* the operation sent; what the page says of the last answer

tableAccessVars == <<dsl, grants, accessChanges, accessPage, known, keptDefinition, accessRow, values, accessTime, askedAccess, told>>

AccessColumns == ToSet(ColumnNames)
Operations == {"LIST", "DETAIL", "CREATE", "UPDATE", "DELETE"}

-----------------------------------------------------------------------------
(* The definition of a table for a work role, by TableAccessPolicy *)
Kind(c) == dsl.columns[c].kind
masked(c) == Kind(c) = "PASSWORD"
readsValue(c) == Kind(c) \notin {"PASSWORD", "BINARY"}
visible(g) == {c \in AccessColumns : g.readable /\ g.main[c] # "NONE"}
editableOnCreate(g, c) == c \in visible(g) /\ dsl.columns[c].detail /\ g.main[c] = "FULL" /\ Kind(c) \notin {"BINARY", "OTHER", "UUID"}
editableOnUpdate(g, c) == editableOnCreate(g, c) /\ c \notin dsl.key
\* A row is found by columns the user may see, of types that can be compared.
keyUsable(g, c) == c \in visible(g) /\ Kind(c) \notin {"BINARY", "OTHER"}

operations(g) ==
  LET detail == dsl.key # {} /\ \A c \in dsl.key : keyUsable(g, c)
      writable == ~dsl.view /\ dsl.configured
  IN  IF ~g.readable THEN {} ELSE
        {"LIST"} \cup (IF detail THEN {"DETAIL"} ELSE {})
          \cup (IF writable /\ g.create THEN {"CREATE"} ELSE {})
          \cup (IF detail /\ writable /\ \E c \in AccessColumns : editableOnUpdate(g, c) THEN {"UPDATE"} ELSE {})
          \cup (IF detail /\ writable /\ g.delete THEN {"DELETE"} ELSE {})

restrictionReason(g) ==
  IF dsl.view THEN "VIEW"
  ELSE IF dsl.key = {} THEN "NO_PRIMARY_KEY"
  ELSE IF ~g.readable \/ \E c \in dsl.key : g.main[c] = "NONE" THEN "PRIMARY_KEY_HIDDEN" ELSE Unset

listColumns(g) == SelectSeq(ColumnNames, LAMBDA c : c \in visible(g) /\ dsl.columns[c].list)
detailColumns(g) == {c \in visible(g) : dsl.columns[c].detail}
\* The key names a row where the list shows all of it, the first column whose value is read otherwise.
rowLabelColumns(g) ==
  LET listed == listColumns(g)
      read == SelectSeq(listed, readsValue)
  IN  IF "DETAIL" \notin operations(g) THEN <<>>
      ELSE IF dsl.key \subseteq ToSet(listed) THEN SelectSeq(ColumnNames, LAMBDA c : c \in dsl.key)
      ELSE IF read = <<>> THEN <<>> ELSE <<Head(read)>>

-----------------------------------------------------------------------------
(* The judgement of a write, by BusinessDataWriteService *)
structurallyForbidden(g, op) == dsl.view \/ (op # "CREATE" /\ "DETAIL" \notin operations(g))
permitted(g, op) ==
  CASE op = "CREATE" -> g.create [] op = "DELETE" -> g.delete [] op = "UPDATE" -> \E c \in AccessColumns : editableOnUpdate(g, c)
judge(g, op) ==
  IF ~g.readable THEN "ACCESS_DENIED"
  ELSE IF structurallyForbidden(g, op) THEN "BUSINESS_ROW_OPERATION_NOT_ALLOWED"
  ELSE IF ~permitted(g, op) THEN "ACCESS_DENIED"
  ELSE IF ~dsl.configured \/ op \notin operations(g) THEN "BUSINESS_WRITE_NOT_CONFIGURED"
  ELSE "OK"
\* What may still be said of a write that was judged possible.
Later(op) ==
  {"OK", "BUSINESS_TARGET_DB_UNAVAILABLE", "BUSINESS_SAVE_REJECTED", "BUSINESS_TARGET_DB_MISMATCH"}
    \cup (IF op = "DELETE" THEN {} ELSE {"VALIDATION_FAILED", "BUSINESS_DUPLICATE_VALUE", "BUSINESS_REFERENCE_NOT_FOUND"})
    \cup (IF op = "CREATE" THEN {} ELSE {"BUSINESS_ROW_NOT_FOUND", "BUSINESS_ROW_NOT_UNIQUE"})

-----------------------------------------------------------------------------
(* What the pages say of a refusal *)
READ_CODE_KINDS ==
  [ACCESS_DENIED |-> "forbidden", BUSINESS_TABLE_NOT_FOUND |-> "table-not-found", BUSINESS_ROW_NOT_FOUND |-> "row-not-found",
   BUSINESS_DSL_NOT_APPLIED |-> "dsl-not-applied", BUSINESS_TARGET_DB_UNAVAILABLE |-> "unavailable", BUSINESS_TARGET_DB_TIMEOUT |-> "unavailable",
   BUSINESS_TARGET_DB_MISMATCH |-> "mismatch", BUSINESS_ROW_OPERATION_NOT_ALLOWED |-> "not-unique", BUSINESS_ROW_NOT_UNIQUE |-> "not-unique",
   PAYLOAD_TOO_LARGE |-> "payload-too-large", VALIDATION_FAILED |-> "bad-request", MALFORMED_REQUEST |-> "bad-request"]
\* A code the table does not have is judged by its status; no answer is a failure of the network.
readProblemKind(code, status) ==
  IF code = Unset /\ status = Unset THEN "network"
  ELSE IF code \in DOMAIN READ_CODE_KINDS THEN READ_CODE_KINDS[code]
  ELSE IF status = 403 THEN "forbidden" ELSE IF status = 413 THEN "payload-too-large"
  ELSE IF status >= 500 THEN "unknown-server" ELSE "unknown-client"

WRITE_CODE_KINDS ==
  [ACCESS_DENIED |-> "forbidden", BUSINESS_TABLE_NOT_FOUND |-> "table-not-found", BUSINESS_ROW_NOT_FOUND |-> "row-not-found",
   BUSINESS_DSL_NOT_APPLIED |-> "dsl-not-applied", BUSINESS_TARGET_DB_UNAVAILABLE |-> "unavailable", BUSINESS_TARGET_DB_MISMATCH |-> "mismatch",
   BUSINESS_ROW_OPERATION_NOT_ALLOWED |-> "not-unique", BUSINESS_ROW_NOT_UNIQUE |-> "not-unique", BUSINESS_WRITE_NOT_CONFIGURED |-> "write-not-configured",
   BUSINESS_DEFINITION_CHANGED |-> "definition-changed", BUSINESS_DUPLICATE_VALUE |-> "duplicate", BUSINESS_REFERENCE_NOT_FOUND |-> "reference-not-found",
   BUSINESS_SAVE_REJECTED |-> "save-rejected", VALIDATION_FAILED |-> "validation", PAYLOAD_TOO_LARGE |-> "payload-too-large"]
MutOneRefusal(code) ==
  IF code = "BUSINESS_ROW_OPERATION_NOT_ALLOWED" THEN "forbidden" ELSE IF code \in DOMAIN WRITE_CODE_KINDS THEN WRITE_CODE_KINDS[code] ELSE "save-rejected"
writeProblemKind(code) == IF code \in DOMAIN WRITE_CODE_KINDS THEN WRITE_CODE_KINDS[code] ELSE "save-rejected"
\* The text under that kind: a deletion has texts of its own.
writeProblemMessageKey(kind, op) ==
  IF op = "DELETE" /\ kind \in {"forbidden", "unavailable", "save-rejected"} THEN <<kind, "delete">> ELSE <<kind, "save">>

RETRYABLE == {"unavailable", "unknown-server", "unknown-client", "network", "payload-too-large", "bad-request"}

-----------------------------------------------------------------------------
(* A cell and the name of a row *)
formatCell(c, cell) ==
  IF masked(c) THEN "(hidden)"
  ELSE CASE Kind(c) = "BINARY" -> "(binary)"
         [] cell = Unset /\ Kind(c) # "BINARY" -> "(none)"
         [] Kind(c) = "DATETIME_TZ" /\ cell \notin {Unset, ""} -> IF accessTime = "ready" THEN cell ELSE "(no time zone)"
         [] OTHER -> cell
rowLabelParts(g, cells) ==
  [i \in DOMAIN rowLabelColumns(g) |->
     LET part == formatCell(rowLabelColumns(g)[i], cells[rowLabelColumns(g)[i]]) IN IF part = "" THEN "(empty)" ELSE part]
rowLabelText(parts) == IF parts = <<>> THEN <<"(empty)">> ELSE parts
\* The column whose cells lead to the row.
rowLinkColumn(g) ==
  LET labels == rowLabelColumns(g)
  IN  IF labels # <<>> /\ "DETAIL" \in operations(g) /\ Head(labels) \in ToSet(listColumns(g)) THEN Head(labels) ELSE Unset

\* The values an answer carries: those of the columns of the page that are read.
AccessAnswered(columns, r) == [c \in AccessColumns |-> IF c \in columns /\ readsValue(c) THEN r[c] ELSE Unset]
ListLabel(g, r) == rowLabelText(rowLabelParts(g, AccessAnswered(ToSet(listColumns(g)), r)))

-----------------------------------------------------------------------------
(* The pages *)
\* A reference may be shown by a time although its own value is none.
columnsNeedTimeZone(columns) == \E c \in columns : Kind(c) \in {"DATETIME_TZ", "REFERENCE"}
needsTimeZone(g) == columnsNeedTimeZone(IF accessPage = "list" THEN ToSet(listColumns(g)) ELSE detailColumns(g))
waiting == needsTimeZone(known) /\ accessTime = "loading"

rowActionItems(g) ==
  IF "DETAIL" \notin operations(g) THEN {} ELSE operations(g) \cap {"DETAIL", "UPDATE", "DELETE"}
FormAllowed(g) == (IF accessPage = "new" THEN "CREATE" ELSE "UPDATE") \in operations(g)
AccessShown ==
  /\ known # Unset /\ told = Unset
  /\ CASE accessPage = "list" -> ~waiting
       [] accessPage = "detail" -> values # Unset /\ ~waiting
       [] accessPage = "new" -> FormAllowed(known) /\ (needsTimeZone(known) => accessTime = "ready")
       [] accessPage = "edit" -> FormAllowed(known) /\ values # Unset /\ (needsTimeZone(known) => accessTime = "ready")
Offers(op) ==
  /\ AccessShown /\ askedAccess = Unset
  /\ CASE accessPage = "list" -> \/ values # Unset /\ (op \in rowActionItems(known) \/ (op = "DETAIL" /\ rowLinkColumn(known) # Unset))
                          \/ (op = "CREATE" /\ op \in operations(known))
       [] accessPage = "detail" -> op \in operations(known) \cap {"UPDATE", "DELETE"}
       [] accessPage = "new" -> op = "CREATE"
       [] accessPage = "edit" -> op = "UPDATE"

\* Whether the missing settings are what keeps this user from writing, as nearly as the definition tells.
canWriteWhenConfigured(g) == ~dsl.view /\ \E c \in detailColumns(g) : editableOnCreate(g, c) \/ editableOnUpdate(g, c)
RestrictionNotice(g) ==
  ({restrictionReason(g)} \ {Unset}) \cup (IF ~dsl.configured /\ canWriteWhenConfigured(g) THEN {"write-not-configured"} ELSE {})

-----------------------------------------------------------------------------
TableAccessInit ==
  /\ dsl \in AccessTables /\ grants \in Grants /\ accessChanges = 0
  /\ accessPage = "list" /\ known = Unset /\ keptDefinition = Unset /\ accessRow = Unset /\ values = Unset
  /\ accessTime = "loading" /\ askedAccess = Unset /\ told = Unset

\* An administrator gives or takes one permission of the work role.
GrantsChange ==
  /\ accessChanges < MaxAccessChanges
  /\ \/ \E f \in {"readable", "create", "delete"} : grants' = [grants EXCEPT ![f] = ~@]
     \/ \E c \in AccessColumns : \E m \in {"NONE", "FULL"} \ {grants.main[c]} : grants' = [grants EXCEPT !.main[c] = m]
  /\ accessChanges' = accessChanges + 1
  /\ UNCHANGED <<dsl, accessPage, known, keptDefinition, accessRow, values, accessTime, askedAccess, told>>

TimeSettles ==
  /\ accessTime = "loading" /\ accessTime' \in {"ready", "error"}
  /\ UNCHANGED <<dsl, grants, accessChanges, accessPage, known, keptDefinition, accessRow, values, askedAccess, told>>

Reads(p) == p \in {"list", "detail"}
Goes(p, r) == accessPage' = p /\ accessRow' = r /\ known' = (IF Reads(p) THEN keptDefinition ELSE Unset) /\ values' = Unset
AccessDefinitionRead ==
  /\ known = Unset /\ told = Unset
  /\ IF grants.readable
     THEN known' = grants /\ keptDefinition' = (IF Reads(accessPage) THEN grants ELSE keptDefinition) /\ UNCHANGED told
     ELSE told' = <<readProblemKind("ACCESS_DENIED", 403), "read">> /\ UNCHANGED <<known, keptDefinition>>
  /\ UNCHANGED <<dsl, grants, accessChanges, accessPage, accessRow, values, accessTime, askedAccess>>

\* The rows of the list are not kept here; one of them is taken in hand.
OpenRow ==
  /\ accessPage = "list" /\ Offers("DETAIL") /\ \E r \in Rows : Goes("detail", r)
  /\ UNCHANGED <<dsl, grants, accessChanges, keptDefinition, accessTime, askedAccess, told>>
EditRow ==
  /\ accessPage \in {"list", "detail"} /\ Offers("UPDATE") /\ \E r \in (IF accessPage = "list" THEN Rows ELSE {accessRow}) : Goes("edit", r)
  /\ UNCHANGED <<dsl, grants, accessChanges, keptDefinition, accessTime, askedAccess, told>>
Create ==
  /\ accessPage = "list" /\ Offers("CREATE") /\ Goes("new", Unset)
  /\ UNCHANGED <<dsl, grants, accessChanges, keptDefinition, accessTime, askedAccess, told>>
\* The user goes back, or leaves and opens the list again; the answer of a write that is under way is not heard.
Back ==
  /\ Goes("list", Unset) \/ (accessPage = "edit" /\ Goes("detail", accessRow))
  /\ told' = Unset /\ askedAccess' = Unset
  /\ UNCHANGED <<dsl, grants, accessChanges, keptDefinition, accessTime>>

AccessRowRead ==
  /\ accessPage # "new" /\ known # Unset /\ values = Unset /\ told = Unset
  /\ IF grants.readable /\ (accessPage = "list" \/ "DETAIL" \in operations(grants))
     THEN values' = (IF accessPage = "list" THEN "rows" ELSE AccessAnswered(detailColumns(grants), accessRow)) /\ UNCHANGED told
     ELSE /\ told' = <<readProblemKind(IF grants.readable THEN "BUSINESS_ROW_OPERATION_NOT_ALLOWED" ELSE "ACCESS_DENIED", 403), "read">>
          /\ UNCHANGED values
  /\ UNCHANGED <<dsl, grants, accessChanges, accessPage, known, keptDefinition, accessRow, accessTime, askedAccess>>

\* Any reading of a page may fail; some failures offer to ask again.
ReadFails ==
  /\ told = Unset /\ (known = Unset \/ (accessPage # "new" /\ values = Unset))
  /\ \E problem \in {<<"BUSINESS_TARGET_DB_TIMEOUT", 503>>, <<"BUSINESS_TARGET_DB_MISMATCH", 409>>, <<Unset, 500>>, <<Unset, 413>>, <<Unset, Unset>>} :
       told' = <<readProblemKind(problem[1], problem[2]), "read">>
  /\ UNCHANGED <<dsl, grants, accessChanges, accessPage, known, keptDefinition, accessRow, values, accessTime, askedAccess>>
Retry ==
  /\ told # Unset /\ told[2] = "read" /\ told[1] \in RETRYABLE /\ told' = Unset
  /\ UNCHANGED <<dsl, grants, accessChanges, accessPage, known, keptDefinition, accessRow, values, accessTime, askedAccess>>

Delete ==
  /\ Reads(accessPage) /\ Offers("DELETE") /\ askedAccess' = "DELETE"
  /\ UNCHANGED <<dsl, grants, accessChanges, accessPage, known, keptDefinition, accessRow, values, accessTime, told>>
Save ==
  /\ accessPage \in {"new", "edit"} /\ \E op \in {"CREATE", "UPDATE"} : Offers(op) /\ askedAccess' = op
  /\ UNCHANGED <<dsl, grants, accessChanges, accessPage, known, keptDefinition, accessRow, values, accessTime, told>>

\* Where a write that succeeds leads: a created row whose key the server could not tell has no page.
Succeeds ==
  CASE askedAccess = "CREATE" -> (Goes("list", Unset) \/ \E r \in Rows : Goes("detail", r))
    [] askedAccess = "UPDATE" -> Goes("detail", accessRow)
    [] askedAccess = "DELETE" -> Goes("list", Unset)
Judged ==
  /\ askedAccess # Unset
  /\ \E code \in (IF judge(grants, askedAccess) = "OK" THEN Later(askedAccess) ELSE {judge(grants, askedAccess)}) :
       IF code = "OK" THEN Succeeds /\ UNCHANGED told
       ELSE told' = writeProblemMessageKey(writeProblemKind(code), askedAccess) /\ UNCHANGED <<accessPage, known, accessRow, values>>
  /\ askedAccess' = Unset
  /\ UNCHANGED <<dsl, grants, accessChanges, keptDefinition, accessTime>>

TableAccessNext ==
  \/ GrantsChange \/ TimeSettles \/ AccessDefinitionRead \/ OpenRow \/ EditRow \/ Create \/ Back
  \/ AccessRowRead \/ ReadFails \/ Retry \/ Delete \/ Save \/ Judged
TableAccessSpec == TableAccessInit /\ [][TableAccessNext]_tableAccessVars

-----------------------------------------------------------------------------
(* Properties *)

\* A user whose permissions stay as they are is never refused what a page offered: the policy that makes
\* the definition and the service that judges the write decide alike (TableAccessPolicy, BusinessDataWriteService).
RefusedOnlyAfterAChangeStep ==
  Judged /\ known = grants => judge(grants, askedAccess) = "OK"
RefusedOnlyAfterAChange == [][RefusedOnlyAfterAChangeStep]_tableAccessVars

\* Where the list is shown, it offers every write the server would take, and no other.
PermittedIsOffered ==
  accessPage = "list" /\ AccessShown /\ values # Unset /\ askedAccess = Unset /\ known = grants =>
    \A op \in {"CREATE", "UPDATE", "DELETE"} : Offers(op) <=> judge(grants, op) = "OK"

\* What a refusal is told as is what refused it: a missing permission, a row that cannot be told apart,
\* missing settings, and a failed save only after all of these were judged.
RefusalSaysWhyStep ==
  Judged /\ told' # told =>
    LET kind == told'[1]
    IN  /\ kind = "forbidden" <=> judge(grants, askedAccess) = "ACCESS_DENIED"
        /\ kind = "write-not-configured" <=> judge(grants, askedAccess) = "BUSINESS_WRITE_NOT_CONFIGURED"
        /\ kind = "save-rejected" => judge(grants, askedAccess) = "OK"
RefusalSaysWhy == [][RefusalSaysWhyStep]_tableAccessVars

\* A user who cannot open the rows is told why, unless the type of the key is the reason (the policy has none
\* for it), and a user whom only the missing settings keep from changing rows is told that.
TheReasonIsTold ==
  accessPage = "list" /\ AccessShown =>
    /\ "DETAIL" \notin operations(known) /\ (\A c \in dsl.key : Kind(c) \notin {"BINARY", "OTHER"}) => RestrictionNotice(known) # {}
    /\ ~dsl.configured /\ judge(known, "UPDATE") = "BUSINESS_WRITE_NOT_CONFIGURED" => "write-not-configured" \in RestrictionNotice(known)

\* Nothing that needs the display time zone is shown, in a cell, in the name of a row or by a reference, while the zone is read.
NoTimeBeforeItsZone ==
  AccessShown /\ accessTime = "loading" =>
    \A c \in ToSet(rowLabelColumns(known)) \cup (IF accessPage = "list" THEN ToSet(listColumns(known)) ELSE detailColumns(known)) :
      /\ Kind(c) # "REFERENCE"
      /\ Kind(c) = "DATETIME_TZ" => accessPage # "list" /\ c \notin detailColumns(known)

\* In the list, a row that can be opened is named by what the list shows of it: no part is missing that the row has.
ListNamesItsRows ==
  accessPage = "list" /\ AccessShown /\ "DETAIL" \in operations(known) =>
    \A r \in Rows : \A i \in DOMAIN rowLabelColumns(known) :
      LET c == rowLabelColumns(known)[i]
      IN  /\ rowLabelParts(known, AccessAnswered(ToSet(listColumns(known)), r))[i] = "(none)" => r[c] = Unset
          /\ c \in ToSet(listColumns(known))

\* The page of a row calls it what the list calls it (BusinessDataDetailPage, DeleteConfirmModal).
\* The code does not keep it: see the README.
RowKeepsItsName ==
  accessPage = "detail" /\ AccessShown /\ known = grants /\ accessChanges = 0 => rowLabelText(rowLabelParts(known, values)) = ListLabel(known, accessRow)
==============================================================================
