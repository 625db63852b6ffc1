----------------------------- MODULE MyPermissions -----------------------------
(***************************************************************************)
(* The screen of one's own permissions (useMyPermissions, with the shared  *)
(* tree SharedTreeView): schemas, the tables of an opened schema, and the  *)
(* columns of a chosen table.  Everything is read again when the work role *)
(* or the display language changes, and what is kept of an earlier reading *)
(* is hidden by its key: language and key may come back.                   *)
(*                                                                         *)
(* The version of an answer is the work role it was computed for: each     *)
(* switch on the server makes a new one.  One schema with one table.  Of   *)
(* the readings that a later one replaced only those of the schemas are    *)
(* kept, and one: the others change nothing.  MaxVersion bounds the        *)
(* switches.                                                               *)
(***************************************************************************)
EXTENDS Requests

CONSTANTS
  Languages, NotKnown,
  MaxMyChanges   \* bound: how often the language changes or the schemas are asked for again

MyPermissionsAssumption == NotKnown \notin Languages /\ MaxMyChanges \in Nat

VARIABLES
  myServer,   \* the work role on the server
  told,       \* this tab has been told of the last switch
  myChanges,    \* how often that was
  mySwitch,     \* the switch of this tab, until the work role is read again after it
  shell,      \* what the work role and the language of the shell are, with attempt: the key of everything read
  top, topReads,         \* the schemas and their readings
  expansion, tree, childReads, tables,  \* the opened schema, its tables in the tree, their readings, and the tables by their id
  chosen, columns, columnReads          \* the selection, its columns and their readings

myVars == <<myServer, told, myChanges, mySwitch, shell, top, topReads, expansion, tree, childReads, tables, chosen, columns, columnReads>>

Keys == [settled : BOOLEAN, role : Versions \cup {NotKnown}, revision : Versions, language : Languages, attempt : 0..MaxMyChanges]
NoData == [version |-> 0, language |-> NotKnown]
Data == {NoData} \cup [version : Versions, language : Languages]
\* A reading and the data of its answer: of the work role when it was sent, or of one since.
MyReading(key) == [mine |-> TRUE, since |-> myServer, key |-> key]
Answers(q) == {[version |-> v, language |-> q.key.language] : v \in q.since..myServer}
Superseded(reads) == {[q EXCEPT !.mine = FALSE] : q \in {r \in reads : r.mine}}
MyWanted(reads) == \E q \in reads : q.mine

Pending == top.key # shell
View == IF Pending THEN "loading" ELSE top.view
TreeShown == View = "ready"
Opened == expansion.key = shell /\ expansion.open
selected == IF chosen.key = shell THEN chosen.id ELSE "none"
\* The columns shown: those of the selection, read under the key of now.
columnsState == IF columns.key = shell /\ columns.id = selected THEN columns.status ELSE "none"

-----------------------------------------------------------------------------
NotLoaded == [status |-> "notLoaded", data |-> NoData]
\* The tree after a change: it keeps the children it read while it stays mounted on the same schemas, and reads those of an opened one.
Tree(s, t, e, kids, fresh) ==
  LET shown == t.key = s /\ t.view = "ready"
      base == IF shown /\ TreeShown /\ ~fresh THEN kids ELSE NotLoaded
  IN  tree' = IF shown /\ e.key = s /\ e.open /\ base.status = "notLoaded" THEN [NotLoaded EXCEPT !.status = "loading"] ELSE base

\* The state after a change, with the effects of the render: the schemas are read under a new key, the children as the tree asks.
\* Children of a tree that is gone count while the schemas are of their reading, among the tables.
Rendered(s, t, e, kids, kidReads, reads, fresh) ==
  LET asks == s.settled /\ s # shell
      shown == t.key = s /\ t.view = "ready"
      same == shown /\ TreeShown /\ ~fresh
      kept == IF asks THEN {} ELSE IF same THEN kidReads ELSE Superseded(kidReads)
      loads == shown /\ e.key = s /\ e.open /\ (same => kids.status = "notLoaded")
  IN  /\ shell' = s /\ top' = t /\ expansion' = e /\ Tree(s, t, e, kids, fresh)
      /\ topReads' = IF asks THEN Superseded(reads) \cup {MyReading(s)} ELSE reads
      /\ childReads' = IF loads THEN kept \cup {MyReading(s)} ELSE kept
NewKey(s) ==
  /\ Rendered(s, top, expansion, tree, childReads, topReads, FALSE)
  /\ tables' = IF s.settled /\ s # shell THEN NoData ELSE tables
  /\ UNCHANGED <<chosen, columns, columnReads>>

FirstKey(language) == [settled |-> FALSE, role |-> NotKnown, revision |-> 0, language |-> language, attempt |-> 0]
NoKey == [FirstKey(NotKnown) EXCEPT !.settled = TRUE]
MyInit ==
  /\ myServer = 0 /\ told = TRUE /\ myChanges = 0 /\ mySwitch = "none" /\ \E l \in Languages : shell = FirstKey(l)
  /\ top = [key |-> NoKey, view |-> "loading", data |-> NoData] /\ topReads = {}
  /\ expansion = [key |-> NoKey, open |-> FALSE] /\ tree = NotLoaded /\ childReads = {} /\ tables = NoData
  /\ chosen = [key |-> NoKey, id |-> "none", node |-> NoData] /\ columns = [key |-> NoKey, id |-> "none", status |-> "none", data |-> NoData]
  /\ columnReads = {}

-----------------------------------------------------------------------------
(* The shell: the work role is read, switched and read again; the display language changes. *)
RoleSettles ==
  /\ ~shell.settled /\ NewKey([shell EXCEPT !.settled = TRUE, !.role = myServer])
  /\ UNCHANGED <<myServer, told, myChanges, mySwitch>>
SwitchTo ==
  /\ shell.settled /\ mySwitch = "none" /\ mySwitch' = "sent"
  /\ UNCHANGED <<myServer, told, myChanges, shell, top, topReads, expansion, tree, childReads, tables, chosen, columns, columnReads>>
SwitchServed ==
  /\ mySwitch = "sent" /\ myServer < MaxVersion /\ mySwitch' = "served" /\ myServer' = myServer + 1 /\ told' = FALSE
  /\ UNCHANGED <<myChanges, shell, top, topReads, expansion, tree, childReads, tables, chosen, columns, columnReads>>
\* The role of the shell changes only when it is read again: the revision is what tells the screen.
MySwitchAnswered ==
  /\ mySwitch = "served" /\ shell.revision < MaxVersion
  /\ NewKey([shell EXCEPT !.revision = @ + 1]) /\ mySwitch' = "reread" /\ told' = TRUE /\ UNCHANGED <<myServer, myChanges>>
SwitchRejected ==
  /\ mySwitch = "sent" /\ shell.revision < MaxVersion
  /\ NewKey([shell EXCEPT !.revision = @ + 1]) /\ mySwitch' = "reread" /\ UNCHANGED <<myServer, told, myChanges>>
SwitchLost ==
  /\ mySwitch \in {"sent", "served"} /\ mySwitch' = "reread"
  /\ UNCHANGED <<myServer, told, myChanges, shell, top, topReads, expansion, tree, childReads, tables, chosen, columns, columnReads>>
RoleReread ==
  /\ mySwitch = "reread" /\ mySwitch' = "none" /\ told' = TRUE /\ NewKey([shell EXCEPT !.role = myServer]) /\ UNCHANGED <<myServer, myChanges>>
RoleRereadFails ==
  /\ mySwitch = "reread" /\ mySwitch' = "none"
  /\ UNCHANGED <<myServer, told, myChanges, shell, top, topReads, expansion, tree, childReads, tables, chosen, columns, columnReads>>
MyLanguageChanges ==
  /\ myChanges < MaxMyChanges /\ myChanges' = myChanges + 1 /\ \E l \in Languages \ {shell.language} : NewKey([shell EXCEPT !.language = l])
  /\ UNCHANGED <<myServer, told, mySwitch>>

-----------------------------------------------------------------------------
(* The schemas *)
retryMine ==
  /\ View = "load-error" /\ myChanges < MaxMyChanges /\ myChanges' = myChanges + 1 /\ NewKey([shell EXCEPT !.attempt = @ + 1])
  /\ UNCHANGED <<myServer, told, mySwitch>>
MySchemasRead(q) ==
  /\ UNCHANGED <<myServer, told, myChanges, mySwitch, tables, chosen, columns, columnReads>>
  /\ \E view \in {"ready", "no-role", "empty"}, data \in Answers(q) :
       IF q.mine THEN Rendered(shell, [key |-> q.key, view |-> view, data |-> data], expansion, tree, childReads, topReads \ {q}, TRUE)
       ELSE topReads' = topReads \ {q} /\ UNCHANGED <<shell, top, expansion, tree, childReads>>
MySchemasFail(q) ==
  /\ UNCHANGED <<myServer, told, myChanges, mySwitch, tables, chosen, columns, columnReads>>
  /\ IF q.mine THEN Rendered(shell, [key |-> q.key, view |-> "load-error", data |-> NoData], expansion, tree, childReads, topReads \ {q}, TRUE)
     ELSE topReads' = topReads \ {q} /\ UNCHANGED <<shell, top, expansion, tree, childReads>>

(* The tree *)
toggle ==
  /\ TreeShown /\ Rendered(shell, top, [key |-> shell, open |-> ~Opened], tree, childReads, topReads, FALSE)
  /\ UNCHANGED <<myServer, told, myChanges, mySwitch, tables, chosen, columns, columnReads>>
retryChildren ==
  /\ TreeShown /\ Opened /\ tree.status = "failed"
  /\ tree' = [NotLoaded EXCEPT !.status = "loading"] /\ childReads' = childReads \cup {MyReading(shell)}
  /\ UNCHANGED <<myServer, told, myChanges, mySwitch, shell, top, topReads, expansion, tables, chosen, columns, columnReads>>
ChildrenRead(q) ==
  /\ childReads' = childReads \ {q}
  /\ \/ \E data \in Answers(q) : tables' = data /\ tree' = IF q.mine THEN [status |-> "loaded", data |-> data] ELSE tree
     \/ tree' = (IF q.mine THEN [NotLoaded EXCEPT !.status = "failed"] ELSE tree) /\ UNCHANGED tables
  /\ UNCHANGED <<myServer, told, myChanges, mySwitch, shell, top, topReads, expansion, chosen, columns, columnReads>>

(* The columns *)
selectSchema ==
  /\ TreeShown /\ chosen' = [key |-> shell, id |-> "schema", node |-> top.data]
  /\ UNCHANGED <<myServer, told, myChanges, mySwitch, shell, top, topReads, expansion, tree, childReads, tables, columns, columnReads>>
selectTable ==
  /\ TreeShown /\ Opened /\ tree.status = "loaded"
  /\ chosen' = [key |-> shell, id |-> "table", node |-> tables]
  /\ columns' = [key |-> shell, id |-> "table", status |-> "loading", data |-> NoData] /\ columnReads' = {MyReading(shell)}
  /\ UNCHANGED <<myServer, told, myChanges, mySwitch, shell, top, topReads, expansion, tree, childReads, tables>>
MyColumnsRead(q) ==
  /\ columnReads' = {}
  /\ \/ \E data \in Answers(q) : columns' = [key |-> q.key, id |-> "table", status |-> "loaded", data |-> data]
     \/ columns' = [key |-> q.key, id |-> "table", status |-> "failed", data |-> NoData]
  /\ UNCHANGED <<myServer, told, myChanges, mySwitch, shell, top, topReads, expansion, tree, childReads, tables, chosen>>

MyNext ==
  \/ RoleSettles \/ SwitchTo \/ SwitchServed \/ MySwitchAnswered \/ SwitchRejected \/ SwitchLost \/ RoleReread \/ RoleRereadFails \/ MyLanguageChanges
  \/ retryMine \/ toggle \/ retryChildren \/ selectSchema \/ selectTable
  \/ (\E q \in topReads : MySchemasRead(q) \/ MySchemasFail(q)) \/ (\E q \in childReads : ChildrenRead(q)) \/ (\E q \in columnReads : MyColumnsRead(q))

MySpec == MyInit /\ [][MyNext]_myVars

-----------------------------------------------------------------------------
\* Types, with the ties of the tree: it has children only while it is shown.
MyTypeOK ==
  /\ myServer \in Versions /\ told \in BOOLEAN /\ myChanges \in 0..MaxMyChanges /\ mySwitch \in {"none", "sent", "served", "reread"} /\ shell \in Keys
  /\ top.view \in {"loading", "ready", "no-role", "empty", "load-error"} /\ top.data \in Data
  /\ tree.status \in {"notLoaded", "loading", "loaded", "failed"} /\ (tree.status = "loaded") = (tree.data # NoData)
  /\ tree.status # "notLoaded" => TreeShown
  /\ tables \in Data /\ chosen.id \in {"none", "schema", "table"} /\ (chosen.id = "none") = (chosen.node = NoData)
  /\ columns.status \in {"none", "loading", "loaded", "failed"} /\ (columns.status = "loaded") = (columns.data # NoData)

\* Of what is shown as loading an answer is awaited: of the schemas, of the opened schema and of the chosen table.
LoadingIsAwaited ==
  /\ shell.settled /\ View = "loading" => MyWanted(topReads)
  /\ TreeShown /\ tree.status = "loading" => MyWanted(childReads)
  /\ columnsState = "loading" => MyWanted(columnReads)

\* useMyPermissions.ts: what was read for another work role or in another language is thrown away.  Once this tab knows of the last switch,
\* the schemas, the tables, the selection and the columns on the screen are all of the work role of now and in the language of now.
OneRoleIsShown ==
  LET now == [version |-> myServer, language |-> shell.language]
  IN  told => /\ View \in {"ready", "no-role", "empty"} => top.data = now
              /\ TreeShown /\ tree.status = "loaded" => tree.data = now
              /\ TreeShown /\ selected # "none" => chosen.node = now
              /\ TreeShown /\ columnsState = "loaded" => columns.data = now
==============================================================================
