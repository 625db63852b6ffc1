----------------------------- MODULE TableScreens -----------------------------
(***************************************************************************)
(* The list and the detail of a table's rows (BusinessDataListPage,        *)
(* BusinessDataDetailPage) over the memory the screens share               *)
(* (businessDataStore).  The definition of a table is read with the rights *)
(* of a work role; the server says of each answer whether the definition   *)
(* it was asked with is still the one that holds.                          *)
(*                                                                         *)
(* Every operation ends in Rendered: the memory follows the work role, and *)
(* the effects of the hooks send the readings that have become due.        *)
(***************************************************************************)
EXTENDS Naturals, FiniteSets

CONSTANTS Tables, Roles, Absent, MaxChanges
TablesAssumption == MaxChanges \in Nat /\ Absent \notin Tables \cup Roles

VARIABLES
  served,  \* the server's work role, its revision of the DSL, and how often either changed
  role,    \* the work role this tab knows; None while it is being read
  store,   \* businessDataStore
  page     \* the page and its hooks

tableVars == <<served, role, store, page>>

Definitions == [role : Roles, version : 0..MaxChanges]
\* The state of a list: the default one, or one with a condition on a column, which even revisions have.
Questions == {"default", "filtered"}
sanitizeListState(l, d) == IF d.version % 2 = 1 THEN "default" ELSE l

\* lists and tokens carry the role they were put under (a ghost); a list that is not kept or is the default one is None.
EmptyStore == [defs |-> [t \in Tables |-> Absent], lists |-> [t \in Tables |-> Absent], tokens |-> [t \in Tables |-> Absent], last |-> Absent]
MutKeepsRole(s, r) == s
syncWorkRole(s, r) == IF s.last \notin {Absent, r} THEN EmptyStore ELSE s
saveDefinition(s, t, d, r) == [s EXCEPT !.defs[t] = d, !.last = r]
saveListState(s, t, l, r) == [s EXCEPT !.lists[t] = IF l = "default" THEN Absent ELSE [list |-> l, by |-> r], !.last = r]
putRowKey(s, t, r) == [s EXCEPT !.tokens[t] = r, !.last = r]
forgetDefinition(s, t) == [s EXCEPT !.defs[t] = Absent]
readDefinition(s, t, r) == IF s.defs[t] # Absent /\ s.defs[t].role = r THEN s.defs[t] ELSE Absent

\* A page just mounted.  told: ghost, the server has said the definition changed.  unseen: ghost, a deletion reported here
\* is not in the rows read.
Mounted(v, t, tok) ==
  [view |-> v, table |-> t, token |-> tok, defn |-> "idle", own |-> Absent, told |-> FALSE, asked |-> Absent, inflight |-> {}, result |-> Absent,
   row |-> Absent, phase |-> "confirm", unknown |-> FALSE, sent |-> Absent, refused |-> "no", unseen |-> FALSE]

-----------------------------------------------------------------------------
(* What the hooks return *)
Cached(p, s, r) == IF r = Absent \/ p.view = "away" THEN Absent ELSE readDefinition(s, p.table, r)
Definition(p, s, r) == IF Cached(p, s, r) # Absent THEN Cached(p, s, r) ELSE p.own
ListState(p, s, d) == sanitizeListState(IF s.lists[p.table] = Absent THEN "default" ELSE s.lists[p.table].list, d)

\* The question the page now asks: rows of the list, or the row of the token.
Key(p, s, r) ==
  LET d == Definition(p, s, r)
  IN  IF d = Absent \/ (p.view = "row" /\ p.token = Absent) THEN Absent
      ELSE [table |-> p.table, role |-> r, def |-> d, of |-> IF p.view = "list" THEN ListState(p, s, d) ELSE "row"]

MutKeepsReads(p, k) == [p EXCEPT !.asked = k, !.inflight = @ \cup {k}]
ask(p, k) == [p EXCEPT !.asked = k, !.inflight = {k}]
\* Two effects: the definition when nothing holds it, the rows when the question has changed.
Effects(p, s, r) ==
  LET q == IF r # Absent /\ p.view # "away" /\ p.defn = "idle" /\ Cached(p, s, r) = Absent THEN [p EXCEPT !.defn = "reading"] ELSE p
      k == Key(q, s, r)
  IN  IF k = Absent THEN [q EXCEPT !.asked = Absent, !.inflight = {}] ELSE IF q.asked = k THEN q ELSE ask(q, k)

\* A row whose token is no longer known: the list in its place.
Rendered(p, s, r) ==
  LET s1 == IF r = Absent \/ p.view = "away" THEN s ELSE syncWorkRole(s, r)
      p1 == IF s1 = s THEN p ELSE [p EXCEPT !.token = Absent]
      p2 == IF p1.view = "row" /\ r # Absent /\ p1.token = Absent THEN Mounted("list", p1.table, Absent) ELSE p1
  IN  store' = s1 /\ page' = Effects(p2, s1, r) /\ role' = r

Now(p) == Key(p, store, role)
Shown == page.result # Absent /\ ~page.result.old /\ page.result.key = Now(page)
keptPage(k) == page.result # Absent /\ page.result.key.table = k.table /\ page.result.key.role = k.role /\ page.result.page
Busy == ~Shown \/ (~page.result.page /\ ~page.result.failed)
\* BusinessDataListPage and BusinessDataDetailPage show their content.
ContentShown ==
  /\ page.view # "away" /\ Now(page) # Absent /\ ~(Shown /\ page.result.failed)
  /\ page.view = "row" => ~Busy

-----------------------------------------------------------------------------
TableInit ==
  /\ served \in [role : Roles, version : {0}, changes : {0}] /\ role = Absent /\ store = EmptyStore
  /\ \E t \in Tables : page = Mounted("away", t, Absent)

\* The DSL is applied; the work role is switched, here or in another tab.
Applied ==
  served.changes < MaxChanges /\ served' = [served EXCEPT !.version = @ + 1, !.changes = @ + 1] /\ UNCHANGED <<role, store, page>>
Switched ==
  /\ served.changes < MaxChanges /\ \E r \in Roles \ {served.role} : served' = [served EXCEPT !.role = r, !.changes = @ + 1]
  /\ UNCHANGED <<role, store, page>>
\* This tab reads its work role (after a switch of its own, a refusal, a change of the menu).
RoleHeard ==
  /\ role # served.role /\ Rendered([page EXCEPT !.defn = "idle", !.own = Absent], store, served.role) /\ UNCHANGED served
\* The login scope ends: clearBusinessDataStore, and the page is unmounted.
LoginEnds ==
  /\ page.view # "away" /\ store' = EmptyStore /\ role' = Absent /\ page' = Mounted("away", page.table, Absent) /\ UNCHANGED served

\* Along the menu, a link or the browser's history.  The page stays mounted between two addresses of its own.
Navigate(v, t, tok) ==
  /\ <<v, t>> # <<page.view, page.table>> \/ page.sent # Absent \/ page.refused # "no"
  /\ v # "row" => tok = Absent
  /\ Rendered(IF v = page.refused THEN [page EXCEPT !.table = t]
              ELSE IF v = page.view /\ v # "away"
              THEN [page EXCEPT !.table = t, !.token = tok, !.defn = IF t = page.table THEN @ ELSE "idle", !.own = IF t = page.table THEN @ ELSE Absent, !.told = FALSE, !.unseen = FALSE,
                                !.sent = IF @ = Absent THEN @ ELSE [@ EXCEPT !.there = FALSE]]
              ELSE Mounted(v, t, tok), store, role)
  /\ UNCHANGED served

-----------------------------------------------------------------------------
(* useTableDefinition *)
DefinitionRead ==
  /\ page.defn = "reading"
  /\ LET d == [role |-> served.role, version |-> served.version]
     IN  Rendered([page EXCEPT !.defn = "read", !.own = d, !.told = FALSE], saveDefinition(store, page.table, d, role), role)
  /\ UNCHANGED served
DefinitionFails == page.defn = "reading" /\ Rendered([page EXCEPT !.defn = "failed", !.own = Absent], store, role) /\ UNCHANGED served
retryDefinition == page.defn = "failed" /\ Rendered([page EXCEPT !.defn = "idle", !.own = Absent], store, role) /\ UNCHANGED served

\* onDefinitionStale: the page with the definition forgotten.
reload(p) == Rendered([p EXCEPT !.defn = "idle", !.own = Absent, !.told = TRUE], forgetDefinition(store, p.table), role)

(* useRowSearch and useRowDetail *)
Changed(k) == k.def # [role |-> served.role, version |-> served.version]
Answered(k, read, fails) ==
  [page EXCEPT !.inflight = @ \ {k}, !.unseen = @ /\ ~read, !.result = [key |-> k, old |-> FALSE, page |-> read, failed |-> fails, rejected |-> FALSE]]
RowsRead(k) ==
  /\ k \in page.inflight /\ UNCHANGED served
  /\ IF Changed(k) THEN reload(Answered(k, TRUE, FALSE)) ELSE Rendered(Answered(k, TRUE, FALSE), store, role)
\* 400 or 413: the definition has changed, or the conditions do not do; the rows of the list read before stay.
RowsRejected(k) ==
  /\ k \in page.inflight /\ page.view = "list" /\ UNCHANGED served
  /\ LET p == [Answered(k, FALSE, FALSE) EXCEPT !.result.page = keptPage(k), !.unseen = page.unseen]
     IN  Rendered([p EXCEPT !.result.rejected = TRUE], store, role) \/ (Changed(k) /\ reload(p))
RowsFail(k) == k \in page.inflight /\ Rendered(Answered(k, FALSE, TRUE), store, role) /\ UNCHANGED served
\* The question is asked again; the answer shown belongs to the last time it was asked.
Again(p) == [p EXCEPT !.asked = Absent, !.result = IF @ = Absent THEN @ ELSE [@ EXCEPT !.old = TRUE]]
retryRows ==
  /\ page.view # "away" /\ Shown /\ page.result.failed /\ Rendered(Again(page), store, role) /\ UNCHANGED served

-----------------------------------------------------------------------------
(* BusinessDataListPage behind no dialog *)
PageFree == ContentShown /\ page.row = Absent
setListState(l) ==
  /\ PageFree /\ page.view = "list" /\ l # Now(page).of /\ Rendered(page, saveListState(store, page.table, l, role), role) /\ UNCHANGED served
\* The row's key is put under a token, the state of the list (with the element to return to) beside it.
onOpenRow ==
  /\ PageFree /\ page.view = "list" /\ keptPage(Now(page)) /\ UNCHANGED served
  /\ Rendered(Mounted("row", page.table, role), saveListState(putRowKey(store, page.table, role), page.table, Now(page).of, role), role)
\* The form of the row, entered with its token and left for the row, the list or another page.
onEditRow ==
  /\ PageFree /\ page.view = "list" /\ keptPage(Now(page)) /\ UNCHANGED served
  /\ Rendered(Mounted("away", page.table, Absent), saveListState(putRowKey(store, page.table, role), page.table, Now(page).of, role), role)

-----------------------------------------------------------------------------
(* useRowDeleteFlow *)
openDeletion ==
  /\ PageFree /\ (page.view = "row" \/ keptPage(Now(page))) /\ UNCHANGED served
  /\ Rendered([page EXCEPT !.row = page.table, !.phase = "confirm", !.unknown = FALSE], store, role)

DialogShown == page.row # Absent /\ Definition(page, store, role) # Absent
NoDialog(p) == [p EXCEPT !.row = Absent, !.phase = "confirm", !.unknown = FALSE]
cancelDeletion == DialogShown /\ page.sent = Absent /\ Rendered(NoDialog(page), store, role) /\ UNCHANGED served
\* The entry offered when the outcome is unknown: the list read again, or gone to.
onCheck ==
  /\ DialogShown /\ page.sent = Absent /\ page.unknown /\ page.phase = "confirm" /\ UNCHANGED served
  /\ Rendered(IF page.view = "list" THEN Again(NoDialog(page)) ELSE Mounted("list", page.table, Absent), store, role)
confirmDeletion ==
  /\ DialogShown /\ page.sent = Absent /\ UNCHANGED served
  /\ Rendered(IF page.unknown /\ page.phase = "confirm" THEN [page EXCEPT !.phase = "maybe"]
              ELSE [page EXCEPT !.sent = [of |-> page.row, from |-> page.table, there |-> TRUE]], store, role)

\* The answer when the page it was sent from is still there.  Deleted: the list is read again, or gone to from the row.
Here == page.sent # Absent /\ page.sent.there
onDeleted(p) == IF p.view = "list" THEN [Again(NoDialog(p)) EXCEPT !.unseen = TRUE] ELSE Mounted("list", p.table, Absent)
Deleted == Here /\ Rendered(onDeleted([page EXCEPT !.sent = Absent]), store, role) /\ UNCHANGED served
DeletionUnknown ==
  Here /\ Rendered([page EXCEPT !.sent = Absent, !.unknown = TRUE, !.phase = "confirm"], store, role) /\ UNCHANGED served
\* The refusal stands in place of the page, whatever its hooks still read, until the page is unmounted.
DeletionForbidden ==
  Here /\ Rendered([Mounted("away", page.table, Absent) EXCEPT !.refused = page.view], store, role) /\ UNCHANGED served
\* Not saved: a message in the dialog; the definition is read again when it has changed.
DeletionRejected ==
  /\ Here /\ UNCHANGED served
  /\ LET p == [page EXCEPT !.sent = Absent, !.unknown = FALSE, !.phase = "confirm"]
     IN  Rendered(p, store, role) \/ (Definition(page, store, role) # [role |-> served.role, version |-> served.version] /\ reload(p))
\* The page was left after the sending: nothing but the end of the sending is heard.
DeletionUnheard ==
  /\ page.sent # Absent /\ ~page.sent.there /\ Rendered([page EXCEPT !.sent = Absent], store, role) /\ UNCHANGED served

-----------------------------------------------------------------------------
TableNext ==
  \/ Applied \/ Switched \/ RoleHeard \/ LoginEnds
  \/ Navigate("away", page.table, Absent)
  \/ \E t \in Tables : Navigate("list", t, Absent) \/ Navigate("row", t, store.tokens[t])
  \/ DefinitionRead \/ DefinitionFails \/ retryDefinition
  \/ \E k \in page.inflight : RowsRead(k) \/ RowsRejected(k) \/ RowsFail(k)
  \/ retryRows \/ \E l \in Questions : setListState(l)
  \/ onOpenRow \/ onEditRow
  \/ openDeletion \/ cancelDeletion \/ onCheck \/ confirmDeletion
  \/ Deleted \/ DeletionUnknown \/ DeletionForbidden \/ DeletionRejected \/ DeletionUnheard

TableSpec == TableInit /\ [][TableNext]_tableVars

-----------------------------------------------------------------------------
Asks == [table : Tables, role : Roles, def : Definitions, of : Questions \cup {"row"}]
\* Types, with the ties between a page's hooks: a question is in flight only for the definition held, a definition is
\* read only when none is held, and one deletion at most is confirmed and sent.
TableTypeOK ==
  /\ served \in [role : Roles, version : 0..MaxChanges, changes : 0..MaxChanges] /\ role \in Roles \cup {Absent}
  /\ store.defs \in [Tables -> Definitions \cup {Absent}] /\ store.tokens \in [Tables -> Roles \cup {Absent}] /\ store.last \in Roles \cup {Absent}
  /\ \A t \in Tables : store.lists[t] = Absent \/ store.lists[t] \in [list : Questions, by : Roles]
  /\ page.view \in {"list", "row", "away"} /\ page.table \in Tables /\ page.token \in Roles \cup {Absent}
  /\ page.defn \in {"idle", "reading", "failed", "read"} /\ page.own \in Definitions \cup {Absent} /\ page.asked \in Asks \cup {Absent}
  /\ page.inflight \subseteq {page.asked} /\ page.asked = Now(page)
  /\ page.result = Absent \/ page.result \in [key : Asks, old : BOOLEAN, page : BOOLEAN, failed : BOOLEAN, rejected : BOOLEAN]
  /\ page.row \in Tables \cup {Absent} /\ page.phase \in {"confirm", "maybe"} /\ {page.told, page.unknown, page.unseen} \subseteq BOOLEAN
  /\ page.sent = Absent \/ page.sent \in [of : Tables, from : Tables, there : BOOLEAN]
  /\ page.defn = "reading" => Definition(page, store, role) = Absent
  /\ page.refused \in {"no", "list", "row"} /\ (page.refused # "no" => page.view = "away")
  /\ page.phase = "maybe" => page.unknown
  /\ page.sent # Absent => page.row = page.sent.of

\* What the page uses of the memory was put there under the work role it now has (businessDataStore).
MemoryIsOfTheRole ==
  page.view # "away" /\ role # Absent =>
    /\ Cached(page, store, role) # Absent => Cached(page, store, role).role = role
    /\ \A t \in Tables : store.lists[t] = Absent \/ store.lists[t].by = role
    /\ page.token \in {Absent, role}

\* A definition the server has called changed is asked nothing more with until it has been read again.
ToldMeansReread == page.told /\ page.view # "away" => Definition(page, store, role) = Absent /\ Now(page) = Absent

\* Rows kept on the screen as being read again are being read again, and a screen that waits for the definition reads it.
WaitsForAnAnswer ==
  page.view # "away" /\ role # Absent =>
    /\ Definition(page, store, role) = Absent => page.defn \in {"reading", "failed"}
    /\ Now(page) # Absent /\ Busy /\ (page.result = Absent \/ keptPage(Now(page))) => page.inflight # {}

\* Once the screen has said a row is deleted, no rows read before are shown as the current ones,
\* but under the message that the conditions were rejected.
DeletedIsSeen == page.unseen /\ Shown /\ page.inflight = {} => page.result.failed \/ page.result.rejected

\* useRowSearch: busy is "読み直しの最中か" (whether the rows are being read).
\* The code does not keep it: see the README.
BusyMeansReading == page.view = "list" /\ Now(page) # Absent /\ Busy => page.inflight # {}

\* DeleteConfirmModal: the heading asks whether "<table> <row>" is to be deleted, the table being that of the row.
\* The code does not keep it: see the README.
DeletesFromItsTable == page.sent # Absent => page.sent.of = page.sent.from
==============================================================================
