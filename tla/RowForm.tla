------------------------------- MODULE RowForm -------------------------------
(***************************************************************************)
(* The form a row is created or changed with (BusinessDataFormPage): the   *)
(* definition and the row it is built from, the input kept when it is      *)
(* built again on a new definition, the questions before a move or a       *)
(* switch of the work role, and the save whose outcome may stay unknown.   *)
(***************************************************************************)
EXTENDS Naturals

CONSTANT MaxRow  \* bound on the changes others make to a value

RowFormAssumption == MaxRow \in Nat

VARIABLES
  mode,      \* create or update
  held,      \* the server: its definition, the row, the rows this form created; and whether the work role has changed
  defn,      \* useTableDefinition, read for the purpose
  row,       \* useRowDetail
  form,      \* FormState
  save,      \* the write in flight and what is known of the last one
  asking,    \* the questions on the screen
  clean,     \* markClean has been called for this version of the input
  notice,    \* input was discarded, and the page says so
  edited,    \* ghost: the columns whose input is the user's
  confirmed  \* ghost: the user chose to send again what may have been saved

rowFormVars == <<mode, held, defn, row, form, save, asking, clean, notice, edited, confirmed>>

Columns == {"a", "b"}
Mine == MaxRow + 1       \* what the user types
NoInput == MaxRow + 2    \* the column is no input
Inputs == 0..NoInput
\* Three definitions: what the last one leaves no input for is b.
DefinitionIds == 0..2
NoDefinition == 3
InputColumns(d) == CASE d = NoDefinition -> {} [] d = 2 -> {"a"} [] OTHER -> Columns

NoRow == [state |-> "none", values |-> [c \in Columns |-> 0]]
NoForm == [def |-> NoDefinition, initial |-> [c \in Columns |-> NoInput], current |-> [c \in Columns |-> NoInput]]
NoSave == [busy |-> FALSE, cols |-> {}, def |-> NoDefinition, unknown |-> FALSE]

Opened == form # NoForm
FormDefinition == IF defn.state = "read" THEN defn.def ELSE NoDefinition
Saving == save.busy

-----------------------------------------------------------------------------
\* initialInputs: empty, or the values of the row.
initialInputs(d, values) == [c \in Columns |-> IF c \notin InputColumns(d) THEN NoInput ELSE IF mode = "create" THEN 0 ELSE values[c]]
FirstForm(d, values) == [def |-> d, initial |-> initialInputs(d, values), current |-> initialInputs(d, values)]
\* Built again on another definition: the input of every column that is still one stays.
Rebuilt(d, values) ==
  [FirstForm(d, values) EXCEPT !.current = [c \in Columns |-> IF NoInput \in {@[c], form.current[c]} THEN @[c] ELSE form.current[c]]]
Discards(d) == \E c \in Columns \ InputColumns(d) : form.current[c] # form.initial[c]

\* diffForm and hasFormChanges count the columns of the definition the page holds at this moment, which is none while
\* it is read again and after that failed.
diffForm == {c \in InputColumns(FormDefinition) : form.current[c] # form.initial[c]}
hasFormChanges == diffForm # {}
dirty == Opened /\ hasFormChanges /\ ~clean

\* What the page does while it renders with this definition and this row.
Build(d, r) ==
  IF r.state # "read" /\ mode = "update" THEN UNCHANGED <<form, notice, clean, edited>>
  ELSE IF ~Opened THEN form' = FirstForm(d, r.values) /\ UNCHANGED <<notice, clean, edited>>
  ELSE IF form.def = d THEN UNCHANGED <<form, notice, clean, edited>>
  ELSE form' = Rebuilt(d, r.values) /\ notice' = Discards(d) /\ clean' = FALSE /\ edited' = edited \cap InputColumns(d)

RowFormInit ==
  /\ mode \in {"create", "update"} /\ held = [dsl |-> 0, row |-> [c \in Columns |-> 0], created |-> 0, role |-> FALSE]
  /\ defn = [state |-> "reading", def |-> NoDefinition] /\ row = NoRow /\ form = NoForm /\ save = NoSave
  /\ asking = {} /\ clean = FALSE /\ notice = FALSE /\ edited = {} /\ confirmed = FALSE

\* The page is unmounted.
Gone == defn.state = "gone"
Unmount ==
  /\ defn' = [state |-> "gone", def |-> NoDefinition] /\ row' = NoRow /\ form' = NoForm /\ save' = NoSave
  /\ asking' = {} /\ clean' = FALSE /\ notice' = FALSE /\ edited' = {} /\ UNCHANGED <<mode, confirmed>>

-----------------------------------------------------------------------------
(* The server, and another tab *)
DslApplied ==
  /\ held.dsl = 0 /\ \E n \in 1..2 : held' = [held EXCEPT !.dsl = n]
  /\ UNCHANGED <<mode, defn, row, form, save, asking, clean, notice, edited, confirmed>>
RowChanged(c) ==
  /\ mode = "update" /\ held.row[c] < MaxRow /\ held' = [held EXCEPT !.row[c] = @ + 1]
  /\ UNCHANGED <<mode, defn, row, form, save, asking, clean, notice, edited, confirmed>>

\* The move to the list when the work role has changed.  There is no definition in that render, and so no change to ask about.
WorkRoleChanged == ~Gone /\ Unmount /\ held' = [held EXCEPT !.role = TRUE]

-----------------------------------------------------------------------------
(* Readings *)
Wanted == IF mode = "create" THEN row ELSE [NoRow EXCEPT !.state = "reading"]
FormDefinitionRead ==
  /\ defn.state = "reading" /\ defn' = [state |-> "read", def |-> held.dsl] /\ row' = Wanted /\ Build(held.dsl, Wanted)
  /\ UNCHANGED <<mode, held, save, asking, confirmed>>
FormDefinitionFails ==
  /\ defn.state = "reading" /\ defn' = [state |-> "failed", def |-> NoDefinition]
  /\ UNCHANGED <<mode, held, row, form, save, asking, clean, notice, edited, confirmed>>
retryFormDefinition ==
  /\ defn.state = "failed" /\ asking = {} /\ defn' = [state |-> "reading", def |-> NoDefinition]
  /\ UNCHANGED <<mode, held, row, form, save, asking, clean, notice, edited, confirmed>>

\* onDefinitionStale
Reread == defn' = [state |-> "reading", def |-> NoDefinition] /\ row' = NoRow
Stale == FormDefinition # held.dsl
RowRead ==
  /\ defn.state = "read" /\ row.state = "reading" /\ UNCHANGED <<mode, held, save, asking, confirmed>>
  /\ LET r == [state |-> "read", values |-> held.row]
     IN  IF Stale THEN Reread /\ UNCHANGED <<form, notice, clean, edited>> ELSE row' = r /\ Build(FormDefinition, r) /\ UNCHANGED defn
RowFails ==
  /\ row.state = "reading" /\ row' = [NoRow EXCEPT !.state = "failed"]
  /\ UNCHANGED <<mode, held, defn, form, save, asking, clean, notice, edited, confirmed>>
retryRow ==
  /\ row.state = "failed" /\ defn.state = "read" /\ asking = {} /\ row' = [NoRow EXCEPT !.state = "reading"]
  /\ UNCHANGED <<mode, held, defn, form, save, asking, clean, notice, edited, confirmed>>

-----------------------------------------------------------------------------
(* The user *)
FormShown == Opened /\ defn.state = "read" /\ row.state # "failed" /\ asking = {}
InputOffered(c) == FormShown /\ ~Saving /\ c \in InputColumns(FormDefinition) /\ form.current[c] # NoInput
SaveOffered == FormShown /\ ~Saving /\ diffForm # {}
setInput(c) ==
  /\ InputOffered(c)
  /\ \E v \in {Mine, form.initial[c]} \ {form.current[c]} :
       /\ form' = [form EXCEPT !.current[c] = v]
       /\ edited' = IF v = Mine THEN edited \cup {c} ELSE edited \ {c}
  /\ clean' = FALSE /\ UNCHANGED <<mode, held, defn, row, save, asking, notice, confirmed>>

Sent == save' = [busy |-> TRUE, cols |-> diffForm, def |-> FormDefinition, unknown |-> save.unknown] /\ notice' = FALSE
MutSendsEarly == Sent
\* Nothing is sent without a definition, or for a row that is not read; and nothing is said of it.
send ==
  IF FormDefinition = NoDefinition \/ (mode = "update" /\ row.state # "read") THEN save' = save /\ notice' = FALSE ELSE Sent
saveForm ==
  /\ SaveOffered
  /\ IF save.unknown THEN asking' = {"maybe"} /\ UNCHANGED <<save, notice>> ELSE send /\ UNCHANGED asking
  /\ UNCHANGED <<mode, held, defn, row, form, clean, edited, confirmed>>
sendAgain ==
  /\ "maybe" \in asking /\ asking' = asking \ {"maybe"} /\ confirmed' = TRUE /\ send
  /\ UNCHANGED <<mode, held, defn, row, form, clean, edited>>
cancelMaybe ==
  /\ "maybe" \in asking /\ asking' = asking \ {"maybe"}
  /\ UNCHANGED <<mode, held, defn, row, form, save, clean, notice, edited, confirmed>>

\* Along a link, the menu or the history (which moves under a question, too), and through the switch of the work role:
\* asked about while there are changes.
MoveAway ==
  /\ ~Gone
  /\ IF dirty
     THEN /\ "leave" \notin asking /\ asking' = asking \cup {"leave"}
          /\ UNCHANGED <<mode, held, defn, row, form, save, clean, notice, edited, confirmed>>
     ELSE Unmount /\ UNCHANGED held
SwitchAsked ==
  /\ dirty /\ asking = {} /\ asking' = {"switch"} /\ UNCHANGED <<mode, held, defn, row, form, save, clean, notice, edited, confirmed>>
stay ==
  /\ asking \cap {"leave", "switch"} # {} /\ asking' = asking \ (IF "leave" \in asking THEN {"leave"} ELSE {"switch"})
  /\ UNCHANGED <<mode, held, defn, row, form, save, clean, notice, edited, confirmed>>
leave == "leave" \in asking /\ Unmount /\ UNCHANGED held
\* The switch goes on, with the input taken for clean: it is lost once the role has changed, and kept if it does not.
leaveForSwitch ==
  /\ "switch" \in asking /\ "leave" \notin asking /\ clean' = TRUE /\ asking' = asking \ {"switch"}
  /\ UNCHANGED <<mode, held, defn, row, form, save, notice, edited, confirmed>>

-----------------------------------------------------------------------------
(* The outcome of a save *)
Written ==
  [held EXCEPT !.row = [c \in Columns |-> IF mode = "update" /\ c \in save.cols THEN 0 ELSE @[c]],
               !.created = IF mode = "create" THEN @ + 1 ELSE @]
Saved == Saving /\ held.created < 2 /\ held' = Written /\ Unmount
SaveUnknown ==
  /\ Saving /\ save' = [NoSave EXCEPT !.unknown = TRUE] /\ notice' = FALSE /\ held' \in {held} \cup (IF held.created < 2 THEN {Written} ELSE {})
  /\ UNCHANGED <<mode, defn, row, form, asking, clean, edited, confirmed>>
\* Not saved: messages; the definition is read again when it has changed.
SaveRejected ==
  /\ Saving /\ save' = NoSave
  /\ (Stale /\ Reread) \/ UNCHANGED <<defn, row>>
  /\ UNCHANGED <<mode, held, form, asking, clean, notice, edited, confirmed>>
\* The refusal takes the place of the form and of its input.
SaveForbidden == Saving /\ Unmount /\ UNCHANGED held

RowFormNext ==
  \/ DslApplied \/ (\E c \in Columns : RowChanged(c)) \/ WorkRoleChanged
  \/ FormDefinitionRead \/ FormDefinitionFails \/ retryFormDefinition \/ RowRead \/ RowFails \/ retryRow
  \/ (\E c \in Columns : setInput(c)) \/ saveForm \/ sendAgain \/ cancelMaybe
  \/ MoveAway \/ SwitchAsked \/ stay \/ leave \/ leaveForSwitch
  \/ Saved \/ SaveUnknown \/ SaveRejected \/ SaveForbidden

RowFormSpec == RowFormInit /\ [][RowFormNext]_rowFormVars

-----------------------------------------------------------------------------
\* Types, with the ties between the form and what it is built from.
RowFormTypeOK ==
  /\ mode \in {"create", "update"} /\ held \in [dsl : 0..2, row : [Columns -> 0..MaxRow], created : 0..2, role : BOOLEAN]
  /\ defn \in [state : {"reading", "read", "failed", "gone"}, def : DefinitionIds \cup {NoDefinition}]
  /\ row \in [state : {"none", "reading", "read", "failed"}, values : [Columns -> 0..MaxRow]]
  /\ form \in [def : DefinitionIds \cup {NoDefinition}, initial : [Columns -> Inputs], current : [Columns -> Inputs]]
  /\ save \in [busy : BOOLEAN, cols : SUBSET Columns, def : DefinitionIds \cup {NoDefinition}, unknown : BOOLEAN]
  /\ asking \subseteq {"leave", "switch", "maybe"} /\ {clean, notice, confirmed} \subseteq BOOLEAN /\ edited \subseteq Columns
  /\ \A c \in Columns : (form.initial[c] = NoInput) = (form.current[c] = NoInput)
  /\ (Saving \/ asking # {} => Opened) /\ ("maybe" \in asking => save.unknown)
  /\ (mode = "create" /\ defn.state = "read" => form.def = FormDefinition)
  /\ (Gone => ~Opened) /\ (mode = "create" => row.state = "none")

\* A save is sent under the definition the form shown was built on, for columns that are inputs of it.
SavesTheFormShownStep ==
  ~Saving /\ Saving' => save'.def = form.def /\ save'.cols \subseteq InputColumns(form.def)
SavesTheFormShown == [][SavesTheFormShownStep]_rowFormVars

\* What the user typed leaves the form only by the user's hand, with a message or after a question, with the save, or with
\* the work role.  A move asks for the columns of the definition held now: what was typed into others, or while the
\* definition is read again or has failed, goes unasked.
InputSurvivesStep ==
  \A c \in edited :
    \/ form'.current[c] = form.current[c]
    \/ setInput(c) \/ notice' \/ leave \/ Saved \/ SaveForbidden \/ clean
    \/ held'.role
    \/ MoveAway /\ c \notin InputColumns(FormDefinition)
InputSurvives == [][InputSurvivesStep]_rowFormVars

\* One visit of the form creates a second row only after the user was told that the first may have been saved.
CreatedOnceOrConfirmed == held.created > 1 => confirmed

\* formDiff: "更新: 変えたカラムだけを送る" (an update sends the changed columns only).
\* The code does not keep it: see the README.
SendsOnlyEditsStep ==
  ~Saving /\ Saving' => save'.cols \subseteq edited
SendsOnlyEdits == [][SendsOnlyEditsStep]_rowFormVars
==============================================================================
