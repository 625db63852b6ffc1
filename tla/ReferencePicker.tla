---------------------------- MODULE ReferencePicker ----------------------------
(***************************************************************************)
(* The dialog that looks up the value of a column (LookupField,            *)
(* LookupPickerDialog, useLookupSearch, pickerSearch): conditions are      *)
(* typed and checked, a page of rows is asked for, and one is picked, which *)
(* goes into the form as any entry does (RowForm).                         *)
(***************************************************************************)
EXTENDS DateTimes

CONSTANTS
  SearchFields,      \* what the definition lets search by: column -> "instant", "number" or "contains"
  Typed,             \* the texts typed, besides the empty, the unreadable and the overlong one
  Zone,              \* the display time zone once it is read
  PICKER_PAGE_SIZE,  \* the rows of a page
  MaxPage            \* the last page asked for

VARIABLES
  dialog,   \* LookupPickerDialog with useLookupSearch; None while it is closed
  zone      \* the display time zone, None until it is read

pickerVars == <<dialog, zone>>

Cols == DOMAIN SearchFields
PickerTexts == Typed \cup {Empty, Bad, Long}
State(k) == [kind |-> k, page |-> 0, rows |-> 0, hasNext |-> FALSE, of |-> None]
NoConditions == [c \in {} |-> Empty]
Nothing == [c \in Cols |-> None]

\* last: what was asked last; before: the state to return to; chosen: ghost, the texts the choices were made for
PickerOpened ==
  [state |-> State("initial"), inputs |-> [c \in Cols |-> Empty], errors |-> Nothing, overlaps |-> {}, choices |-> Nothing,
   chosen |-> Nothing, last |-> None, before |-> State("initial")]
searching == dialog.state.kind = "searching"

PickerInit == dialog = None /\ zone = None

-----------------------------------------------------------------------------
(* pickerSearch *)
resolve(c) == resolveDateTimeInput("instant", dialog.inputs[c], zone, "equals", dialog.choices[c])
buildPickerConditions == {c \in Cols : dialog.inputs[c] # Empty}
PickerError(c) ==
  IF dialog.inputs[c] = Empty THEN None
  ELSE IF dialog.inputs[c] = Long THEN "too-long"
  ELSE CASE SearchFields[c] = "instant" -> IF resolve(c).kind = "ok" THEN None ELSE dateTimeErrorReason(resolve(c))
         [] SearchFields[c] = "number" -> IF dialog.inputs[c] = Bad THEN "invalid-value" ELSE None
         [] SearchFields[c] = "contains" -> None
Wire(c) == IF SearchFields[c] = "instant" THEN resolve(c).wire ELSE dialog.inputs[c]
validatePickerInputs ==
  IF buildPickerConditions = {} THEN [kind |-> "empty", errors |-> Nothing, conditions |-> NoConditions]
  ELSE IF \E c \in Cols : PickerError(c) # None THEN [kind |-> "errors", errors |-> [c \in Cols |-> PickerError(c)], conditions |-> NoConditions]
  ELSE [kind |-> "ok", errors |-> Nothing, conditions |-> [c \in buildPickerConditions |-> Wire(c)]]

\* The pager: an empty page beyond the first leads back; the number of rows counts one more when there is a next page.
pickerPaging(page, rows, hasNext) ==
  IF rows = 0 THEN [backTo |-> IF page >= 2 THEN page - 1 ELSE None, total |-> 0]
  ELSE [backTo |-> None, total |-> (page - 1) * PICKER_PAGE_SIZE + rows + (IF hasNext THEN 1 ELSE 0)]
\* The pages the pager of a table offers besides the one it shows.
PagesOffered ==
  LET p == pickerPaging(dialog.state.page, dialog.state.rows, dialog.state.hasNext)
      pages == (p.total + PICKER_PAGE_SIZE - 1) \div PICKER_PAGE_SIZE
  IN  CASE dialog.state.kind = "results" -> {dialog.state.page - 1, dialog.state.page + 1} \cap 1..pages
        [] dialog.state.kind = "no-results" -> {p.backTo} \ {None}
        [] OTHER -> {}

-----------------------------------------------------------------------------
Open == dialog = None /\ dialog' = PickerOpened /\ UNCHANGED zone
Close == dialog # None /\ dialog' = None /\ UNCHANGED zone
ZoneRead == zone = None /\ zone' = Zone /\ UNCHANGED dialog

setPickerInput(c, text) ==
  dialog' = [dialog EXCEPT !.inputs[c] = text, !.overlaps = @ \ {c}, !.choices[c] = None, !.chosen[c] = None]
PickerType(c, text) ==
  /\ dialog # None /\ (SearchFields[c] = "instant" => zone # None) /\ text # dialog.inputs[c]
  /\ setPickerInput(c, text) /\ UNCHANGED zone
setOverlapChoice(c, choice) ==
  /\ dialog # None /\ c \in dialog.overlaps /\ choice # dialog.choices[c]
  /\ dialog' = [dialog EXCEPT !.choices[c] = choice, !.chosen[c] = dialog.inputs[c], !.errors[c] = None] /\ UNCHANGED zone
checkPickerOverlap(c) ==
  /\ dialog # None /\ SearchFields[c] = "instant" /\ dialog.inputs[c] # Empty /\ zone # None
  /\ dialog' = [dialog EXCEPT !.overlaps = IF resolve(c).overlap = None THEN @ \ {c} ELSE @ \cup {c}] /\ UNCHANGED zone

\* A search is under way until it is answered: no other is sent.
run(d, conditions, page, before) ==
  dialog' = [d EXCEPT !.state = [State("searching") EXCEPT !.page = page], !.before = before, !.last = [conditions |-> conditions, page |-> page]]

submit ==
  /\ dialog # None /\ ~searching /\ UNCHANGED zone
  /\ LET v == validatePickerInputs
     IN  CASE v.kind = "empty" -> dialog' = [dialog EXCEPT !.errors = Nothing, !.state = State("empty-condition")]
           [] v.kind = "errors" -> dialog' = [dialog EXCEPT !.errors = v.errors,
                                                            !.overlaps = @ \cup {c \in Cols : v.errors[c] = "DATE_TIME_OVERLAP"}]
           [] v.kind = "ok" -> run([dialog EXCEPT !.errors = Nothing], v.conditions, 1,
                                   IF dialog.state.kind = "empty-condition" THEN State("initial") ELSE dialog.state)
goToPage(page) ==
  /\ dialog # None /\ ~searching /\ page \in PagesOffered /\ page <= MaxPage
  /\ run(dialog, dialog.last.conditions, page, dialog.state) /\ UNCHANGED zone
retry ==
  /\ dialog # None /\ dialog.state.kind = "failed"
  /\ run(dialog, dialog.last.conditions, dialog.last.page, dialog.state) /\ UNCHANGED zone

\* of: ghost, the conditions the rows answer
RowsFound(rows, hasNext) ==
  /\ dialog # None /\ searching /\ UNCHANGED zone /\ (hasNext => rows = PICKER_PAGE_SIZE /\ dialog.last.page < MaxPage)
  /\ dialog' = [dialog EXCEPT !.state = [kind |-> IF rows > 0 THEN "results" ELSE "no-results", page |-> dialog.last.page,
                                         rows |-> rows, hasNext |-> hasNext, of |-> dialog.last.conditions],
                                !.before = State("initial")]
\* 400 on a field of the dialog: what was shown before is shown again, with the error.
ConditionsRefused(fields) ==
  /\ dialog # None /\ searching /\ UNCHANGED zone
  /\ dialog' = [dialog EXCEPT !.errors = [c \in Cols |-> IF c \in fields THEN "invalid-value" ELSE None], !.state = dialog.before,
                                !.before = State("initial")]
SearchFails(k) ==
  /\ dialog # None /\ searching /\ UNCHANGED zone
  /\ dialog' = [dialog EXCEPT !.state = State(k), !.before = State("initial")]

Pick == dialog # None /\ dialog.state.kind = "results" /\ dialog' = None /\ UNCHANGED zone

PickerNext ==
  \/ Open \/ Close \/ ZoneRead \/ submit \/ retry \/ Pick
  \/ \E c \in Cols : checkPickerOverlap(c) \/ (\E t \in PickerTexts : PickerType(c, t)) \/ (\E o \in {"earlier", "later"} : setOverlapChoice(c, o))
  \/ (\E p \in 1..MaxPage : goToPage(p)) \/ (\E rows \in 0..PICKER_PAGE_SIZE, next \in BOOLEAN : RowsFound(rows, next))
  \/ (\E fields \in (SUBSET Cols) \ {{}} : ConditionsRefused(fields)) \/ (\E k \in {"failed", "denied"} : SearchFails(k))

PickerSpec == PickerInit /\ [][PickerNext]_pickerVars

-----------------------------------------------------------------------------
\* Types, with the ties of the dialog: what is shown or retried was asked for, and on the page it was asked for.
PickerTypeOK ==
  /\ zone \in {None, Zone}
  /\ dialog # None =>
       /\ dialog.state.kind \in {"initial", "empty-condition", "searching", "results", "no-results", "failed", "denied"}
       /\ dialog.state.kind \in {"searching", "results", "no-results", "failed"} => dialog.last # None
       /\ dialog.state.kind = "searching" => dialog.state.page = dialog.last.page
       /\ (dialog.state.kind = "results") = (dialog.state.rows > 0)
       /\ dialog.before.kind \notin {"searching", "empty-condition"}
       /\ \A c \in Cols : dialog.choices[c] # None => c \in dialog.overlaps /\ SearchFields[c] = "instant"

\* The choice between the two times a condition may mean is the one made for the text that is in the field.
PickerChoiceIsForTheText == dialog # None => \A c \in Cols : dialog.choices[c] # None => dialog.chosen[c] = dialog.inputs[c]

\* A page of rows with a next one offers it, and one after the first offers the page before (the pager counts rows, the answer does not).
EveryPageIsReached ==
  dialog # None /\ dialog.state.kind \in {"results", "no-results"} =>
    /\ dialog.state.hasNext => dialog.state.page + 1 \in PagesOffered
    /\ dialog.state.page > 1 => dialog.state.page - 1 \in PagesOffered

\* What is asked anew is every condition that is filled in, and none of them is one that cannot be read or is too long.
AsksForWhatIsFilledStep ==
  dialog # None /\ dialog' # None /\ dialog'.last # None /\ (dialog.last = None \/ dialog'.last.conditions # dialog.last.conditions) =>
    /\ DOMAIN dialog'.last.conditions = {c \in Cols : dialog.inputs[c] # Empty} /\ dialog'.last.page = 1
    /\ \A c \in DOMAIN dialog'.last.conditions : SearchFields[c] # "contains" => dialog.inputs[c] \notin {Long, Bad}
AsksForWhatIsFilled == [][AsksForWhatIsFilledStep]_pickerVars

\* pickerSearch.ts: paging carries over the conditions that were made for the search whose pages it turns.
\* The code does not keep it: see the README.
PagesTheSameSearchStep ==
  dialog # None /\ dialog' # None /\ dialog.state.kind = "results" /\ searching' /\ dialog'.last.page # 1 =>
    dialog'.last.conditions = dialog.state.of
PagesTheSameSearch == [][PagesTheSameSearchStep]_pickerVars
==============================================================================
