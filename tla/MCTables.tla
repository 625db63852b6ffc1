------------------------------- MODULE MCTables -------------------------------
(* The pages of the business data for TLC, the calculations and the bodies    *)
(* they rest on, and the writes of the server: one of them is there at a      *)
(* time.  The writes have variables of their own, at rest in the other parts; *)
(* the other parts keep theirs in asked, body, shown and v4 to v12.           *)
EXTENDS DateTimes, Calculations, ApiBodies, TableBodies, RowWritesProofs, TLC

CONSTANTS
  Parts,  \* those this run is about
  MaxChanges, MaxAccessChanges, MaxRow, t1, t2, r1, r2, c1, c2, a

VARIABLES part, v4, v5, v6, v7, v8, v9, v10, v11, v12

slots == <<asked, body, shown, v4, v5, v6, v7, v8, v9, v10, v11, v12>>
vars == <<part, slots, rowWriteVars>>
\* The places a part with n variables does not use.
Unused(n) ==
  /\ (n < 2 => body = 0) /\ (n < 3 => shown = 0) /\ (n < 4 => v4 = 0) /\ (n < 5 => v5 = 0) /\ (n < 6 => v6 = 0)
  /\ (n < 7 => v7 = 0) /\ (n < 8 => v8 = 0) /\ (n < 9 => v9 = 0) /\ (n < 10 => v10 = 0) /\ (n < 11 => v11 = 0) /\ (n < 12 => v12 = 0)

MCTables == {t1, t2}   \* two tables, or two requests to write
MCRoles == {r1, r2}
KeysReferredTo == {a}
Symmetry == Permutations(MCTables) \cup Permutations(MCRoles)

\* Zones of which an hour, or two, are skipped or repeated.
SkippedOrRepeated == {[at |-> 6, before |-> 2, after |-> 0], [at |-> 6, before |-> 0, after |-> 2]}
RepeatedHours == [at |-> 6, before |-> 2, after |-> 0]
PickerFields == [at |-> "instant", no |-> "number"]

\* Columns of a form: each type with the rules that meet in it.
NoCells(c) == {}
Cells == INSTANCE FormRules WITH
  FormColumns <- {}, FieldInputs <- NoCells, Stored <- NoCells, FieldZone <- RepeatedHours, column <- asked, entry <- body
Chosen1 == Cells!Number(FALSE, <<1>>, <<>>)
Ruled(c) == {[c EXCEPT !.required = r, !.nullable = n] : r, n \in BOOLEAN}
NumberColumns ==
  UNION {Ruled([Cells!PlainFormColumn(m, "DECIMAL") EXCEPT !.precision = 2, !.scale = s, !.min = Cells!Number(TRUE, <<1>>, <<>>)])
         : m \in {"create", "update"}, s \in {0, 1, 2}}
    \cup {[Cells!PlainFormColumn("update", ty) EXCEPT !.max = Chosen1] : ty \in {"INTEGER", "DECIMAL"}}
    \cup {[Cells!PlainFormColumn("update", ty) EXCEPT !.max = Chosen1, !.part = "select", !.choices = {Chosen1, Cells!Number(FALSE, <<1, 0>>, <<>>)}]
          : ty \in {"INTEGER", "DECIMAL"}}
OtherColumns ==
  UNION {Ruled([Cells!PlainFormColumn(m, "STRING") EXCEPT !.minLength = mi, !.maxLength = 2, !.masked = mk, !.truncated = tr])
         : m \in {"create", "update"}, mi \in {None, 2}, mk, tr \in BOOLEAN}
    \cup UNION {Ruled([Cells!PlainFormColumn(m, "BOOLEAN") EXCEPT !.part = p]) : m \in {"create", "update"}, p \in {"checkbox", "other"}}
    \cup UNION {Ruled([Cells!PlainFormColumn(m, "STRING") EXCEPT !.minLength = 2, !.pattern = TRUE]) : m \in {"create", "update"}}
    \cup UNION {Ruled(Cells!PlainFormColumn(m, ty)) : m \in {"create", "update"}, ty \in {"BINARY", "OTHER", "DATE"}}
    \cup UNION {Ruled([Cells!PlainFormColumn(m, "STRING") EXCEPT !.reference = r, !.options = {Cells!Word(1)}, !.editable = e])
                : m \in {"create", "update"}, r \in {"options", "lookup", "denied"}, e \in BOOLEAN}
\* Texts of a date or time, with a fraction of the second that may end in a zero.
Moments == {Cells!Moment(3), Cells!Moment(6), Cells!Moment(7), Cells!MomentWith(3, <<0>>), Cells!MomentWith(3, <<1, 0>>), Cells!MomentWith(6, <<0, 1>>)}
TextsOfMoments == Moments \cup {Cells!Shaped, Cells!Unshaped(<<>>), Cells!Unshaped(<<1>>)}
TimeColumns ==
  UNION {Ruled([Cells!PlainFormColumn(m, ty) EXCEPT !.fraction = f])
         : m \in {"create", "update"}, ty \in {"DATETIME", "DATETIME_TZ", "TIME", "TIME_TZ"}, f \in {None, 0, 1}}
    \cup {[Cells!PlainFormColumn(m, ty) EXCEPT !.fraction = f, !.part = "select", !.choices = TextsOfMoments]
          : m \in {"create", "update"}, ty \in {"DATETIME", "DATETIME_TZ"}, f \in {None, 1}}
ColumnsOfForms == NumberColumns \cup OtherColumns \cup TimeColumns
Numbers ==
  {Cells!Number(n, i, f) : n \in BOOLEAN, i \in {<<>>, <<0>>, <<1>>, <<0, 1>>, <<1, 0>>}, f \in {<<>>, <<0>>, <<1>>, <<1, 0>>, <<0, 1>>}}
    \ {Cells!Number(n, <<>>, <<>>) : n \in BOOLEAN}
InputsOf(c) ==
  {Cells!Blank} \cup CASE c \in NumberColumns -> Numbers \cup {Cells!Word(1)}
                       [] c.type = "BOOLEAN" -> {Cells!Truth(TRUE), Cells!Truth(FALSE), Cells!Word(1)}
                       [] c.type = "DATE" -> {Cells!Moment(3), Cells!Shaped, Cells!Unshaped(<<>>), Cells!Word(1)}
                       [] c \in TimeColumns -> TextsOfMoments \cup {Cells!Word(1)}
                       [] OTHER -> {Cells!Word(n) : n \in 1..3}
StoredOf(c) ==
  {Cells!NullValue} \cup CASE c \in NumberColumns -> {Chosen1}
                           [] c.type = "BOOLEAN" -> {Cells!Truth(TRUE)}
                           [] c.type = "DATE" -> {Cells!Moment(4)}
                           [] c \in TimeColumns -> {Cells!Moment(4), Cells!MomentWith(4, <<0, 1>>)}
                           [] OTHER -> {Cells!Word(2)}

\* Tables of a key and another column, the rows of which the second has no name.
AccessColumn(kinds, lists, details) == [kind : kinds, list : lists, detail : details]
TablesAccessed ==
  {[view |-> v, key |-> key, configured |-> cf, columns |-> (c1 :> x @@ c2 :> y)] :
     v \in BOOLEAN, cf \in BOOLEAN, key \in {{}, {c1}},
     x \in AccessColumn({"STRING", "PASSWORD", "DATETIME_TZ", "BINARY"}, BOOLEAN, {TRUE}),
     y \in AccessColumn({"STRING", "REFERENCE"}, {TRUE}, BOOLEAN)}
RowsAccessed == {(c1 :> "v" @@ c2 :> "w"), (c1 :> "" @@ c2 :> None)}
GrantsAccessed ==
  [readable : {TRUE}, create : {TRUE}, delete : {TRUE}, main : {(c1 :> x @@ c2 :> y) : x \in {"NONE", "READ"}, y \in {"READ", "FULL"}}]

Tab == INSTANCE TableScreens WITH
  Tables <- MCTables, Roles <- MCRoles, Absent <- None, served <- asked, role <- body, store <- shown,
  page <- v4

Row == INSTANCE RowForm WITH
  mode <- asked, held <- body, defn <- shown, row <- v4, form <- v5, save <- v6, asking <- v7, clean <- v8,
  notice <- v9, edited <- v10, confirmed <- v11

Search == INSTANCE SearchForm WITH
  Zones <- SkippedOrRepeated, Walls <- {6}, Default <- 8, LastHour <- 12, field <- asked, time <- body,
  kept <- shown, panel <- v4, answer <- v5

Picker == INSTANCE ReferencePicker WITH
  SearchFields <- PickerFields, Typed <- {6}, Zone <- RepeatedHours, PICKER_PAGE_SIZE <- 1, MaxPage <- 2,
  LastHour <- 12, dialog <- asked, zone <- body

Rules == INSTANCE FormRules WITH
  FormColumns <- ColumnsOfForms, FieldInputs <- InputsOf, Stored <- StoredOf, FieldZone <- RepeatedHours,
  LastHour <- 12, column <- asked, entry <- body

Access == INSTANCE TableAccess WITH
  ColumnNames <- <<c1, c2>>, AccessTables <- TablesAccessed, Rows <- RowsAccessed,
  Grants <- GrantsAccessed, Unset <- None, dsl <- asked, grants <- body, accessChanges <- shown,
  accessPage <- v4, known <- v5, keptDefinition <- v6, accessRow <- v7, values <- v8, accessTime <- v9,
  askedAccess <- v10, told <- v11

Labels == INSTANCE ReferenceLabels WITH
  Columns <- {c1, c2, a}, LABEL_READ_CONCURRENCY <- 2, MaxBuilds <- 2, items <- asked, current <- body,
  results <- shown, old <- v4

Call == INSTANCE ApiCalls WITH
  stage <- asked, call <- body, chosen <- shown, request <- v4, apiAnswer <- v5

question == asked
TextsOfTimes == 0..LastHour \cup {Empty}
Years == {4, 100, 1600, 1896, 1899, 1900, 1904, 1996, 1999, 2000, 2001, 2100}
ZonesAsked == [at : {20, 23}, before : {-2, 0, 1, 14}, after : {-2, 0, 1, 14, 24}]

ASSUME Tab!TablesAssumption /\ Row!RowFormAssumption /\ RowAssumption

-----------------------------------------------------------------------------
\* A question about a calculation and its answer.
AskYear == \E y \in Years : asked' = <<"year", y>>
AskText == \E n \in 0..4 : \E t \in [1..n -> Units] : asked' = <<"text", t>>
AskTime == \E z \in ZonesAsked, t \in TextsOfTimes : asked' = <<"time", z, t>>
AskPage == \E p \in 1..MAX_PAGE, n \in 0..14, s \in 1..3 : asked' = <<"page", p, n, s>>
AnswerQuestion == question # <<"none">> /\ asked' = <<"none">>
Questions == AnswerQuestion \/ (question = <<"none">> /\ (AskYear \/ AskTime \/ AskPage))
TextQuestions == AnswerQuestion \/ (question = <<"none">> /\ AskText)

\* No request of the server is under way, and none will be.
WritesRest ==
  /\ constraints = {} /\ asks = [r \in Requests |-> [op |-> "create", value |-> a]]
  /\ RowWritesInit

Init ==
  /\ part \in Parts
  /\ part # "writes" => WritesRest
  /\ \/ part = "tables" /\ Tab!TableInit /\ Unused(4)
     \/ part = "form" /\ Row!RowFormInit /\ Unused(11)
     \/ part = "search" /\ Search!SearchFormInit /\ Unused(5)
     \/ part = "picker" /\ Picker!PickerInit /\ Unused(2)
     \/ part = "rules" /\ Rules!FormRulesInit /\ Unused(2)
     \/ part = "access" /\ Access!TableAccessInit /\ Unused(11)
     \/ part = "bodies" /\ ApiInit /\ Unused(3)
     \/ part = "tableBodies" /\ TableBodyInit /\ Unused(3)
     \/ part = "writes" /\ RowWritesInit /\ asked = 0 /\ Unused(1)
     \/ part = "labels" /\ Labels!LabelsInit /\ Unused(4)
     \/ part = "calls" /\ Call!ApiCallsInit /\ Unused(5)
     \/ part \in {"questions", "texts"} /\ question = <<"none">> /\ Unused(1)

PageNext ==
  \/ part = "tables" /\ Tab!TableNext /\ UNCHANGED <<v5, v6, v7, v8, v9, v10, v11, v12>>
  \/ part = "form" /\ Row!RowFormNext /\ UNCHANGED <<v12>>
  \/ part = "search" /\ Search!SearchFormNext /\ UNCHANGED <<v6, v7, v8, v9, v10, v11, v12>>
  \/ part = "picker" /\ Picker!PickerNext /\ UNCHANGED <<shown, v4, v5, v6, v7, v8, v9, v10, v11, v12>>
  \/ part = "rules" /\ Rules!FormRulesNext /\ UNCHANGED <<shown, v4, v5, v6, v7, v8, v9, v10, v11, v12>>
  \/ part = "access" /\ Access!TableAccessNext /\ UNCHANGED <<v12>>
  \/ part = "bodies" /\ ApiNext /\ UNCHANGED <<v4, v5, v6, v7, v8, v9, v10, v11, v12>>
  \/ part = "tableBodies" /\ TableBodyNext /\ UNCHANGED <<v4, v5, v6, v7, v8, v9, v10, v11, v12>>
  \/ part = "labels" /\ Labels!LabelsNext /\ UNCHANGED <<v5, v6, v7, v8, v9, v10, v11, v12>>
  \/ part = "calls" /\ Call!ApiCallsNext /\ UNCHANGED <<v6, v7, v8, v9, v10, v11, v12>>
  \/ part = "questions" /\ Questions /\ UNCHANGED <<body, shown, v4, v5, v6, v7, v8, v9, v10, v11, v12>>
  \/ part = "texts" /\ TextQuestions /\ UNCHANGED <<body, shown, v4, v5, v6, v7, v8, v9, v10, v11, v12>>

Next ==
  \/ PageNext /\ UNCHANGED <<part, rowWriteVars>>
  \/ part = "writes" /\ RowWritesNext /\ UNCHANGED <<part, slots>>

Spec == Init /\ [][Next]_vars

-----------------------------------------------------------------------------
\* Types, with the ties between a page, the calls it has in flight, its dialogs and what is
\* kept beside it.
TablesTypeOK ==
  /\ part = "tables" => Tab!TableTypeOK
  /\ part = "form" => Row!RowFormTypeOK
  /\ part = "search" => Search!SearchFormTypeOK
  /\ part = "picker" => Picker!PickerTypeOK
  /\ part = "labels" => Labels!LabelsTypeOK

\* What the pages show was read for the work role, the definition and the form there are now,
\* after the deletions they report; whatever is waited for was asked for, every page of rows
\* can be reached, and a row is created twice only if the user chose so (businessDataStore,
\* useRowSearch, useRowDetail, useReferenceLabels, pickerPaging, paging,
\* BusinessDataFormPage).
PagesFollowTheServer ==
  /\ part = "tables" => Tab!MemoryIsOfTheRole /\ Tab!ToldMeansReread /\ Tab!WaitsForAnAnswer /\ Tab!DeletedIsSeen
  /\ part = "labels" => Labels!EveryColumnHasItsTurn /\ Labels!LabelsAreOfThisForm
  /\ part = "picker" => Picker!EveryPageIsReached
  /\ part = "form" => Row!CreatedOnceOrConfirmed
  /\ part = "questions" /\ question[1] = "page" => CorrectionLandsOnRows(question[2], question[3]) /\ PreviousHasRows(question[2], question[3], question[4])

\* The pages and the server judge a value, a change, a name, a password, a permission, a call
\* and a body alike; what is not offered has its reason said, a list names its rows, and no
\* time is shown before its zone (formValidation, formDiff, WriteRequestValidator,
\* TableAccessPolicy, BusinessDataWriteService, the parsers of the api modules, the
\* controllers).
FormAndServerAgree ==
  /\ part = "rules" => Rules!FormRulesTypeOK /\ Rules!SaysWhatTheServerWould /\ Rules!RequiredIsNeverMissed /\ Rules!LeavingSaysWhatASaveWould /\ Rules!ChangesCanBeSaved /\ Rules!SelectShowsItsValue
  /\ part = "access" => Access!PermittedIsOffered /\ Access!TheReasonIsTold /\ Access!ListNamesItsRows /\ Access!NoTimeBeforeItsZone
  /\ part = "bodies" => ServerIsUnderstood /\ NothingElseGetsIn
  /\ part = "tableBodies" => TablesUnderstood /\ OnlyTablesGetIn
  /\ part = "calls" => Call!EachCallIsHandled /\ Call!SizesAgree
  /\ part = "texts" /\ question[1] = "text" => NamesAreJudgedAlike(question[2]) /\ PasswordsAreJudgedAlike(question[2])

\* A date and time that is typed, chosen, searched for or shown stands for the instant its
\* zone gives it, and the calendar is counted right (civilFromDays, instantCandidates,
\* automaticChoice, searchConditions, SearchPanel, pickerSearch).
TimesMeanWhatIsShown ==
  /\ part = "search" => Search!ChoiceIsForTheText /\ Search!FilledIsAskedOrSaid /\ Search!DefaultAsksForItself
  /\ part = "picker" => Picker!PickerChoiceIsForTheText
  /\ part = "questions" /\ question[1] = "year" => CalendarCounts(question[2])
  /\ part = "questions" /\ question[1] = "time" => /\ ReadsWhatIsShown(question[2], question[3])
                                                   /\ \A choice \in {"earlier", "later"} : ChoiceMeansItsOffset(question[2], question[3], choice)
                                                   /\ \A to \in TextsOfTimes : RangeCovers(question[2], question[3], to)

\* What was typed goes only with the form, with a notice, after a question or with the work
\* role, or where the definition held now has no such column; a save sends the form that is
\* shown, and a search of the dialog has every condition filled in (BusinessDataFormPage,
\* useLookupSearch).
EntriesAreKept ==
  [][/\ part = "form" => Row!SavesTheFormShownStep /\ Row!InputSurvivesStep
     /\ part = "picker" => Picker!AsksForWhatIsFilledStep]_vars

\* The server refuses what a page offered only after a change, and a refusal is told as what
\* it is (TableAccessPolicy, BusinessDataWriteService, writeProblemKind).
RefusalsAreExplained ==
  [][part = "access" => Access!RefusedOnlyAfterAChangeStep /\ Access!RefusalSaysWhyStep]_vars

==============================================================================
