------------------------------- MODULE SearchForm -------------------------------
(***************************************************************************)
(* The conditions of a list (SearchPanel, searchConditions): what is typed *)
(* for one column, what is kept of it as the state of the list, and what   *)
(* is asked of the server.  The panel is built anew whenever the kept      *)
(* search or the display time zone is another.                             *)
(***************************************************************************)
EXTENDS DateTimes

CONSTANTS Zones, Walls, Default  \* the zones, the wall clocks typed, and the instant a definition gives as default

VARIABLES
  field,    \* the column's operator, type and default
  time,     \* the display time zone: loading, in error, or a zone
  kept,     \* the search kept for the list; None is the default one
  panel,    \* SearchPanel
  answer    \* what the server said of the conditions now asked

searchFormVars == <<field, time, kept, panel, answer>>

Operators == {"EQUALS", "RANGE", "CONTAINS", "CHOICE"}
Types == {"DATETIME_TZ", "DATETIME", "INTEGER", "STRING"}
Texts == Walls \cup {Empty, Bad, Long}
Options == {"yes", "no"}
OffsetChoices == {"earlier", "later"}
\* chosen: ghost, the text the choice was made for
EmptyInput == [value |-> Empty, from |-> Empty, to |-> Empty, values |-> {}, choice |-> None, chosen |-> None]
zoneName == IF time.status = "ready" THEN time.zone ELSE None
dateTime == IF field.operator \in {"EQUALS", "RANGE"} THEN dateTimeKindOf(field.type) ELSE None

-----------------------------------------------------------------------------
(* searchConditions *)
\* The default of a column of instants is written as the zone shows it.
defaultText == IF field.operator \in {"EQUALS", "RANGE"} /\ dateTimeKindOf(field.type) = "instant"
               THEN (IF zoneName = None THEN Empty ELSE formatInstantForInput(Default, zoneName)) ELSE Default
defaultSearchInputs ==
  IF ~field.default THEN EmptyInput
  ELSE CASE field.operator = "RANGE" -> [EmptyInput EXCEPT !.from = defaultText]
         [] field.operator = "CHOICE" -> [EmptyInput EXCEPT !.values = {"yes"}]
         [] OTHER -> [EmptyInput EXCEPT !.value = defaultText]

isReadableAs(text) == field.type = "STRING" \/ text # Bad
isReversed(from, to) == from > to
isFilled(input) ==
  CASE field.operator = "RANGE" -> input.from # Empty \/ input.to # Empty
    [] field.operator = "CHOICE" -> input.values # {}
    [] OTHER -> input.value # Empty

NoCondition == [of |-> "none", value |-> None, from |-> None, to |-> None, values |-> {}, error |-> "none"]
Error(reason) == [NoCondition EXCEPT !.of = "error", !.error = reason]
\* One value of a date and time: what is sent of it.
resolveDateTimeValue(text, purpose, choice) == resolveDateTimeInput(dateTime, text, zoneName, purpose, choice)
resolveRange(input) ==
  LET filled == {input.from, input.to} \ {Empty}
      f == IF input.from = Empty THEN Resolution("ok", None, None) ELSE resolveDateTimeValue(input.from, "range-from", None)
      t == IF input.to = Empty THEN Resolution("ok", None, None) ELSE resolveDateTimeValue(input.to, "range-to", None)
      from == IF dateTime # None THEN f.wire ELSE IF input.from = Empty THEN None ELSE input.from
      to == IF dateTime # None THEN t.wire ELSE IF input.to = Empty THEN None ELSE input.to
  IN  CASE filled = {} -> NoCondition
        [] Long \in filled -> Error("TOO_LONG")
        [] Long \notin filled /\ dateTime # None /\ f.kind # "ok" -> Error(dateTimeErrorReason(f))
        [] Long \notin filled /\ dateTime # None /\ f.kind = "ok" /\ t.kind # "ok" -> Error(dateTimeErrorReason(t))
        [] dateTime = None /\ Long \notin filled /\ \E x \in filled : ~isReadableAs(x) -> Error("INVALID_VALUE")
        [] OTHER -> IF field.type # "STRING" /\ None \notin {from, to} /\ isReversed(from, to) THEN Error("RANGE_REVERSED")
                    ELSE [NoCondition EXCEPT !.of = "range", !.from = from, !.to = to]
resolveEquals(input) ==
  LET r == resolveDateTimeValue(input.value, "equals", input.choice)
  IN  CASE input.value = Empty -> NoCondition
        [] input.value = Long -> Error("TOO_LONG")
        [] dateTime = None /\ input.value \notin {Empty, Long} ->
             IF isReadableAs(input.value) THEN [NoCondition EXCEPT !.of = "value", !.value = input.value] ELSE Error("INVALID_VALUE")
        [] dateTime # None /\ input.value \notin {Empty, Long} ->
             IF r.kind = "ok" THEN [NoCondition EXCEPT !.of = "value", !.value = r.wire] ELSE Error(dateTimeErrorReason(r))
resolveField(input) ==
  CASE field.operator = "CHOICE" -> IF input.values = {} THEN NoCondition ELSE [NoCondition EXCEPT !.of = "values", !.values = input.values]
    [] field.operator = "CONTAINS" -> IF input.value = Empty THEN NoCondition ELSE IF input.value = Long THEN Error("TOO_LONG")
                                      ELSE [NoCondition EXCEPT !.of = "value", !.value = input.value]
    [] field.operator = "RANGE" -> resolveRange(input)
    [] field.operator = "EQUALS" -> resolveEquals(input)
\* buildConditions leaves out what is in error.
buildConditions(input) == IF resolveField(input).of = "error" THEN NoCondition ELSE resolveField(input)
validateSearchInputs(input) == resolveField(input).error

-----------------------------------------------------------------------------
(* SearchPanel *)
search == IF kept = None THEN defaultSearchInputs ELSE kept
equalsOverlap(input) ==
  field.operator = "EQUALS" /\ dateTime = "instant" /\ input.value # Empty /\ zoneName # None
    /\ resolveDateTimeValue(input.value, "equals", input.choice).overlap # None
storedDateTimeErrors(input) ==
  IF dateTimeKindOf(field.type) # None /\ validateSearchInputs(input) \in {"DATE_TIME_FORMAT", "DATE_TIME_GAP", "DATE_TIME_OVERLAP"}
  THEN validateSearchInputs(input) ELSE "none"
\* client: "null" before a submission and after one without errors; typed: ghost, something was typed or chosen since.
SearchMounted(input) == [draft |-> input, stored |-> storedDateTimeErrors(input), overlap |-> equalsOverlap(input), client |-> "null", typed |-> FALSE]
errorOf ==
  IF panel.client # "null" THEN panel.client ELSE IF panel.stored # "none" THEN panel.stored
  ELSE IF answer = "refused" THEN "SERVER" ELSE "none"
isDateTimeUsable == dateTime # "instant" \/ time.status = "ready"

SearchFormInit ==
  /\ field \in [operator : Operators, type : Types, default : BOOLEAN]
  /\ field.operator \in {"EQUALS", "RANGE"} \/ field.type \in {"STRING", "INTEGER"}
  /\ time = [status |-> "loading", zone |-> None] /\ kept = None /\ panel = SearchMounted(defaultSearchInputs) /\ answer = "none"

\* The display time zone is read, or is another after a save of the preferences.
TimeZoneRead(t) ==
  /\ time # t /\ time' = t /\ UNCHANGED <<field, kept>>
  /\ panel' = SearchMounted(search)' /\ answer' = "none"

update(next) == panel' = [panel EXCEPT !.draft = next, !.typed = TRUE] /\ UNCHANGED <<field, time, kept, answer>>
\* A date and time typed drops the choice made for the one before, and what was said of it.
updateDateTime(next) ==
  /\ panel' = [panel EXCEPT !.draft = [next EXCEPT !.choice = None, !.chosen = None],
                            !.overlap = FALSE, !.stored = "none", !.typed = TRUE]
  /\ UNCHANGED <<field, time, kept, answer>>
Type(next) == isDateTimeUsable /\ next # panel.draft /\ IF dateTime # None THEN updateDateTime(next) ELSE update(next)
typeValue(t) == field.operator \in {"EQUALS", "CONTAINS"} /\ Type([panel.draft EXCEPT !.value = t])
typeFrom(t) == field.operator = "RANGE" /\ Type([panel.draft EXCEPT !.from = t])
typeTo(t) == field.operator = "RANGE" /\ Type([panel.draft EXCEPT !.to = t])
check(o) ==
  /\ field.operator = "CHOICE"
  /\ update([panel.draft EXCEPT !.values = IF o \in @ THEN @ \ {o} ELSE @ \cup {o}])
checkOverlap ==
  /\ panel.overlap # equalsOverlap(panel.draft) /\ panel' = [panel EXCEPT !.overlap = equalsOverlap(panel.draft)]
  /\ UNCHANGED <<field, time, kept, answer>>
onOverlapChoice(c) ==
  /\ panel.overlap /\ isDateTimeUsable /\ c # panel.draft.choice
  /\ panel' = [panel EXCEPT !.draft.choice = c, !.draft.chosen = panel.draft.value, !.client = IF @ = "null" THEN @ ELSE "none",
                            !.typed = TRUE]
  /\ UNCHANGED <<field, time, kept, answer>>

handleSubmit ==
  /\ UNCHANGED <<field, time>>
  /\ IF validateSearchInputs(panel.draft) # "none"
     THEN /\ panel' = [panel EXCEPT !.client = validateSearchInputs(panel.draft),
                                    !.overlap = IF validateSearchInputs(panel.draft) = "DATE_TIME_OVERLAP" THEN equalsOverlap(panel.draft) ELSE @]
          /\ UNCHANGED <<kept, answer>>
     ELSE IF panel.draft = search
     THEN panel' = [panel EXCEPT !.client = "null"] /\ UNCHANGED <<kept, answer>>
     ELSE kept' = panel.draft /\ panel' = SearchMounted(panel.draft) /\ answer' = "none"
handleClear == kept' = EmptyInput /\ panel' = SearchMounted(EmptyInput) /\ answer' = "none" /\ UNCHANGED <<field, time>>

\* The answer to the conditions now asked.
SearchAnswered(a) == answer = "none" /\ answer' = a /\ UNCHANGED <<field, time, kept, panel>>

SearchFormNext ==
  \/ \E z \in Zones : TimeZoneRead([status |-> "ready", zone |-> z])
  \/ TimeZoneRead([status |-> "error", zone |-> None])
  \/ (\E t \in Texts : typeValue(t) \/ typeFrom(t) \/ typeTo(t)) \/ (\E o \in Options : check(o))
  \/ checkOverlap \/ (\E c \in OffsetChoices : onOverlapChoice(c)) \/ handleSubmit \/ handleClear
  \/ SearchAnswered("rows") \/ SearchAnswered("refused")

SearchFormSpec == SearchFormInit /\ [][SearchFormNext]_searchFormVars

-----------------------------------------------------------------------------
Filled == Texts \cup 0..LastHour
SearchInputs == [value : Filled, from : Filled, to : Filled, values : SUBSET Options, choice : OffsetChoices \cup {None}, chosen : Filled \cup {None}]
\* Types, with the ties of the panel: a choice is made only of a time the zone shows twice.
SearchFormTypeOK ==
  /\ time \in [status : {"loading", "ready", "error"}, zone : Zones \cup {None}] /\ (time.status = "ready") = (time.zone # None)
  /\ panel.draft \in SearchInputs /\ (kept = None \/ kept \in SearchInputs) /\ panel.overlap \in BOOLEAN
  /\ answer \in {"none", "rows", "refused"} /\ (panel.draft.choice = None) = (panel.draft.chosen = None)
  /\ panel.overlap => field.operator = "EQUALS" /\ dateTime = "instant" /\ isDateTimeUsable
  /\ kept # None => field.operator = "EQUALS" \/ kept.choice = None

\* The choice between the two times a text may mean is the one made for that text.
ChoiceIsForTheText == \A i \in {panel.draft, search} : i.choice # None => i.chosen = i.value

\* As long as nothing was typed since the list was asked, what is filled in is asked of the server, or the panel says why it
\* is not (or that there is no time zone); a range that the time zone reversed is StoredErrorsShown's.
FilledIsAskedOrSaid ==
  ~panel.typed /\ isFilled(panel.draft) =>
    \/ buildConditions(panel.draft) # NoCondition
    \/ errorOf # "none"
    \/ time.status # "ready"
    \/ validateSearchInputs(panel.draft) = "RANGE_REVERSED"

\* A default that a definition gives as an instant asks for that instant: by itself or the range from it, or the panel asks which.
DefaultAsksForItself ==
  field.default /\ field.type = "DATETIME_TZ" /\ kept = None /\ zoneName # None /\ field.operator \in {"EQUALS", "RANGE"} =>
    LET c == resolveField(defaultSearchInputs)
    IN  CASE field.operator = "EQUALS" -> c.value = Default \/ c.error = "DATE_TIME_OVERLAP"
          [] field.operator = "RANGE" -> c.of = "range" /\ c.from <= Default

\* The errors of the conditions kept are shown from the start (SearchPanel's comment): a condition that is not asked is
\* never left out in silence.
\* The code does not keep it: see the README.
StoredErrorsShown ==
  ~panel.typed /\ isFilled(panel.draft) /\ time.status = "ready" /\ buildConditions(panel.draft) = NoCondition => errorOf # "none"
==============================================================================
