------------------------------- MODULE FormRules -------------------------------
(***************************************************************************)
(* The rules of one input of the create and update form (formDiff,         *)
(* formValidation, referenceField), and the rules of the server for the    *)
(* value it sends (WriteRequestValidator, ColumnValueCodec): the form says *)
(* what the server would say, before it is sent, but for what it leaves to *)
(* the server.                                                             *)
(*                                                                         *)
(* A text is a word, of which its length counts, a number with its digits, *)
(* true or false, or a date or time, whose wall clock is its hour, with a  *)
(* fraction of its second.  A text can have the shape of a date or time    *)
(* and be none (30 February, an offset where the type has none), and be    *)
(* one without the shape (a small t, a year of five digits).               *)
(***************************************************************************)
EXTENDS DateTimes, Sequences, SequencesExt

CONSTANTS FormColumns, FieldInputs(_), Stored(_), FieldZone  \* the definitions, what is typed and what is stored under each, the display time zone

VARIABLES
  column,  \* the definition of the column and whether the form creates or updates
  entry    \* the input: as built and as typed, the offset chosen, its error, and whether the error is of leaving the input

formRulesVars == <<column, entry>>

TextColumn(k, n, negative, int, frac, at) == [kind |-> k, length |-> n, negative |-> negative, int |-> int, frac |-> frac, at |-> at]
Blank == TextColumn("empty", 0, FALSE, <<>>, <<>>, Empty)
NullValue == TextColumn("null", 0, FALSE, <<>>, <<>>, Empty)
Word(n) == TextColumn("word", n, FALSE, <<>>, <<>>, Bad)
Number(negative, int, frac) == TextColumn("number", 1, negative, int, frac, Bad)
Truth(b) == TextColumn("boolean", IF b THEN 4 ELSE 5, FALSE, <<>>, <<>>, Bad)
MomentWith(t, frac) == TextColumn("moment", 19, FALSE, <<>>, frac, t)
Moment(t) == MomentWith(t, <<>>)
Shaped == TextColumn("shaped", 19, FALSE, <<>>, <<>>, Bad)
Unshaped(frac) == TextColumn("unshaped", 19, FALSE, <<>>, frac, Bad)

\* A column without rules of its own
PlainFormColumn(mode, type) ==
  [mode |-> mode, type |-> type, required |-> FALSE, nullable |-> TRUE, editable |-> TRUE, truncated |-> FALSE, masked |-> FALSE,
   part |-> "text", reference |-> "none", options |-> {}, choices |-> {}, minLength |-> None, maxLength |-> None,
   precision |-> None, scale |-> None, fraction |-> None, min |-> None, max |-> None, pattern |-> FALSE]

-----------------------------------------------------------------------------
(* referenceField, formDiff *)
isEditable == column.editable /\ (column.mode = "update" => ~column.truncated)
chooseFieldKind ==
  IF ~isEditable THEN (IF column.mode = "create" THEN "hidden" ELSE "locked")
  ELSE CASE column.reference = "none" -> "plain" [] column.reference \in {"denied", "too-many"} -> "reference-readonly"
         [] column.reference = "options" -> "reference-select" [] column.reference = "lookup" -> "lookup"
isReadonlyReference == chooseFieldKind = "reference-readonly"
isRequiredColumn == ~column.nullable \/ column.required
isBlockedRequired == column.mode = "create" /\ isReadonlyReference /\ isRequiredColumn
lockedReferenceColumn == isReadonlyReference

isBooleanInput == column.part \in {"checkbox", "switch"}
dateTimeInputKind == IF column.reference = "none" /\ column.part \in {"text", "datetime"} THEN dateTimeKindOf(column.type) ELSE None
toInputValue(value) ==
  IF column.masked \/ value = NullValue THEN Blank
  ELSE IF dateTimeInputKind = "instant" THEN [value EXCEPT !.at = formatInstantForInput(@, FieldZone)] ELSE value
initialInput(value) ==
  IF ~isEditable THEN Blank
  ELSE IF column.mode = "create" THEN (IF isBooleanInput /\ column.required THEN Truth(FALSE) ELSE Blank) ELSE toInputValue(value)
columnChanged == isEditable /\ ~lockedReferenceColumn /\ entry.initial # entry.current

resolveFormDateTime == resolveDateTimeInput(dateTimeInputKind, entry.current.at, FieldZone, "form", entry.choice)
Resolved == isEditable /\ ~lockedReferenceColumn /\ dateTimeInputKind # None /\ entry.current # Blank
              /\ (column.mode = "update" => entry.current # entry.initial)
\* The fraction of the second is sent as it is typed.
WireOf(r) == [entry.current EXCEPT !.at = r.wire]
toWireValue ==
  IF dateTimeInputKind = None THEN {entry.current} ELSE IF resolveFormDateTime.kind = "ok" THEN {WireOf(resolveFormDateTime)} ELSE {}
\* What is sent of the column: nothing, or one value.
diffColumn ==
  IF ~isEditable \/ lockedReferenceColumn THEN {}
  ELSE IF column.masked \/ column.mode = "create" THEN (IF entry.current = Blank THEN {} ELSE toWireValue)
  ELSE IF entry.current = entry.initial THEN {}
  ELSE IF entry.current = Blank THEN {IF column.type = "STRING" THEN Blank ELSE NullValue} ELSE toWireValue

-----------------------------------------------------------------------------
(* formValidation *)
Significant(digits) == SubSeq(digits, IF SelectInSeq(digits, LAMBDA d : d # 0) = 0 THEN Len(digits) + 1 ELSE SelectInSeq(digits, LAMBDA d : d # 0), Len(digits))
splitDecimal(t) == [negative |-> t.negative, integer |-> Significant(t.int), fraction |-> Reverse(Significant(Reverse(t.frac)))]
Before(s, t) == \E i \in DOMAIN s : s[i] < t[i] /\ \A j \in 1..(i - 1) : s[j] = t[j]
padEnd(s, width) == [i \in 1..width |-> IF i <= Len(s) THEN s[i] ELSE 0]
compareMagnitude(a, b) ==
  LET width == IF Len(a.fraction) > Len(b.fraction) THEN Len(a.fraction) ELSE Len(b.fraction)
      fa == padEnd(a.fraction, width)
      fb == padEnd(b.fraction, width)
  IN  CASE Len(a.integer) # Len(b.integer) -> IF Len(a.integer) < Len(b.integer) THEN -1 ELSE 1
        [] Len(a.integer) = Len(b.integer) /\ a.integer # b.integer -> IF Before(a.integer, b.integer) THEN -1 ELSE 1
        [] a.integer = b.integer -> IF fa = fb THEN 0 ELSE IF Before(fa, fb) THEN -1 ELSE 1
MutForgetsTheSign(a, b) == compareMagnitude(splitDecimal(a), splitDecimal(b))
compareDecimalText(a, b) ==
  LET x == splitDecimal(a)
      y == splitDecimal(b)
      xNegative == x.negative /\ (x.integer # <<>> \/ x.fraction # <<>>)
      yNegative == y.negative /\ (y.integer # <<>> \/ y.fraction # <<>>)
  IN  IF xNegative # yNegative THEN (IF xNegative THEN -1 ELSE 1)
      ELSE IF xNegative THEN -compareMagnitude(x, y) ELSE compareMagnitude(x, y)
tooManyDigits(t) ==
  LET scale == IF column.scale = None THEN 0 ELSE column.scale
  IN  column.precision # None /\ (Len(splitDecimal(t).fraction) > scale \/ Len(splitDecimal(t).integer) > column.precision - scale)
DatesAndTimes == {"DATE", "DATETIME", "DATETIME_TZ", "TIME", "TIME_TZ"}
\* By the shape of the text.
readable(t) ==
  CASE column.type \in {"INTEGER", "BIG_INTEGER"} -> t.kind = "number" /\ t.frac = <<>>
    [] column.type = "DECIMAL" -> t.kind = "number"
    [] column.type = "BOOLEAN" -> t.kind = "boolean"
    [] column.type \in DatesAndTimes -> t.kind \in {"moment", "shaped"}
    [] OTHER -> TRUE
isRequiredInput == IF column.reference # "none" THEN isRequiredColumn ELSE column.required
numeric == column.type \in {"INTEGER", "BIG_INTEGER", "DECIMAL"}
OutOfRange(t) == (column.min # None /\ compareDecimalText(t, column.min) < 0) \/ (column.max # None /\ compareDecimalText(t, column.max) > 0)

validateValue(t) ==
  IF t \in {NullValue, Blank} /\ isRequiredInput THEN "REQUIRED"
  ELSE IF t = NullValue THEN (IF column.nullable THEN "none" ELSE "NOT_NULL")
  ELSE IF t = Blank /\ column.type # "STRING" THEN "INVALID_VALUE"
  ELSE IF isBooleanInput /\ t.kind # "boolean" THEN "INVALID_VALUE"
  ELSE IF column.type = "STRING" /\ column.maxLength # None /\ t.length > column.maxLength THEN "TOO_LONG"
  ELSE IF column.type = "STRING" /\ column.minLength # None /\ t.length \in 1..(column.minLength - 1) THEN "TOO_SHORT"
  ELSE IF column.choices # {} /\ t \notin column.choices THEN "NOT_A_CHOICE"
  ELSE IF ~readable(t) THEN "INVALID_VALUE"
  ELSE IF column.type = "DECIMAL" /\ tooManyDigits(t) THEN "TOO_MANY_DIGITS"
  ELSE IF numeric /\ OutOfRange(t) THEN "OUT_OF_RANGE" ELSE "none"
validateForm ==
  IF ~isEditable \/ lockedReferenceColumn THEN "none"
  ELSE IF Resolved /\ resolveFormDateTime.kind # "ok" THEN dateTimeErrorReason(resolveFormDateTime)
  ELSE IF diffColumn # {} THEN validateValue(CHOOSE t \in diffColumn : TRUE)
  ELSE IF column.mode = "create" /\ isRequiredInput THEN "REQUIRED" ELSE "none"
\* What a save says of the column before it sends anything.
SaveSays == IF isBlockedRequired THEN "REQUIRED" ELSE validateForm

-----------------------------------------------------------------------------
(* WriteRequestValidator, with numbers as BigDecimal counts them, and ColumnValueCodec *)
Power(k) == <<1, 10, 100, 1000, 10000, 100000>>[k + 1]
Digits(s) == FoldLeft(LAMBDA n, d : 10 * n + d, 0, s)
\* A number of at most two decimals, in hundredths.
Hundredths(t) == (IF t.negative THEN -1 ELSE 1) * (100 * Digits(t.int) + Digits(padEnd(t.frac, 2)))
Magnitude(t) == IF Hundredths(t) < 0 THEN -Hundredths(t) ELSE Hundredths(t)
Trailing(n) == Max({k \in 0..4 : n % Power(k) = 0})
\* stripTrailingZeros makes every zero the number 0, of one digit and no decimals.
strippedScale(t) == IF Magnitude(t) = 0 THEN 0 ELSE 2 - Trailing(Magnitude(t))
strippedPrecision(t) == IF Magnitude(t) = 0 THEN 1 ELSE Min({k \in 1..5 : Magnitude(t) \div Power(Trailing(Magnitude(t))) < Power(k)})
PositiveRange(n) == IF n > 0 THEN n ELSE 0
ServerTooManyDigits(t) ==
  LET scale == IF column.scale = None THEN 0 ELSE column.scale
  IN  column.precision # None
        /\ (PositiveRange(strippedScale(t)) > scale \/ PositiveRange(strippedPrecision(t) - strippedScale(t)) > column.precision - scale)
fractionDigits(t) == Max({0} \cup {i \in DOMAIN t.frac : t.frac[i] # 0})
checkRange(t) ==
  IF column.type = "DECIMAL" /\ ServerTooManyDigits(t) THEN "TOO_MANY_DIGITS"
  ELSE IF numeric /\ \/ column.min # None /\ Hundredths(t) < Hundredths(column.min)
                     \/ column.max # None /\ Hundredths(t) > Hundredths(column.max) THEN "OUT_OF_RANGE"
  ELSE IF column.type \in DatesAndTimes \ {"DATE"} /\ column.fraction # None /\ fractionDigits(t) > column.fraction THEN "TOO_MANY_DIGITS"
  ELSE "none"
integral == column.type \in {"INTEGER", "BIG_INTEGER"}
\* The text is a value of the type; inRange: an integer fits the type of the database column.
read(t, inRange) ==
  CASE integral -> t.kind = "number" /\ t.frac = <<>> /\ inRange
    [] column.type = "DECIMAL" -> t.kind = "number"
    [] column.type = "BOOLEAN" -> t.kind = "boolean"
    [] column.type \in DatesAndTimes -> t.kind \in {"moment", "unshaped"}
    [] OTHER -> TRUE
\* matched: what the pattern of the column says of the text, in the time there is for it.
Matches == {"match", "mismatch", "timeout"}
checkInput(t, inRange, matched) ==
  IF t \in {NullValue, Blank} /\ column.required THEN "REQUIRED"
  ELSE IF t = NullValue THEN (IF column.nullable THEN "none" ELSE "NOT_NULL")
  ELSE IF column.type \in {"BINARY", "OTHER"} THEN "NOT_ALLOWED"
  ELSE IF t = Blank /\ column.type # "STRING" THEN "INVALID_VALUE"
  ELSE IF column.part \in {"checkbox", "switch"} /\ t.kind # "boolean" THEN "INVALID_VALUE"
  ELSE IF column.type = "STRING" /\ column.maxLength # None /\ t.length > column.maxLength THEN "TOO_LONG"
  ELSE IF column.type = "STRING" /\ column.minLength # None /\ t.length > 0 /\ t.length < column.minLength THEN "TOO_SHORT"
  ELSE IF column.choices # {} /\ t \notin column.choices THEN "NOT_A_CHOICE"
  ELSE IF column.pattern /\ t # Blank /\ matched # "match" THEN (IF matched = "mismatch" THEN "PATTERN_MISMATCH" ELSE "PATTERN_TIMEOUT")
  ELSE IF ~read(t, inRange) THEN (IF integral /\ t.kind = "number" /\ t.frac = <<>> THEN "OUT_OF_RANGE" ELSE "INVALID_VALUE")
  ELSE checkRange(t)
\* A column that the create request leaves out.
MissingReason == IF column.mode = "create" /\ column.editable /\ column.required THEN "REQUIRED" ELSE "none"

-----------------------------------------------------------------------------
Built(value) == [initial |-> initialInput(value), current |-> initialInput(value), choice |-> None, error |-> "none", left |-> FALSE]
FormRulesInit == column \in FormColumns /\ \E value \in Stored(column) : entry = Built(value)

\* What a select of a reference offers: its options, the saved value where it is none of them, and no value where none is required.
SelectOffers ==
  column.options
    \cup (IF column.mode = "update" /\ entry.initial # Blank THEN {entry.initial} ELSE {})
    \cup (IF isRequiredColumn /\ entry.current # Blank THEN {} ELSE {Blank})
Offered(text) ==
  CASE chooseFieldKind = "plain" -> /\ isBooleanInput => text.kind = "boolean"
                                    /\ column.part = "select" => text \in column.choices \/ (text = Blank /\ (column.required => entry.current = Blank))
    [] chooseFieldKind = "reference-select" -> text \in SelectOffers
    [] chooseFieldKind = "lookup" -> text = Blank => ~isRequiredColumn
    [] OTHER -> FALSE
setColumnInput(text) ==
  /\ text # entry.current /\ Offered(text) /\ entry' = [entry EXCEPT !.current = text, !.choice = None, !.left = FALSE]
  /\ UNCHANGED column
chooseOverlap(choice) ==
  /\ dateTimeInputKind # None /\ Resolved /\ resolveFormDateTime.overlap # None /\ choice # entry.choice
  /\ entry' = [entry EXCEPT !.choice = choice, !.error = "none", !.left = FALSE] /\ UNCHANGED column

BlurSays ==
  IF Resolved THEN CASE resolveFormDateTime.kind = "ok" -> validateValue(WireOf(resolveFormDateTime))
                     [] resolveFormDateTime.kind = "overlap-pending" -> "none"
                     [] OTHER -> dateTimeErrorReason(resolveFormDateTime)
  ELSE IF diffColumn # {} THEN validateValue(CHOOSE t \in diffColumn : TRUE)
  ELSE IF column.mode = "create" /\ isRequiredInput THEN "REQUIRED" ELSE "none"
validateOnBlur ==
  /\ chooseFieldKind \in {"plain", "reference-select"} /\ entry' = [entry EXCEPT !.error = BlurSays, !.left = TRUE] /\ UNCHANGED column

\* A save that finds an error shows it; another is sent, and what the server says of the value is shown (or the row is saved).
saveColumn ==
  /\ diffColumn # {} \/ Resolved
  /\ \E inRange \in BOOLEAN, matched \in Matches :
       entry' = [entry EXCEPT !.left = FALSE,
                              !.error = IF SaveSays # "none" THEN SaveSays
                                        ELSE IF diffColumn = {} THEN MissingReason ELSE checkInput(CHOOSE t \in diffColumn : TRUE, inRange, matched)]
  /\ UNCHANGED column

FormRulesNext ==
  \/ (\E t \in FieldInputs(column) : setColumnInput(t)) \/ (\E c \in {"earlier", "later"} : chooseOverlap(c)) \/ validateOnBlur \/ saveColumn

FormRulesSpec == FormRulesInit /\ [][FormRulesNext]_formRulesVars

-----------------------------------------------------------------------------
\* Types, with the ties of the input: the form says of a column only what its rules can say.
FormRulesTypeOK ==
  /\ column \in FormColumns /\ entry.left \in BOOLEAN /\ entry.choice \in {None, "earlier", "later"}
  /\ entry.choice # None => dateTimeInputKind = "instant" /\ entry.current.kind = "moment"
  /\ entry.error \in {"TOO_LONG", "TOO_SHORT"} => column.type = "STRING"
  /\ entry.error = "TOO_MANY_DIGITS" => column.precision # None \/ column.fraction # None
  /\ entry.error \in {"PATTERN_MISMATCH", "PATTERN_TIMEOUT"} => column.pattern
  /\ entry.error \in {"DATE_TIME_FORMAT", "DATE_TIME_GAP", "DATE_TIME_OVERLAP"} => dateTimeInputKind # None
  /\ ~isEditable => entry.error = "none"
  /\ entry.initial # Blank => isEditable

\* formValidation.ts: the form checks in the order of the server and says its reason first.  What it lets through is refused only
\* where it leaves that to the server: the pattern, the range of the integers of the database, what cannot be written at all, the
\* digits of the fraction of a second, and whether a text of the shape of a date or time is one.  What it finds wrong the server
\* finds wrong for the same reason, but for a date or time without that shape.
ByShape == column.type \in DatesAndTimes /\ dateTimeInputKind = None
NotWritten == column.type \in {"BINARY", "OTHER"}
LeftToTheServer ==
  {"none"} \cup (IF integral THEN {"OUT_OF_RANGE"} ELSE {}) \cup (IF NotWritten THEN {"NOT_ALLOWED"} ELSE {})
    \cup (IF column.pattern THEN {"PATTERN_MISMATCH", "PATTERN_TIMEOUT"} ELSE {})
    \cup (IF column.fraction # None THEN {"TOO_MANY_DIGITS"} ELSE {}) \cup (IF ByShape THEN {"INVALID_VALUE"} ELSE {})
SaidByTheFormAlone == IF ByShape THEN {"none", "TOO_MANY_DIGITS"} ELSE {}
ZeroWithoutIntegers(t) == column.precision # None /\ column.precision = column.scale /\ t.kind = "number" /\ Hundredths(t) = 0
SaysWhatTheServerWould ==
  \A t \in diffColumn, inRange \in BOOLEAN, matched \in Matches :
    column.reference = "none" /\ ~ZeroWithoutIntegers(t) =>
      LET server == checkInput(t, inRange, matched)
      IN  IF validateValue(t) = "none" THEN server \in LeftToTheServer ELSE server \in {validateValue(t)} \cup SaidByTheFormAlone
\* A column of a reference is never sent without a value that the server requires.
RequiredIsNeverMissed ==
  diffColumn = {} /\ SaveSays = "none" => MissingReason = "none" \/ Resolved

\* What is said on leaving an input is what a save would say of it, but for the choice between two offsets, which a save asks for.
LeavingSaysWhatASaveWould == entry.left => entry.error = SaveSays \/ SaveSays = "DATE_TIME_OVERLAP"

\* A form with unsaved changes has something to send or an input that it cannot read: its save is never ignored.
ChangesCanBeSaved == columnChanged => diffColumn # {} \/ Resolved

\* The select of a reference offers the value it shows.
SelectShowsItsValue == chooseFieldKind = "reference-select" => entry.current \in SelectOffers

\* WriteRequestValidator: a DECIMAL(p,s) has too many digits when its decimals are more than s or its integer digits more than p - s.
\* The code does not keep it: see the README.
DigitsCountAlike == \A t \in diffColumn : t.kind = "number" /\ column.type = "DECIMAL" => ServerTooManyDigits(t) = tooManyDigits(t)
==============================================================================
