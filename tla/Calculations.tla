-------------------------------- MODULE Calculations --------------------------------
(***************************************************************************)
(* Calculations the frontend and the backend make alike: the texts a user  *)
(* may enter, and the pages of a list.                                     *)
(***************************************************************************)
EXTENDS Integers, Sequences, FiniteSets, SequencesExt

(***************************************************************************)
(* What the forms and the server make of a text that is typed: the display *)
(* name, the name of a role or a group, a new password and the text of a   *)
(* search (shared/validation; user/domain, role/domain, group/domain).     *)
(*                                                                         *)
(* A text is a sequence of UTF-16 units; of a unit counts whether it is    *)
(* white space, a control, a format character or half of a pair, and its   *)
(* bytes.                                                                  *)
(***************************************************************************)
CONSTANTS NameLimit, AdminNameLimit, SearchLimit, PasswordShortest, PasswordBytes  \* bounds: the limits of the program, scaled down

ASSUME InputTextsAssumption == {NameLimit, AdminNameLimit, SearchLimit, PasswordShortest, PasswordBytes} \subseteq Nat

Units == {"letter", "accent", "kana", "space", "wideSpace", "tab", "lineSeparator", "control", "format", "high", "low"}

isWhiteSpaceCodePoint(unit) == unit \in {"space", "wideSpace", "tab", "lineSeparator"}
IsControl(unit) == unit \in {"tab", "control"}                   \* \p{Cc}
IsFormat(unit) == unit = "format"                                \* \p{Cf}
IsSeparator(unit) == unit = "lineSeparator"                      \* U+2028, U+2029

-----------------------------------------------------------------------------
(* The forms *)
\* A high half followed by a low one is one character, any other unit is one.
countCodePoints(text) ==
  FoldLeft(LAMBDA acc, unit : [count |-> acc.count + (IF acc.last = "high" /\ unit = "low" THEN 0 ELSE 1),
                               last |-> unit],
           [count |-> 0, last |-> "none"], text).count
Pairs(text) == Cardinality({i \in 2..Len(text) : text[i - 1] = "high" /\ text[i] = "low"})
\* A pair is four bytes; a half without the other is written as the replacement character, three bytes.
utf8ByteLength(text) ==
  FoldLeft(LAMBDA bytes, unit : bytes + (CASE unit \in {"letter", "space", "tab", "control"} -> 1
                                           [] unit = "accent" -> 2 [] OTHER -> 3), 0, text) - 2 * Pairs(text)
trimDisplayName(text) ==
  LET kept == {i \in DOMAIN text : ~isWhiteSpaceCodePoint(text[i])}
  IN  IF kept = {} THEN <<>>
      ELSE SubSeq(text, CHOOSE i \in kept : \A j \in kept : i <= j, CHOOSE i \in kept : \A j \in kept : i >= j)
Has(Kind(_), text) == \E i \in DOMAIN text : Kind(text[i])

validateDisplayName(text) ==
  LET trimmed == trimDisplayName(text)
  IN  IF trimmed = <<>> THEN "required" ELSE IF countCodePoints(trimmed) > NameLimit THEN "tooLong"
      ELSE IF Has(IsControl, trimmed) \/ Has(IsFormat, trimmed) THEN "invalidCharacter" ELSE "none"
validateAdminName(text) ==
  LET trimmed == trimDisplayName(text)
  IN  IF trimmed = <<>> THEN "required"
      ELSE IF countCodePoints(trimmed) > AdminNameLimit THEN "tooLong"
      ELSE IF Has(IsControl, trimmed) \/ Has(IsSeparator, trimmed) THEN "invalidCharacter"
      ELSE IF \A i \in DOMAIN trimmed : isWhiteSpaceCodePoint(trimmed[i]) \/ IsFormat(trimmed[i]) THEN "required" ELSE "none"
validateNewPassword(text) ==
  IF text = <<>> THEN "required" ELSE IF countCodePoints(text) < PasswordShortest THEN "tooShort"
  ELSE IF utf8ByteLength(text) > PasswordBytes THEN "tooLong" ELSE "none"
checkSearchInput(text) == IF countCodePoints(trimDisplayName(text)) > SearchLimit THEN "tooLong" ELSE "none"

-----------------------------------------------------------------------------
(* The server *)
strip(text) ==
  LET White(t) == \A i \in DOMAIN t : isWhiteSpaceCodePoint(t[i])
      start == CHOOSE n \in 0..Len(text) : White(SubSeq(text, 1, n)) /\ (n = Len(text) \/ ~isWhiteSpaceCodePoint(text[n + 1]))
      end == CHOOSE n \in start..Len(text) : White(SubSeq(text, n + 1, Len(text))) /\ (n = start \/ ~isWhiteSpaceCodePoint(text[n]))
  IN  SubSeq(text, start + 1, end)
codePointCount(text) == Len(text) - Pairs(text)
\* A half without the other becomes a question mark, one byte.
utf8Bytes(text) ==
  utf8ByteLength(text)
    - 2 * Cardinality({i \in DOMAIN text : \/ text[i] = "high" /\ (i = Len(text) \/ text[i + 1] # "low")
                                           \/ text[i] = "low" /\ (i = 1 \/ text[i - 1] # "high")})

DisplayNameCheck(text) ==
  LET stripped == strip(text)
  IN  IF stripped = <<>> THEN "required" ELSE IF codePointCount(stripped) > NameLimit THEN "tooLong"
      ELSE IF Has(IsControl, stripped) \/ Has(IsFormat, stripped) THEN "invalidCharacter" ELSE "none"
\* RoleName and GroupName are alike.
RoleNameParse(text) ==
  LET stripped == strip(text)
      Invisible(unit) == isWhiteSpaceCodePoint(unit) \/ IsFormat(unit)
  IN  IF stripped = <<>> THEN "required" ELSE IF codePointCount(stripped) > AdminNameLimit THEN "tooLong"
      ELSE IF Has(IsControl, stripped) \/ Has(IsSeparator, stripped) THEN "invalidCharacter"
      ELSE IF stripped = SelectSeq(stripped, Invisible) THEN "required" ELSE "none"
checkNewPassword(text) ==
  IF text = <<>> THEN "required" ELSE IF codePointCount(text) < PasswordShortest THEN "tooShort"
  ELSE IF utf8Bytes(text) > PasswordBytes THEN "tooLong" ELSE "none"
isTooLong(text) == codePointCount(strip(text)) > SearchLimit

-----------------------------------------------------------------------------
(* What is promised of them *)

\* The form says of a name, and of a search, what the server would say of it: a name it takes is not refused,
\* and one it refuses would be, for the same reason.
NamesAreJudgedAlike(text) ==
  /\ validateDisplayName(text) = DisplayNameCheck(text)
  /\ validateAdminName(text) = RoleNameParse(text)
  /\ (checkSearchInput(text) = "tooLong") = isTooLong(text)

\* A password the form takes is taken by the server; the form says too much only of one with half a character.
PasswordsAreJudgedAlike(text) ==
  \/ validateNewPassword(text) = checkNewPassword(text)
  \/ /\ checkNewPassword(text) = "none" /\ validateNewPassword(text) = "tooLong"
     /\ utf8Bytes(text) # utf8ByteLength(text)

-----------------------------------------------------------------------------
(***************************************************************************)
(* The pages of a list: what the server gives of a page (Paging,           *)
(* PageRequest), and which page, and which rows of it, the client shows    *)
(* next (shared/paging, listPaging).                                       *)
(***************************************************************************)
CONSTANTS
  PAGE_SIZE,  \* the rows of a page; the lists of business data choose among several
  MAX_PAGE    \* bound: the last page that may be asked for

ASSUME PagingAssumption == PAGE_SIZE \in Nat \ {0} /\ MAX_PAGE \in Nat \ {0}

Lesser(a, b) == IF a <= b THEN a ELSE b
Greater(a, b) == IF a >= b THEN a ELSE b
Ceil(a, b) == (a + b - 1) \div b

-----------------------------------------------------------------------------
(* The server *)
pageOffset(page, size) == (page - 1) * size
\* The rows of a page of a list of total rows.
RowsOf(page, total, size) == Greater(0, Lesser(size, total - pageOffset(page, size)))
pageOf(position) == (position - 1) \div PAGE_SIZE + 1

-----------------------------------------------------------------------------
(* The lists of the administration *)
pageCount(total) == IF total <= 0 THEN 0 ELSE Ceil(total, PAGE_SIZE)
pageRange(page, total) ==
  IF total <= 0 THEN [from |-> 0, to |-> 0] ELSE [from |-> pageOffset(page, PAGE_SIZE) + 1, to |-> Lesser(page * PAGE_SIZE, total)]
\* The page to read instead of one without rows, 0 for none.
correctedPage(page, total, itemCount) ==
  IF itemCount > 0 \/ total <= 0 \/ pageCount(total) = page THEN 0 ELSE pageCount(total)
pagerButtonDisabledAfter(direction, page, total) == IF direction = "prev" THEN page <= 1 ELSE page >= pageCount(total)

-----------------------------------------------------------------------------
(* The lists of business data *)
totalPages(total, size) == Lesser(MAX_PAGE, Greater(1, Ceil(total, size)))
clampPage(page) == Lesser(MAX_PAGE, Greater(1, page))
\* The rows that are shown, none as 1 to 0.
displayRange(page, size, itemCount) ==
  IF itemCount <= 0 THEN [from |-> 1, to |-> 0] ELSE [from |-> pageOffset(page, size) + 1, to |-> pageOffset(page, size) + itemCount]
isPageOverflow(itemCount, total) == itemCount = 0 /\ total > 0
previousPageFor(page, total, size) == clampPage(Lesser(page - 1, totalPages(total, size)))

-----------------------------------------------------------------------------
(* What is promised of them *)

\* After a page without rows the list reads one that has them, and reads no third one while the rows stay the
\* same; its range is the rows it shows, and a button that is pressed there leads to a page with rows.
CorrectionLandsOnRows(page, total) ==
  LET again == correctedPage(page, total, RowsOf(page, total, PAGE_SIZE))
      shown == IF again = 0 THEN page ELSE again
      rows == RowsOf(shown, total, PAGE_SIZE)
      range == pageRange(shown, total)
  IN  /\ total > 0 => rows > 0 /\ range.to - range.from + 1 = rows
      /\ correctedPage(shown, total, rows) = 0
      /\ ~pagerButtonDisabledAfter("next", shown, total) => RowsOf(shown + 1, total, PAGE_SIZE) > 0
      /\ total > 0 => pageOf(range.to) = shown

\* The page a list of business data goes back to has rows, and the pages it offers are those that have any.
PreviousHasRows(page, total, size) ==
  LET rows == RowsOf(page, total, size)
      before == previousPageFor(page, total, size)
      range == displayRange(page, size, rows)
  IN  /\ isPageOverflow(rows, total) => before < page /\ RowsOf(before, total, size) > 0
      /\ range.to - range.from + 1 = rows /\ (rows > 0 => range.to <= total)
      /\ \A p \in 1..totalPages(total, size) : total > 0 => RowsOf(p, total, size) > 0
      /\ totalPages(total, size) < MAX_PAGE => RowsOf(totalPages(total, size) + 1, total, size) = 0
=============================================================================
