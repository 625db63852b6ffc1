------------------------------- MODULE DateTimes -------------------------------
(***************************************************************************)
(* Times as the client reads, shows and compares them: the days of the     *)
(* calendar, the wall clock of a time zone, the text of an input and the   *)
(* instant it is sent as (shared/format, resolveDateTimeInput).            *)
(*                                                                         *)
(* An hour is the unit of the clock; a text is the hour of the wall clock  *)
(* it shows, or one that is no such text.  The calendar is in days.        *)
(***************************************************************************)
EXTENDS Integers, FiniteSets, FiniteSetsExt

CONSTANTS
  None, Empty, Bad, Long,  \* no value; the empty text, one that is no date and time, one over the length
  LastHour                 \* the years that can be shown are the hours 0..LastHour

ASSUME DateTimesAssumption == LastHour \in Nat /\ Cardinality({None, Empty, Bad, Long}) = 4

-----------------------------------------------------------------------------
(* The calendar *)
daysFromCivil(year, month, day) ==
  LET y == IF month <= 2 THEN year - 1 ELSE year
      era == y \div 400
      yearOfEra == y - era * 400
      dayOfYear == (153 * (IF month > 2 THEN month - 3 ELSE month + 9) + 2) \div 5 + day - 1
  IN  era * 146097 + yearOfEra * 365 + yearOfEra \div 4 - yearOfEra \div 100 + dayOfYear - 719468

civilFromDays(days) ==
  LET z == days + 719468
      era == z \div 146097
      dayOfEra == z - era * 146097
      yearOfEra == (dayOfEra - dayOfEra \div 1460 + dayOfEra \div 36524 - dayOfEra \div 146096) \div 365
      dayOfYear == dayOfEra - (365 * yearOfEra + yearOfEra \div 4 - yearOfEra \div 100)
      monthIndex == (5 * dayOfYear + 2) \div 153
      month == IF monthIndex < 10 THEN monthIndex + 3 ELSE monthIndex - 9
  IN  [year |-> yearOfEra + era * 400 + (IF month <= 2 THEN 1 ELSE 0), month |-> month,
       day |-> dayOfYear - (153 * monthIndex + 2) \div 5 + 1]

daysInMonth(year, month) ==
  IF month = 2 THEN IF (year % 4 = 0 /\ year % 100 # 0) \/ year % 400 = 0 THEN 29 ELSE 28
  ELSE IF month \in {4, 6, 9, 11} THEN 30 ELSE 31

-----------------------------------------------------------------------------
(* The wall clock of a zone: its hours are ahead of the instant's by before, and from the instant at on by after. *)
isYearInRange(hour) == hour \in 0..LastHour
offsetSecondsAt(zone, instant) == IF instant < zone.at THEN zone.before ELSE zone.after
wallAt(zone, instant) == instant + offsetSecondsAt(zone, instant)

MutNextDayOnly(zone, wall) ==
  {c \in {wall - offsetSecondsAt(zone, wall), wall - offsetSecondsAt(zone, wall + 24)} : wallAt(zone, c) = wall}
\* The instants that show this wall clock, guessed from the offsets a day before and a day after.
instantCandidates(zone, wall) ==
  {c \in {wall - offsetSecondsAt(zone, wall - 24), wall - offsetSecondsAt(zone, wall + 24)} : wallAt(zone, c) = wall}

Clocks == [kind : {"ok", "gap", "overlap", "invalid", "invalid-time-zone"}, earlier : Int, later : Int]
ParsedDateTime(k, i, j) == [kind |-> k, earlier |-> i, later |-> j]
parseLocalDateTime(text, zone) ==
  IF zone = None THEN ParsedDateTime("invalid-time-zone", 0, 0)
  ELSE IF text \in {Empty, Bad, Long} \/ ~isYearInRange(text) THEN ParsedDateTime("invalid", 0, 0)
  ELSE LET found == instantCandidates(zone, text)
       IN  IF found = {} THEN ParsedDateTime("gap", 0, 0)
           ELSE IF \E c \in found : ~isYearInRange(c) THEN ParsedDateTime("invalid", 0, 0)
           ELSE ParsedDateTime(IF Cardinality(found) = 1 THEN "ok" ELSE "overlap", Min(found), Max(found))

\* The text of an instant and its offset; an instant that has no text is shown as it was received.
formatInstant(instant, zone) ==
  IF zone = None THEN [kind |-> "invalid-time-zone", wall |-> Bad, offset |-> None]
  ELSE IF ~isYearInRange(instant) \/ ~isYearInRange(wallAt(zone, instant)) THEN [kind |-> "unreadable", wall |-> Bad, offset |-> None]
  ELSE [kind |-> "ok", wall |-> wallAt(zone, instant), offset |-> offsetSecondsAt(zone, instant)]
formatInstantForInput(instant, zone) == formatInstant(instant, zone).wall
offsetOf(instant, zone) == formatInstant(instant, zone).offset

-----------------------------------------------------------------------------
(* An input of a date and time *)
Purposes == {"form", "range-from", "range-to", "equals"}
dateTimeKindOf(type) == CASE type = "DATETIME_TZ" -> "instant" [] type = "DATETIME" -> "local" [] OTHER -> None

automaticChoice(purpose) == CASE purpose = "range-from" -> "earlier" [] purpose = "range-to" -> "later" [] OTHER -> None

Resolution(k, wire, overlap) == [kind |-> k, wire |-> wire, overlap |-> overlap]
OverlapOffsets(p, zone) == [earlier |-> offsetOf(p.earlier, zone), later |-> offsetOf(p.later, zone)]
\* A date and time without a zone is sent as it is written.
resolveDateTimeInput(kind, text, zone, purpose, overlapChoice) ==
  IF kind = "local" THEN (IF text \in {Empty, Bad, Long} THEN Resolution("invalid", Bad, None) ELSE Resolution("ok", text, None))
  ELSE LET p == parseLocalDateTime(text, zone)
           choice == IF automaticChoice(purpose) # None THEN automaticChoice(purpose) ELSE overlapChoice
       IN  CASE p.kind = "invalid-time-zone" -> Resolution("unavailable", Bad, None)
             [] p.kind = "ok" -> Resolution("ok", p.earlier, None)
             [] p.kind = "overlap" /\ choice = None -> Resolution("overlap-pending", Bad, OverlapOffsets(p, zone))
             [] p.kind = "overlap" /\ choice # None -> Resolution("ok", IF choice = "later" THEN p.later ELSE p.earlier, OverlapOffsets(p, zone))
             [] OTHER -> Resolution(p.kind, Bad, None)
dateTimeErrorReason(r) ==
  CASE r.kind = "ok" -> "none" [] r.kind = "invalid" -> "DATE_TIME_FORMAT" [] r.kind = "gap" -> "DATE_TIME_GAP"
    [] r.kind = "overlap-pending" -> "DATE_TIME_OVERLAP" [] r.kind = "unavailable" -> "TIME_ZONE_UNAVAILABLE"

-----------------------------------------------------------------------------
(* What is promised of them *)
Instants == 0..LastHour

\* The days of this year are counted one after the other, and counted back to where they came from.
CalendarCounts(year) ==
  \A month \in 1..12 : \A day \in 1..daysInMonth(year, month) :
    LET n == daysFromCivil(year, month, day)
        next == IF day < daysInMonth(year, month) THEN daysFromCivil(year, month, day + 1)
                ELSE IF month < 12 THEN daysFromCivil(year, month + 1, 1) ELSE daysFromCivil(year + 1, 1, 1)
    IN  next = n + 1 /\ civilFromDays(n) = [year |-> year, month |-> month, day |-> day]

\* An input is read as every instant the zone shows that way, and as no other.
ReadsWhatIsShown(zone, text) ==
  LET p == parseLocalDateTime(text, zone)
      meant == {i \in -48..LastHour + 48 : wallAt(zone, i) = text}
  IN  CASE p.kind = "gap" -> meant = {}
        [] p.kind \in {"ok", "overlap"} -> meant = {p.earlier, p.later} /\ (p.kind = "ok") = (p.earlier = p.later)
        [] OTHER -> ~(meant \subseteq Instants) \/ text \notin Instants

\* The instant sent for the choice of an offset is shown with that offset.
ChoiceMeansItsOffset(zone, text, choice) ==
  LET r == resolveDateTimeInput("instant", text, zone, "equals", choice)
  IN  r.kind = "ok" => /\ wallAt(zone, r.wire) = text
                       /\ r.overlap # None => formatInstant(r.wire, zone).offset = r.overlap[choice]

\* A range reaches every instant whose text is between the texts it was given by.
RangeCovers(zone, from, to) ==
  LET f == resolveDateTimeInput("instant", from, zone, "range-from", None)
      t == resolveDateTimeInput("instant", to, zone, "range-to", None)
  IN  f.kind = "ok" /\ t.kind = "ok" => \A i \in Instants : wallAt(zone, i) \in from..to => i \in f.wire..t.wire
==============================================================================
