------------------------------ MODULE Calendar ------------------------------
(* Days, zones and the times between them: src/xmltv/zone.ts, the dates of    *)
(* src/xmltv/date.ts and src/core/days.ts, and the days a site is asked for,  *)
(* src/grabber/site.ts.  An instant is a number of ticks, a day of a calendar *)
(* a number of days, and a zone what the runtime's database says of it: the   *)
(* offset it is in before and after the one change near the days looked at.   *)
EXTENDS Integers, FiniteSetsExt

CONSTANT DayLen  \* ticks in a day of an unchanging clock

CalendarAssumption == DayLen \in Nat \ {0, 1}

(* What an option holds: nothing, or one value. *)
Said(option) == option # {}
The(option) == CHOOSE x \in option : TRUE

-----------------------------------------------------------------------------
(* Zones.  The offset Intl answers with, and what is remembered of a day.     *)
rawOffsetAt(zone, instant) == IF instant < zone.at THEN zone.before ELSE zone.after

\* A day settled by two questions, and by halving it where they differ.
surveyDay(zone, day) ==
  LET start == day * DayLen
      end == start + DayLen - 1
      before == rawOffsetAt(zone, start)
      after == rawOffsetAt(zone, end)
      found[span \in (start .. end) \X (start .. end)] ==
        LET held == span[1]
            changed == span[2]
            middle == held + (changed - held) \div 2
        IN  IF changed - held <= 1 THEN changed
            ELSE IF rawOffsetAt(zone, middle) = before THEN found[<<middle, changed>>]
            ELSE found[<<held, middle>>]
  IN  IF before = after THEN [at |-> start, before |-> before, after |-> after]
      ELSE [at |-> found[<<start, end>>], before |-> before, after |-> after]

offsetAt(zone, instant) ==
  LET known == surveyDay(zone, instant \div DayLen)
  IN  IF instant < known.at THEN known.before ELSE known.after

\* Two zones that keep one clock, for Near days either side of today.
sameClock(a, b, today, near) ==
  \A day \in (today - near) .. (today + near) : surveyDay(a, day) = surveyDay(b, day)

\* The instant a wall clock stands for, and the offset it is written in.
resolveWithin(wall, zone) == \* mutant: asks an hour either side
  LET before == offsetAt(zone, wall - 1)
      after == offsetAt(zone, wall + 1)
  IN  [instant |-> wall - before, offset |-> IF before = after THEN before ELSE after]

resolve(wall, zone) ==
  LET before == offsetAt(zone, wall - DayLen)
      after == offsetAt(zone, wall + DayLen)
      earlier == [instant |-> wall - before, offset |-> before]
      later == [instant |-> wall - after, offset |-> after]
      Holds(reading) == offsetAt(zone, reading.instant) = reading.offset
  IN  CASE before = after -> earlier
        [] before # after /\ Holds(earlier) /\ Holds(later) ->
             IF earlier.instant <= later.instant THEN earlier ELSE later
        [] before # after /\ Holds(earlier) /\ ~Holds(later) -> earlier
        [] before # after /\ ~Holds(earlier) /\ Holds(later) -> later
        [] OTHER -> [instant |-> earlier.instant, offset |-> after]

xmltvZone(zone, wall) == wall - resolve(wall, zone).instant

-----------------------------------------------------------------------------
(* Dates: an instant, the offset it is to be written in if any was kept, and  *)
(* how much of it was given, "day" or "full".                                 *)
setXmltvOffset(date, offset) == [date EXCEPT !.offset = IF offset = 0 THEN {} ELSE {offset}]
keepXmltvOffset(date, offset) == [date EXCEPT !.offset = {offset}]
getXmltvOffset(date) == IF Said(date.offset) THEN The(date.offset) ELSE 0
isBareInstant(date) == ~Said(date.offset)

\* The digits at the precision kept, in the offset kept.
formatXmltvDate(date) ==
  LET wall == date.time + getXmltvOffset(date)
  IN  [digits |-> IF date.precision = "day" THEN (wall \div DayLen) * DayLen ELSE wall,
       precision |-> date.precision,
       suffix |-> getXmltvOffset(date)]

\* Digits and an offset, read back.
parseXmltvDate(stamp) ==
  setXmltvOffset([time |-> stamp.digits - stamp.suffix, offset |-> {},
                  precision |-> stamp.precision], stamp.suffix)

\* Digits stamped with a zone's name, which the map resolves by the wall clock.
parseNamed(stamp, zone) ==
  parseXmltvDate([stamp EXCEPT !.suffix = xmltvZone(zone, stamp.digits)])

zonedXmltvDate(wall, precision, zone) ==
  LET read == resolve(wall, zone)
  IN  keepXmltvOffset([time |-> read.instant, offset |-> {}, precision |-> precision],
                      read.offset)

setXmltvZone(date, zone) == keepXmltvOffset(date, offsetAt(zone, date.time))

-----------------------------------------------------------------------------
(* Days.                                                                      *)
dayIn(instant, zone) == (instant + offsetAt(zone, instant)) \div DayLen

\* A time of day may run past the day's end, as a listing's 25:30 does.
zonedTime(day, zone, time) ==
  zonedXmltvDate((day + time \div DayLen) * DayLen + (time % DayLen), "full", zone)

wallTimeIn(day, zone, time) == zonedTime(day, zone, time).time

wallClock(day, time, dayZone, zone) ==
  LET date == zonedTime(day, dayZone, time)
  IN  IF dayZone = zone THEN date ELSE setXmltvZone(date, zone)

dayRange(start, days) == start .. (start + days - 1)

daysCovering(first, last, zone, other) ==
  IF other = zone THEN first .. last
  ELSE dayIn(wallTimeIn(first, zone, 0), other)
         .. dayIn(wallTimeIn(last + 1, zone, 0) - 1, other)

-----------------------------------------------------------------------------
(* The days a site is asked for: those covering the run's, less a leading one *)
(* already behind it.  Without a "now" every one is.                          *)
siteWindow(siteZone, startDay, days, zone, now) ==
  LET own == dayRange(startDay, days)
      covering == daysCovering(startDay, startDay + days - 1, zone, siteZone)
      leading == Min(covering)
  IN  IF \/ siteZone = zone
         \/ ~Said(now)
         \/ startDay < dayIn(The(now), zone)
         \/ leading \in own
         \/ leading >= dayIn(The(now), siteZone)
      THEN covering
      ELSE covering \ {leading}

\* The first day any of its sites needs, which a prune must leave.
earliestDay(siteZones, day, zone) ==
  Min({day} \cup {Min(siteWindow(siteZone, day, 1, zone, {})) : siteZone \in siteZones})
=============================================================================
