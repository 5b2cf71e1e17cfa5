------------------------------- MODULE Dates -------------------------------
(***************************************************************************)
(* datetime.go: the dates of EN 13757-3, bit fields split over bytes.  A   *)
(* decoded field is [err, time, summer].                                   *)
(***************************************************************************)
EXTENDS Integers, Sequences

Moment(year, month, day, hour, minute, second) ==
    [year |-> year, month |-> month, day |-> day,
     hour |-> hour, minute |-> minute, second |-> second]

\* time.Time{}
NoTime == Moment(1, 1, 1, 0, 0, 0)

dateEpochYear == 2000

\* The proleptic Gregorian calendar of package time.
IsLeap(year) == year % 4 = 0 /\ (year % 100 # 0 \/ year % 400 = 0)
DaysIn(month, year) ==
    IF month = 2 THEN (IF IsLeap(year) THEN 29 ELSE 28)
    ELSE IF month \in {4, 6, 9, 11} THEN 30 ELSE 31

\* The date, if there is one, of the fields; the year counts from the epoch.
assembleDateTime(year, month, day, hour, minute, second) ==
    IF month \notin 1..12 \/ day < 1 \/ hour > 23 \/ minute > 59 \/ second > 59 THEN {}
    ELSE IF day > DaysIn(month, dateEpochYear + year) THEN {}
    ELSE {Moment(dateEpochYear + year, month, day, hour, minute, second)}

\* The year's 7 bits: the low ones on top of the day, the high ones of the month.
YearIn(dayByte, monthByte) == dayByte \div 32 + (monthByte \div 16) * 8

Dated(times, summer) ==
    IF times = {} THEN [err |-> "date", time |-> NoTime, summer |-> summer]
    ELSE [err |-> "none", time |-> CHOOSE t \in times : TRUE, summer |-> summer]

Unsupported == [err |-> "unsupported", time |-> NoTime, summer |-> FALSE]

decodeTypeG(b) ==
    Dated(assembleDateTime(YearIn(b[1], b[2]), b[2] % 16, b[1] % 32, 0, 0, 0), FALSE)

\* Mutant: the meter's own invalid bit is not believed.
decodeTypeFAnyway(b) ==
    Dated(assembleDateTime(YearIn(b[3], b[4]), b[4] % 16, b[3] % 32, b[2] % 32, b[1] % 64, 0),
          b[2] >= 128)

decodeTypeF(b) ==
    Dated(IF b[1] >= 128 THEN {}
          ELSE assembleDateTime(YearIn(b[3], b[4]), b[4] % 16, b[3] % 32,
                                b[2] % 32, b[1] % 64, 0),
          b[2] >= 128)

decodeTypeI(b) ==
    Dated(assembleDateTime(YearIn(b[4], b[5]), b[5] % 16, b[4] % 32,
                           b[3] % 32, b[2] % 64, b[1] % 64),
          (b[2] \div 64) % 2 = 1)

\* decodeRecordTime, decodeRecordDateTime: the width picks the encoding.
decodeRecordTime(b, date) ==
    IF date = "G" THEN (IF Len(b) = 2 THEN decodeTypeG(b) ELSE Unsupported)
    ELSE IF Len(b) = 4 THEN decodeTypeF(b)
    ELSE IF Len(b) = 6 THEN decodeTypeI(b)
    ELSE Unsupported

=============================================================================
