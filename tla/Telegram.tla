------------------------------ MODULE Telegram ------------------------------
(***************************************************************************)
(* LongFrame.Decode and what a caller asks of the frame it returns: the    *)
(* header around the walk of RecordWalk, and the contents of each record,  *)
(* which the walk alone leaves out.  A fixed data response has no walk.    *)
(***************************************************************************)
EXTENDS RecordWalk, Dates, FixedData

CONSTANTS
    Float32(_),     \* math.Float32frombits of four bytes
    ProductLabels   \* plain texts that hint at a product (decode.go 219-232)

VARIABLES
    stage,          \* of Decode: "head", "walk", "over"
    dife, vife,     \* of the record in progress, the extensions
    text,           \* and the unit in plain text
    readings,       \* the contents of records
    result          \* what Decode returns

contentVars == <<dife, vife, text, readings>>
telegramVars == <<vars, stage, contentVars, result>>

frame == area.frame

-----------------------------------------------------------------------------
(* A record's value                                                        *)

SpecialFunction == "Special Function"
VIFVolume == \h17
Zero == Int10(0, 0)

NoValue == [raw |-> Zero, text |-> <<>>, err |-> "none", time |-> NoTime, summer |-> FALSE]

Raw(x) == [NoValue EXCEPT !.raw = x]

\* A BCD number if there is one, of a sign.
RawBCD(numbers, sign) ==
    IF numbers = {} THEN [NoValue EXCEPT !.err = "bcd"]
    ELSE Raw(Int10(sign * CHOOSE v \in numbers : TRUE, 0))

\* integerRawValue
RawInteger(b, unit) == Raw(Int10(IF unit.raw THEN UintLE(b) ELSE IntLE(b), 0))

\* decodeRecordTime comes on top of the raw bits, which stay.
RawDate(b, unit) ==
    LET d == decodeRecordTime(b, unit.date)
    IN  [RawInteger(b, unit) EXCEPT !.err = d.err, !.time = d.time, !.summer = d.summer]

\* decodeASCII
ASCIIText(b) == [k \in 1..Len(b) |-> b[Len(b) + 1 - k]]

\* decodeLVAR: the first byte tells the kind, and of a BCD number the sign.
LVARValue(b, unit) ==
    LET lvar    == b[1]
        payload == Tail(b)
    IN  CASE lvar \in ASCII   -> [NoValue EXCEPT !.text = ASCIIText(payload)]
          [] lvar \in LVARBCD -> RawBCD(BCDMagnitude(payload), IF lvar > \hCF THEN -1 ELSE 1)
          [] lvar = \hF4      -> Raw(Float32(payload))
          [] OTHER            -> RawInteger(payload, unit)

\* decodeRecordValue, of the bytes b that its data field takes.
RecordValue(f, b, unit) ==
    CASE f \in {1, 2, 3, 4, 6, 7} ->
            IF unit.date = "none" THEN RawInteger(b, unit) ELSE RawDate(b, unit)
      [] f \in BCDFields -> RawBCD(BCDSigned(b), 1)
      [] f = 5           -> Raw(Float32(b))
      [] f = LVAR        -> LVARValue(b, unit)
      [] OTHER           -> NoValue

DecodedDataRecord(function, storage, tariff, device, unit, v) ==
    [function |-> function, storage |-> storage, tariff |-> tariff, device |-> device,
     unit |-> unit, value |-> Times(v.raw, unit.exp), text |-> v.text, err |-> v.err,
     time |-> v.time, summer |-> v.summer, more |-> FALSE]

unitOf(v, vx, label) ==
    IF IsPlainText(v) THEN customUnitOf(v, vx, label) ELSE decodeUnit(v, vx)

\* What a record says: its DIF d and VIF v, the extensions dx and vx of each, the
\* unit in plain text, and the bytes b of its value.
ReadingOf(d, dx, v, vx, label, b) ==
    DecodedDataRecord(
        IF field(d) = 15 THEN SpecialFunction ELSE decodeRecordFunction(d),
        decodeStorageNumber(d, dx), decodeTariff(dx), decodeDevice(dx),
        unitOf(v, vx, label), RecordValue(field(d), b, unitOf(v, vx, label)))

\* The record that ends with the bytes b of its value.
Reading(b) == ReadingOf(rec.dif, dife, rec.vif, vife, text, b)

\* A unit that nothing sets: type and exponent are zero.
NoUnit == Plain(Zero, "", 0)

SpecialReading(dif) ==
    [DecodedDataRecord(decodeRecordFunction(dif), 0, 0, 0, NoUnit, NoValue)
        EXCEPT !.more = (dif = \h1F)]

-----------------------------------------------------------------------------
(* The frame                                                               *)

\* DecodeManufacturer: three letters of five bits.
DecodeManufacturer(f) ==
    LET id == UintLE(SubSeq(f, 12, 13))
    IN  <<64 + ((id \div 1024) % 32), 64 + ((id \div 32) % 32), 64 + (id % 32)>>

KAM == <<75, 65, 77>>

\* The part of a number before its point.
Whole(x) == IF x.ten >= 0 THEN x.mant * 10^x.ten ELSE x.mant \div 10^(-x.ten)

\* extractProductName: a text under a label that hints at one, or else the
\* Kamstrup number, with its text left out.
ProductName(manufacturer, records_) ==
    LET named(r)    == r.text # <<>> /\ r.unit.label \in ProductLabels
        multical(r) == r.unit.unit = "none" /\ Whole(r.value) \in 2100000..2199999
        names       == SelectSeq(records_, named)
        numbers     == SelectSeq(records_, multical)
    IN  IF names # <<>> THEN names[1].text
        ELSE IF manufacturer = KAM /\ numbers # <<>> THEN <<Whole(numbers[1].value)>>
        ELSE <<>>

Refused(err) == [err |-> err]

DecodedFrame(serial, manufacturer, version, medium, access, status, signature, records_) ==
    [err |-> "none", serial |-> serial, manufacturer |-> manufacturer,
     product |-> ProductName(manufacturer, records_), version |-> version,
     medium |-> deviceTypeLookup(medium), access |-> access, status |-> status,
     signature |-> signature, records |-> records_]

\* lf[7:11]
SerialOf(f) == BCDMagnitude(SubSeq(f, 8, 11))
SerialNumber == SerialOf(frame)

\* fixedRecord, of a counter's bytes.
fixedRecord(b, own, other, status, storage) ==
    DecodedDataRecord("instantaneous", storage, 0, 0, fixedUnitOf(own, other),
        IF status % 2 = 1 THEN Raw(Int10(IntLE(b), 0)) ELSE RawBCD(BCDSigned(b), 1))

\* The two counters of a fixed data response.
fixedRecords(f) ==
    <<fixedRecord(SubSeq(f, 16, 19), f[14], f[15], f[13], 0),
      fixedRecord(SubSeq(f, 20, 23), f[15], f[14], f[13], 1)>>

\* What is returned of f, a fixed or a variable data response.
fixedFrame(f) ==
    DecodedFrame(CHOOSE s \in SerialOf(f) : TRUE, <<>>, 0, fixedMedium(f[14], f[15]),
                 f[12], f[13], 0, fixedRecords(f))

variableFrame(f, records_) ==
    DecodedFrame(CHOOSE s \in SerialOf(f) : TRUE, DecodeManufacturer(f), f[14], f[15],
                 f[16], f[17], UintLE(SubSeq(f, 18, 19)), records_)

decodeFixed ==
    IF Len(frame) < fixedMinFrameLen \/ SerialNumber = {} THEN Refused("invalid")
    ELSE fixedFrame(frame)

\* Mutant: the identification is looked at before the records.
decodeVariableSerialFirst ==
    IF SerialNumber = {} THEN Refused("invalid")
    ELSE IF at = "failed" THEN Refused("record")
    ELSE variableFrame(frame, readings)

\* What refuses a record wraps neither of the package's errors; an identification
\* that is no number is ErrInvalidFrame.
decodeVariable ==
    IF at = "failed" THEN Refused("record")
    ELSE IF SerialNumber = {} THEN Refused("invalid")
    ELSE variableFrame(frame, readings)

-----------------------------------------------------------------------------
(* Decode                                                                  *)

ciVariableDataMode1 == \h72
ciFixedDataMode1 == \h73
minFrameLen == 21

TelegramInit ==
    /\ Init
    /\ stage = "head"
    /\ dife = <<>> /\ vife = <<>> /\ text = <<>> /\ readings = <<>>
    /\ result = Refused("pending")

Return(r) ==
    /\ result' = r
    /\ stage' = "over"
    /\ UNCHANGED <<vars, contentVars>>

IsLong == Len(frame) >= minFrameLen
CI == frame[7]

TooShort == stage = "head" /\ ~IsLong /\ Return(Refused("invalid"))

UnsupportedCI ==
    /\ stage = "head" /\ IsLong /\ CI \notin {ciVariableDataMode1, ciFixedDataMode1}
    /\ Return(Refused("unsupported"))

DecodeFixed ==
    /\ stage = "head" /\ IsLong /\ CI = ciFixedDataMode1
    /\ Return(decodeFixed)

DecodeVariable ==
    /\ stage = "head" /\ IsLong /\ CI = ciVariableDataMode1
    /\ stage' = "walk"
    /\ UNCHANGED <<vars, contentVars, result>>

\* The bytes that a step of the walk reads, the value's if it ends a record.
BytesRead == SubSeq(data, i + 1, i')
ValueBytes == SubSeq(data, i + 1, records'[Len(records')].to)

\* A step of the walk, and what it keeps of the bytes it reads.
Walk ==
    /\ stage = "walk"
    /\ Next
    /\ dife' = CASE at = "dif" -> <<>> [] at = "dife" -> dife \o BytesRead [] OTHER -> dife
    /\ vife' = CASE at = "dif" -> <<>> [] at = "vife" -> vife \o BytesRead [] OTHER -> vife
    /\ text' = CASE at = "dif"  -> <<>>
                 [] at = "text" -> ASCIIText(SubSeq(BytesRead, 2, Len(BytesRead)))
                 [] OTHER       -> text
    /\ readings' = IF Len(records') <= Len(records) THEN SubSeq(readings, 1, Len(records'))
                   ELSE Append(readings, IF at = "value" THEN Reading(ValueBytes)
                                         ELSE SpecialReading(Here))
    /\ UNCHANGED <<stage, result>>

Finish == stage = "walk" /\ Over /\ Return(decodeVariable)

TelegramNext == TooShort \/ UnsupportedCI \/ DecodeFixed \/ DecodeVariable \/ Walk \/ Finish

\* Decode is a computation without I/O.
TelegramSpec == TelegramInit /\ [][TelegramNext]_telegramVars /\ WF_telegramVars(TelegramNext)

-----------------------------------------------------------------------------
(* What a caller asks of the frame (records.go, mbusctl's read)            *)

\* The record of rs at the first of the places that match, if there is one.
Find(rs, places) == {rs[k] : k \in {k \in places : \A j \in places : k <= j}}

MatchCurrent(r) == r.storage = 0 /\ r.tariff = 0 /\ r.device = 0
MatchTimestamp(r) == r.unit.date # "none"

MatchRegister(r, type, function) ==
    r.unit.type = type /\ r.function = function /\ MatchCurrent(r)

Record(type, function) ==
    Find(result.records,
         {k \in 1..Len(result.records) : MatchRegister(result.records[k], type, function)})

\* Value: a number, or why there is none.
Value(type, function) ==
    LET found == Record(type, function)
        r     == CHOOSE x \in found : TRUE
    IN  IF found = {} THEN [err |-> "no record", number |-> Zero]
        ELSE IF r.err # "none" THEN [err |-> r.err, number |-> Zero]
        ELSE [err |-> "none", number |-> r.value]

MatchTime(r) == MatchTimestamp(r) /\ r.err = "none"

\* Timestamp: the time, if there is one.
Timestamp ==
    {r.time : r \in Find(result.records,
        {k \in 1..Len(result.records) : MatchTime(result.records[k])
                                       /\ MatchCurrent(result.records[k])})}

\* recordValue: what mbusctl shows of a record.
recordValue(r) ==
    IF r.err # "none" THEN [as |-> "error"]
    ELSE IF r.time # NoTime THEN [as |-> "time", time |-> r.time]
    ELSE IF r.text # <<>> THEN [as |-> "text", text |-> r.text]
    ELSE [as |-> "number", number |-> r.value, unit |-> r.unit.unit, label |-> r.unit.label]

-----------------------------------------------------------------------------
(* What is assumed of the areas: which of them are legal telegrams, told   *)
(* from the bytes alone.                                                   *)

HasHeader(f) == Len(f) >= minFrameLen /\ SerialOf(f) # {}

IsWholeVariable(a) == HasHeader(a.frame) /\ a.frame[7] = ciVariableDataMode1 /\ EndsWell(a)

IsWholeFixed(a) ==
    /\ HasHeader(a.frame) /\ a.frame[7] = ciFixedDataMode1
    /\ Len(a.frame) >= fixedMinFrameLen

\* A telegram is whole if it has the header of one, and, if it is a variable
\* data response, its records lie in its data to the end, or to the part of the
\* manufacturer, which is a record itself.
SendersAreLegal ==
    \A a \in Areas :
        /\ a.frame \in Seq(0..255) /\ Len(a.meant) \in Nat
        /\ a.whole <=> IsWholeVariable(a) \/ IsWholeFixed(a)
        /\ IsWholeFixed(a) => Len(a.meant) = 2
        /\ IsWholeVariable(a) =>
            Len(a.meant) = Len(a.layout) + (IF a.stop < Len(a.data) THEN 1 ELSE 0)

ASSUME SendersAssumption == SendersAreLegal

-----------------------------------------------------------------------------
(* What Decode promises.  An area says what its sender meant: sent, who it *)
(* is; meant, record for record, which register it is and what it reads,   *)
(* as recordValue would show it, or nothing; whole, it is legal and not    *)
(* cut.                                                                    *)

IsOver == stage = "over"
IsDecoded == IsOver /\ result.err = "none"

\* A telegram that is cut within a record, or breaks a rule, is refused, not
\* shortened (decode.go 323-325); so is one whose identification is none
\* (decode.go 126-135); every other one is decoded, to its last record.
WholeOrRefused == IsOver =>
    /\ area.whole <=> result.err = "none"
    /\ area.whole => Len(result.records) = Len(area.meant)

SameNumber(x, y) ==
    LET least == IF x.ten < y.ten THEN x.ten ELSE y.ten
    IN  x.mant * 10^(x.ten - least) = y.mant * 10^(y.ten - least)

\* A shown value reads as the sender meant it.
ReadsAs(shown, meant) ==
    \/ meant.as = "nothing"
    \/ /\ shown.as = "number" /\ meant.as = "number"
       /\ shown.unit = meant.unit /\ shown.label = meant.label
       /\ SameNumber(shown.number, meant.number)
    \/ shown.as # "number" /\ shown = meant

DecodedSoFar == IF IsDecoded THEN result.records ELSE readings

IsCurrent(m) == <<m.storage, m.tariff, m.device>> = <<0, 0, 0>>
IsOfRegister(m, type, function) == m.type = type /\ m.function = function /\ IsCurrent(m)
IsTime(m) == m.reads.as = "time"

\* The record r is the one that m is sent for.
IsMeant(r, m) ==
    /\ r.function = m.function /\ r.unit.type = m.type /\ r.more = m.more
    /\ <<r.storage, r.tariff, r.device>> = <<m.storage, m.tariff, m.device>>
    /\ ReadsAs(recordValue(r), m.reads)
    /\ m.undated \/ (MatchTime(r) <=> IsTime(m))

\* However far the walk has come, the k-th record read is the k-th one sent:
\* the same register, and the value, time, text or error that its sender put
\* there, in the unit he put it in; and what a caller takes for a date is one, if
\* dates are in integer fields (decode.go 259-265, 316-325, records.go 55-59).  A
\* record that carries no value is held to its register, and to being no date.
ReadingsAreMeant == ~IsOver \/ IsDecoded =>
    /\ Len(DecodedSoFar) <= Len(area.meant)
    /\ \A k \in 1..Len(DecodedSoFar) : IsMeant(DecodedSoFar[k], area.meant[k])

\* The reading of the record at the place r, from its own bytes alone.
TextAt(d, vif) ==
    IF IsPlainText(d[vif + 1]) THEN ASCIIText(SubSeq(d, vif + 3, UnitEnd(d, vif))) ELSE <<>>

ReadingAt(d, r) ==
    ReadingOf(d[r.from + 1], SubSeq(d, r.from + 2, r.vif),
              d[r.vif + 1], SubSeq(d, UnitEnd(d, r.vif) + 1, r.value), TextAt(d, r.vif),
              SubSeq(d, r.value + 1, ValueEnd(d, d[r.from + 1], r.value)))

\* The manufacturer's part, as a record.
SpecialAt(a) == a.stop < Len(a.data) /\ EndsWell(a)

\* The records of an area, each read by itself.
RecordsOf(a) ==
    [k \in 1..(Len(a.layout) + (IF SpecialAt(a) THEN 1 ELSE 0)) |->
        IF k <= Len(a.layout) THEN ReadingAt(a.data, a.layout[k])
        ELSE SpecialReading(a.data[a.stop + 1])]

\* Each record that lies in a telegram reads by itself as it is meant.
RecordsReadAsMeant ==
    \A a \in Areas :
        /\ Len(a.frame) >= minFrameLen /\ a.frame[7] = ciVariableDataMode1 =>
            /\ Len(RecordsOf(a)) <= Len(a.meant)
            /\ \A k \in 1..Len(RecordsOf(a)) : IsMeant(RecordsOf(a)[k], a.meant[k])
        /\ IsWholeFixed(a) => \A k \in 1..2 : IsMeant(fixedRecords(a.frame)[k], a.meant[k])

\* The header of a telegram, and the product that its records name, read as meant.
HeadersReadAsMeant ==
    \A a \in Areas : \A name \in DOMAIN a.sent :
        /\ IsWholeVariable(a) => variableFrame(a.frame, RecordsOf(a))[name] = a.sent[name]
        /\ IsWholeFixed(a) => fixedFrame(a.frame)[name] = a.sent[name]

AskedTypes == {VIFVolume} \cup {area.meant[k].type : k \in 1..Len(area.meant)}

\* The caller who asks for a register's current value gets the number that this
\* very meter sent for it, or an error when it sent none or sent one that is no
\* value; never another register's, and never a silent zero (records.go
\* 107-110, decode.go 126-131).  It is of registers whose first record carries a
\* number, or none: a text, a date and a record without data have a Value too,
\* which is no reading.
ValueIsSent == IsDecoded =>
    /\ \A name \in DOMAIN area.sent : result[name] = area.sent[name]
    /\ \A type \in AskedTypes, function \in {"instantaneous", "maximum"} :
        LET sent == Find(area.meant, {k \in 1..Len(area.meant) :
                                         IsOfRegister(area.meant[k], type, function)})
            got  == Value(type, function)
        IN  \/ sent = {} /\ got.err = "no record"
            \/ \E x \in sent : x.reads.as \in {"nothing", "text", "time"}
            \/ \E x \in sent : x.reads.as = "error" /\ got.err \notin {"none", "no record"}
            \/ \E x \in sent : /\ x.reads.as = "number" /\ got.err = "none"
                               /\ SameNumber(got.number, x.reads.number)

\* The caller who asks for the meter's clock gets the first current date that
\* the meter sent and did not mark invalid, and none if there is none
\* (records.go 122-124).  It is of telegrams whose dates are in integer fields:
\* of any other the frame has a timestamp, and it is the zero time.
TimestampIsSent == IsDecoded /\ (\A k \in 1..Len(area.meant) : ~area.meant[k].undated) =>
    Timestamp = {x.reads.time : x \in Find(area.meant,
        {k \in 1..Len(area.meant) : IsTime(area.meant[k]) /\ IsCurrent(area.meant[k])})}

IsForeign(a) ==
    /\ Len(a.frame) >= minFrameLen
    /\ a.frame[7] \notin {ciVariableDataMode1, ciFixedDataMode1}

IsBroken(a) ==
    /\ Len(a.frame) >= minFrameLen /\ a.frame[7] = ciVariableDataMode1
    /\ ~EndsWell(a)

\* The error tells what is wrong with a telegram that is refused: ErrUnsupportedCI a
\* CI of another kind; one that is neither of the package's two errors, records that
\* are cut or break a rule, whatever the identification; and ErrInvalidFrame the rest,
\* a telegram that is too short or of no number.  So ErrInvalidFrame is not told of
\* all bounds and consistency violations, as decode.go 98-100 has it.
RefusalTells == IsOver =>
    /\ result.err = "unsupported" <=> IsForeign(area)
    /\ result.err = "record" <=> IsBroken(area)
    /\ result.err = "invalid" <=> ~area.whole /\ ~IsForeign(area) /\ ~IsBroken(area)

\* Decode returns, whatever the bytes.
DecodeEnds == <>IsOver

=============================================================================
