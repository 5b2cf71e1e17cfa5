----------------------------- MODULE RecordWalk -----------------------------
(***************************************************************************)
(* decodeData: the walk over the data records of a telegram.  A record is  *)
(* a DIF, its extensions, a VIF, a unit in plain text if the VIF says so,  *)
(* the VIF's extensions and a value; every length is told by bytes that    *)
(* came off the wire.  The walk is one step per piece of a record, on an   *)
(* area chosen at the start, which the wire may have cut short anywhere.   *)
(***************************************************************************)
EXTENDS Encoding

CONSTANTS
    Areas,          \* what is walked: records with the bytes as their data,
                    \* and where in them records lie
    maxExtensions   \* extensions of a DIF or a VIF at most (10 in the code)

ASSUME RecordWalkAssumption ==
    /\ \A a \in Areas : a.data \in Seq(0..255)
    /\ maxExtensions \in Nat \ {0}

VARIABLES
    area,
    i,          \* the bytes read
    at,         \* the piece that is read next
    rec,        \* the record in progress: where it began, its DIF and its VIF,
                \* and the extensions read of the one or the other
    records     \* the records decoded

vars == <<area, i, at, rec, records>>

data == area.data

-----------------------------------------------------------------------------
maxLEBytes == 8

\* checkKthBitSet(b, 7)
Extended(b) == b >= 128

\* vif & 0x7f == 0x7c
IsPlainText(vif) == vif % 128 = 124

field(dif) == dif % 16

BCDFields == {9, 10, 11, 12, 14}
LVAR == 13

\* The bytes of the value for each data field but LVAR (difIntegerWidths,
\* difBCDWidths, decodeRecordValue).
Width(f) ==
    IF f \in {0, 8, 15} THEN 0
    ELSE IF f = 5 THEN 4
    ELSE IF f = 7 THEN 8
    ELSE IF f \in BCDFields THEN (IF f = 14 THEN 6 ELSE f - 8)
    ELSE f

\* decodeLVAR: what an LVAR byte may be, and the bytes of payload it tells.
ASCII == 0..191
LVARBCD == 192..223
Supported(lvar) ==
    lvar \in ASCII \cup LVARBCD \cup (224 + 1)..(224 + maxLEBytes) \cup {240 + 4}
PayloadSize(lvar) == IF lvar \in ASCII THEN lvar ELSE lvar % 16

-----------------------------------------------------------------------------
Init ==
    /\ area \in Areas
    /\ i = 0
    /\ at = "dif"
    /\ rec = [from |-> 0, dif |-> 0, vif |-> 0, ext |-> 0]
    /\ records = <<>>

\* data[i]
Here == data[i + 1]

\* need(data, i, n) == nil
Need(n) == i + n <= Len(data)

Fail ==
    /\ at' = "failed"
    /\ records' = <<>>
    /\ UNCHANGED <<area, i, rec>>

EndOfData ==
    /\ at = "dif" /\ i >= Len(data)
    /\ at' = "done"
    /\ UNCHANGED <<area, i, rec, records>>

\* 0Fh, 1Fh: the rest is the manufacturer's.
Special ==
    /\ at = "dif" /\ i < Len(data) /\ Here \in {15, 31}
    /\ records' = Append(records, [from |-> i, to |-> i + 1, bad |-> FALSE, more |-> Here = 31])
    /\ at' = "done"
    /\ UNCHANGED <<area, i, rec>>

\* Mutant: the filler is not stepped over.
FillerStays ==
    /\ at = "dif" /\ i < Len(data) /\ Here = 47
    /\ UNCHANGED vars

\* 2Fh
Filler ==
    /\ at = "dif" /\ i < Len(data) /\ Here = 47
    /\ i' = i + 1
    /\ UNCHANGED <<area, at, rec, records>>

ReadDIF ==
    /\ at = "dif" /\ i < Len(data) /\ Here \notin {15, 31, 47}
    /\ rec' = [from |-> i, dif |-> Here, vif |-> 0, ext |-> 0]
    /\ i' = i + 1
    /\ at' = IF Extended(Here) THEN "dife" ELSE "vif"
    /\ UNCHANGED <<area, records>>

\* Mutant: the limit is compared after the byte is taken.
ChainIsFullOneLate == rec.ext > maxExtensions

ChainIsFull == rec.ext >= maxExtensions

\* One turn of readExtensions' loop, for either chain.
ReadExtension ==
    /\ at \in {"dife", "vife"}
    /\ \/ /\ ChainIsFull \/ ~Need(1)
          /\ Fail
       \/ /\ ~ChainIsFull /\ Need(1) /\ Extended(Here)
          /\ rec' = [rec EXCEPT !.ext = @ + 1]
          /\ i' = i + 1
          /\ UNCHANGED <<area, at, records>>
       \/ /\ ~ChainIsFull /\ Need(1) /\ ~Extended(Here)
          /\ rec' = [rec EXCEPT !.ext = 0]
          /\ i' = i + 1
          /\ at' = IF at = "dife" THEN "vif" ELSE "value"
          /\ UNCHANGED <<area, records>>

AfterUnit(vif) == IF Extended(vif) THEN "vife" ELSE "value"

\* Mutant: a record that is cut off after its DIF is dropped without an error.
ReadVIFOrEnd ==
    /\ at = "vif"
    /\ \/ /\ ~Need(1)
          /\ at' = "done"
          /\ UNCHANGED <<area, i, rec, records>>
       \/ /\ Need(1)
          /\ rec' = [rec EXCEPT !.vif = Here]
          /\ i' = i + 1
          /\ at' = IF IsPlainText(Here) THEN "text" ELSE AfterUnit(Here)
          /\ UNCHANGED <<area, records>>

ReadVIF ==
    /\ at = "vif"
    /\ \/ /\ ~Need(1)
          /\ Fail
       \/ /\ Need(1)
          /\ rec' = [rec EXCEPT !.vif = Here]
          /\ i' = i + 1
          /\ at' = IF IsPlainText(Here) THEN "text" ELSE AfterUnit(Here)
          /\ UNCHANGED <<area, records>>

\* The unit in plain text: its length, then its characters.
ReadText ==
    /\ at = "text"
    /\ \/ /\ ~(Need(1) /\ Need(1 + Here))
          /\ Fail
       \/ /\ Need(1) /\ Need(1 + Here)
          /\ i' = i + 1 + Here
          /\ at' = AfterUnit(rec.vif)
          /\ UNCHANGED <<area, rec, records>>

\* The record ends with the n bytes read next.
Emit(n, bad) ==
    /\ records' = Append(records, [from |-> rec.from, to |-> i + n, bad |-> bad, more |-> FALSE])
    /\ i' = i + n
    /\ at' = "dif"
    /\ UNCHANGED <<area, rec>>

\* Mutant: an undecodable value is returned before its bytes are counted.
ReadValueBadStays ==
    /\ at = "value" /\ field(rec.dif) # LVAR
    /\ LET n   == Width(field(rec.dif))
           bad == field(rec.dif) \in BCDFields /\ BCDSigned(SubSeq(data, i + 1, i + n)) = {}
       IN  \/ /\ ~Need(n)
              /\ Fail
           \/ /\ Need(n)
              /\ records' = Append(records, [from |-> rec.from, to |-> i + n, bad |-> bad,
                                             more |-> FALSE])
              /\ i' = IF bad THEN i ELSE i + n
              /\ at' = "dif"
              /\ UNCHANGED <<area, rec>>

\* A value of the width its data field tells.  One that is no BCD is a bad
\* value, not a bad frame.
ReadValue ==
    /\ at = "value" /\ field(rec.dif) # LVAR
    /\ LET n   == Width(field(rec.dif))
           bad == field(rec.dif) \in BCDFields /\ BCDSigned(SubSeq(data, i + 1, i + n)) = {}
       IN  \/ ~Need(n) /\ Fail
           \/ Need(n) /\ Emit(n, bad)

\* A value of the width its first byte tells.
ReadLVAR ==
    /\ at = "value" /\ field(rec.dif) = LVAR
    /\ \/ /\ ~(Need(1) /\ Supported(Here) /\ Need(1 + PayloadSize(Here)))
          /\ Fail
       \/ /\ Need(1) /\ Supported(Here) /\ Need(1 + PayloadSize(Here))
          /\ LET n == 1 + PayloadSize(Here)
             IN  Emit(n, Here \in LVARBCD /\ BCDMagnitude(SubSeq(data, i + 2, i + n)) = {})

Next ==
    \/ EndOfData \/ Special \/ Filler
    \/ ReadDIF \/ ReadVIF \/ ReadExtension \/ ReadText
    \/ ReadValue \/ ReadLVAR

\* The walk is a loop without I/O.
Spec == Init /\ [][Next]_vars /\ WF_vars(Next)

-----------------------------------------------------------------------------
(* What a record is, whoever reads it: a place for its DIF, its VIF and    *)
(* its value such that the lengths the bytes tell fit one another.         *)

SpecialDIFs == {15, 31}
NoRecordDIFs == SpecialDIFs \cup {47}

\* The bytes of d between from and to are the extensions of the byte b.
ExtensionsLie(d, b, from, to) ==
    IF Extended(b)
    THEN /\ from < to /\ to <= Len(d) /\ to - from <= maxExtensions
         /\ \A j \in (from + 1)..(to - 1) : Extended(d[j])
         /\ ~Extended(d[to])
    ELSE from = to

\* The end of a VIF with the unit in plain text that it may have.
UnitEnd(d, vif) == IF IsPlainText(d[vif + 1]) THEN vif + 2 + d[vif + 2] ELSE vif + 1

UnitLies(d, vif) ==
    /\ IsPlainText(d[vif + 1]) => vif + 1 < Len(d)
    /\ UnitEnd(d, vif) <= Len(d)

ValueEnd(d, dif, value) ==
    IF field(dif) = LVAR THEN value + 1 + PayloadSize(d[value + 1])
    ELSE value + Width(field(dif))

ValueLies(d, dif, value) ==
    /\ field(dif) = LVAR => value < Len(d) /\ Supported(d[value + 1])
    /\ ValueEnd(d, dif, value) <= Len(d)

RecordLies(d, from, vif, value) ==
    /\ from < vif /\ vif < Len(d)
    /\ d[from + 1] \notin NoRecordDIFs
    /\ ExtensionsLie(d, d[from + 1], from + 1, vif)
    /\ UnitLies(d, vif)
    /\ ExtensionsLie(d, d[vif + 1], UnitEnd(d, vif), value)
    /\ ValueLies(d, d[from + 1], value)

NoRecordAt(d, from) == ~\E vif, value \in 0..Len(d) : RecordLies(d, from, vif, value)

\* The layout of an area: its records from the first on, up to the place where
\* the data ends, the rest is the manufacturer's, or no record lies.
Places == [from : Nat, vif : Nat, value : Nat]

PlaceEnd(a, k) ==
    IF k = 0 THEN 0
    ELSE ValueEnd(a.data, a.data[a.layout[k].from + 1], a.layout[k].value)

Upcoming(a, k) == IF k < Len(a.layout) THEN a.layout[k + 1].from ELSE a.stop

EndsWell(a) == a.stop = Len(a.data) \/ a.data[a.stop + 1] \in SpecialDIFs

IsLaidOut(a) ==
    /\ a.layout \in Seq(Places)
    /\ \A k \in 1..Len(a.layout) :
        RecordLies(a.data, a.layout[k].from, a.layout[k].vif, a.layout[k].value)
    /\ \A k \in 0..Len(a.layout) :
        /\ PlaceEnd(a, k) <= Upcoming(a, k)
        /\ \A j \in PlaceEnd(a, k)..(Upcoming(a, k) - 1) : a.data[j + 1] = 47
    /\ a.stop \in 0..Len(a.data)
    /\ EndsWell(a) \/ (a.data[a.stop + 1] # 47 /\ NoRecordAt(a.data, a.stop))

ASSUME LayoutAssumption == \A a \in Areas : IsLaidOut(a)

-----------------------------------------------------------------------------
Over == at \in {"done", "failed"}

\* A record as decoded: its bytes, whether its value is bad, and the mark that
\* more records follow in the next telegram.
Decoded == [from : Nat, to : Nat, bad : BOOLEAN, more : BOOLEAN]

\* No read is past the end: what has been read is at most what is there.
TypeOK ==
    /\ i \in 0..Len(data)
    /\ at \in {"dif", "dife", "vif", "text", "vife", "value", "done", "failed"}
    /\ rec \in [from : 0..Len(data), dif : 0..255, vif : 0..255, ext : 0..maxExtensions]
    /\ records \in Seq(Decoded)

\* The end of the k-th record, 0 being the start of the data.
End(k) == IF k = 0 THEN 0 ELSE records[k].to

\* The records follow one another in the data: each has a byte at least, none
\* shares a byte with another, and only fillers lie between them, so that no
\* byte is left out (decode.go 259-265).
RecordsTile ==
    \A k \in 1..Len(records) :
        /\ records[k].from < records[k].to
        /\ records[k].to <= Len(data)
        /\ End(k - 1) <= records[k].from
        /\ \A j \in End(k - 1)..(records[k].from - 1) : data[j + 1] = 47

\* A walk that is done has read everything: behind the last record there are
\* only fillers, unless it is the one that makes the rest the manufacturer's
\* (decode.go 271-284).
AllIsRead == at = "done" =>
    \/ \A j \in End(Len(records))..(Len(data) - 1) : data[j + 1] = 47
    \/ records # <<>> /\ data[records[Len(records)].from + 1] \in {15, 31}

=============================================================================
