--------------------------- MODULE TelegramProofs ---------------------------
(***************************************************************************)
(* Theorems about telegrams, wired and wireless, for every area of bytes:  *)
(* legal, cut, or nothing a meter would send.  The walk of Telegram is the *)
(* one of RecordWalk, whose invariants therefore hold of every frame.  The *)
(* walk finds the records that lie in the data, as the grammar of records  *)
(* has them, so that a telegram is decoded exactly when it is legal; each  *)
(* record is read from its own bytes, and so as its sender meant it, also  *)
(* by the caller who looks one up.                                         *)
(* Wmbus takes no byte that is not there, and what it takes from behind a  *)
(* CRC is what was sent.                                                   *)
(***************************************************************************)
EXTENDS Telegram, Wmbus, SequenceTheorems, TLAPS

Pieces == {"dife", "vif", "text", "vife", "value"}

\* Nothing but fillers from the end of the last record up to j.
Idle(j) ==
    /\ End(Len(records)) <= j
    /\ \A k \in End(Len(records))..(j - 1) : data[k + 1] = 47

\* What is not yet in a record: fillers, and the record in progress.
Pending ==
    /\ at = "dif" => Idle(i)
    /\ at \in Pieces => Idle(rec.from) /\ rec.from < i

IInv ==
    /\ area \in Areas
    /\ TypeOK
    /\ RecordsTile
    /\ Pending

-----------------------------------------------------------------------------
(* Sizes                                                                   *)

LEMMA HereIsByte ==
    ASSUME area \in Areas, i \in Nat, i < Len(data)
    PROVE  Here \in 0..255
<1>1. data \in Seq(0..255)
  BY RecordWalkAssumption DEF data
<1>2. i + 1 \in 1..Len(data)
  BY <1>1
<1>3. data[i + 1] \in 0..255
  BY <1>1, <1>2, ElementOfSeq
<1> QED
  BY <1>3 DEF Here

LEMMA WidthIsNat ==
    ASSUME NEW b \in 0..255, field(b) # LVAR
    PROVE  Width(field(b)) \in Nat
<1>1. field(b) \in 0..15
  BY DEF field
<1> QED
  BY <1>1 DEF Width, BCDFields, LVAR

LEMMA PayloadIsNat ==
    ASSUME NEW b \in 0..255
    PROVE  PayloadSize(b) \in Nat
  BY DEF PayloadSize, ASCII

LEMMA EndIsNat ==
    ASSUME TypeOK
    PROVE  End(Len(records)) \in Nat
<1>1. CASE Len(records) = 0
  BY <1>1 DEF End
<1>2. CASE Len(records) # 0
  <2>1. records \in Seq(Decoded) /\ Len(records) \in 1..Len(records)
    BY <1>2 DEF TypeOK
  <2>2. records[Len(records)] \in Decoded
    BY <2>1, ElementOfSeq
  <2> QED
    BY <1>2, <2>2 DEF End, Decoded
<1> QED
  BY <1>1, <1>2

-----------------------------------------------------------------------------
(* The ways a step ends                                                    *)

LEMMA FailKeeps ==
    ASSUME IInv, Fail
    PROVE  IInv'
<1>1. records' = <<>> /\ at' = "failed" /\ area' = area /\ i' = i /\ rec' = rec
  BY DEF Fail
<1>2. TypeOK'
  BY <1>1 DEF IInv, TypeOK, data
<1>3. RecordsTile' /\ Pending'
  BY <1>1 DEF RecordsTile, Pending, Pieces
<1> QED
  BY <1>1, <1>2, <1>3 DEF IInv

\* A record appended behind the others, which begins where only fillers have
\* come since the last, keeps the tiling.
LEMMA AppendTiles ==
    ASSUME IInv, NEW r \in Decoded,
           Idle(r.from), r.from < r.to, r.to <= Len(data),
           area' = area, records' = Append(records, r)
    PROVE  /\ records' \in Seq(Decoded)
           /\ RecordsTile'
           /\ End(Len(records))' = r.to
<1> DEFINE n == Len(records)
<1>1. records \in Seq(Decoded)
  BY DEF IInv, TypeOK
<1>2. /\ n \in Nat
      /\ Len(records') = n + 1
      /\ \A k \in 1..n : records'[k] = records[k]
      /\ records'[n + 1] = r
      /\ records' \in Seq(Decoded)
  BY <1>1
<1>3. \A k \in 0..n : (IF k = 0 THEN 0 ELSE records'[k].to) = End(k)
  BY <1>2 DEF End
<1>4. data' = data
  BY DEF data
<1>5. ASSUME NEW k \in 1..(n + 1)
      PROVE  /\ records'[k].from < records'[k].to
             /\ records'[k].to <= Len(data)
             /\ End(k - 1) <= records'[k].from
             /\ \A j \in End(k - 1)..(records'[k].from - 1) : data[j + 1] = 47
  <2>1. CASE k \in 1..n
    BY <2>1, <1>2 DEF IInv, RecordsTile
  <2>2. CASE k = n + 1
    BY <2>2, <1>2 DEF Idle
  <2> QED
    BY <2>1, <2>2, <1>2
<1>6. ASSUME NEW k \in 1..(n + 1)
      PROVE  /\ End(k - 1)' <= records'[k].from
             /\ \A j \in End(k - 1)'..(records'[k].from - 1) : data'[j + 1] = 47
  <2>1. End(k - 1)' = End(k - 1)
    BY <1>2, <1>3 DEF End
  <2> QED
    BY <1>4, <1>5, <2>1
<1>7. RecordsTile'
  BY <1>2, <1>4, <1>5, <1>6 DEF RecordsTile
<1>8. End(Len(records))' = r.to
  BY <1>2 DEF End
<1> QED
  BY <1>2, <1>7, <1>8

LEMMA EmitKeeps ==
    ASSUME IInv, at = "value", NEW n \in Nat, Need(n), NEW bad \in BOOLEAN, Emit(n, bad)
    PROVE  IInv'
<1> DEFINE r == [from |-> rec.from, to |-> i + n, bad |-> bad, more |-> FALSE]
<1>1. /\ records' = Append(records, r) /\ area' = area
      /\ i' = i + n /\ at' = "dif" /\ rec' = rec
  BY DEF Emit
<1>2. Len(data) \in Nat
  BY RecordWalkAssumption DEF IInv, data
<1>3. i \in Nat /\ rec.from \in Nat /\ rec.from < i /\ Idle(rec.from)
  BY <1>2 DEF IInv, TypeOK, Pending, Pieces
<1>4. r \in Decoded
  BY <1>3 DEF Decoded
<1>5. r.from = rec.from /\ r.to = i + n /\ r.from < r.to /\ r.to <= Len(data)
  BY <1>3 DEF Need
<1>6. /\ records' \in Seq(Decoded)
      /\ RecordsTile'
      /\ End(Len(records))' = i + n
  <2> HIDE DEF r
  <2> QED
    BY <1>1, <1>3, <1>4, <1>5, AppendTiles
<1>7. TypeOK'
  BY <1>1, <1>2, <1>3, <1>5, <1>6 DEF IInv, TypeOK, data
<1>8. Pending'
  BY <1>1, <1>3, <1>6 DEF Pending, Pieces, Idle
<1> QED
  BY <1>1, <1>6, <1>7, <1>8 DEF IInv

\* A piece read that ends no record.
LEMMA PieceKeeps ==
    ASSUME IInv, at \in Pieces, area' = area, records' = records,
           rec'.from = rec.from, at' \in Pieces, i < i',
           TypeOK'
    PROVE  IInv'
<1>1. i \in Int /\ i' \in Int /\ rec.from \in Int
  BY DEF IInv, TypeOK
<1>2. Idle(rec.from)' /\ rec'.from < i'
  BY <1>1 DEF IInv, Pending, Idle, End, data
<1>3. RecordsTile'
  BY DEF IInv, RecordsTile, End, data
<1>4. at' # "dif"
  BY DEF Pieces
<1> QED
  BY <1>2, <1>3, <1>4 DEF IInv, Pending

-----------------------------------------------------------------------------
(* The steps                                                               *)

LEMMA InitInv == Init => IInv
<1> SUFFICES ASSUME Init PROVE IInv
  OBVIOUS
<1>1. data \in Seq(0..255) /\ Len(data) \in Nat
  BY RecordWalkAssumption DEF Init, data
<1>2. TypeOK
  BY <1>1, RecordWalkAssumption DEF Init, TypeOK
<1>3. RecordsTile /\ Pending
  BY DEF Init, RecordsTile, Pending, Pieces, Idle, End
<1> QED
  BY <1>2, <1>3 DEF IInv, Init

LEMMA NextInv == IInv /\ [Next]_vars => IInv'
<1> SUFFICES ASSUME IInv, [Next]_vars PROVE IInv'
  OBVIOUS
<1>t. TypeOK /\ area \in Areas
  BY DEF IInv
<1>n. data \in Seq(0..255) /\ Len(data) \in Nat /\ i \in Nat
  BY <1>t, RecordWalkAssumption DEF data, TypeOK
<1>1. CASE EndOfData
  <2>1. TypeOK'
    BY <1>1, <1>t DEF EndOfData, TypeOK, data
  <2>2. RecordsTile' /\ Pending'
    BY <1>1 DEF EndOfData, IInv, RecordsTile, End, data, Pending, Pieces
  <2> QED
    BY <1>1, <1>t, <2>1, <2>2 DEF EndOfData, IInv
<1>2. CASE Special
  <2> DEFINE r == [from |-> i, to |-> i + 1, bad |-> FALSE, more |-> Here = 31]
  <2>1. /\ records' = Append(records, r) /\ area' = area /\ i' = i /\ rec' = rec
        /\ at' = "done" /\ i < Len(data)
    BY <1>2 DEF Special
  <2>2. r \in Decoded
    BY <1>n DEF Decoded
  <2>3. r.from = i /\ r.to = i + 1 /\ r.from < r.to /\ r.to <= Len(data)
    BY <1>n, <2>1
  <2>4. Idle(i)
    BY <1>2 DEF Special, IInv, Pending
  <2>5. /\ records' \in Seq(Decoded)
        /\ RecordsTile'
    <3> HIDE DEF r
    <3> QED
      BY <2>1, <2>2, <2>3, <2>4, AppendTiles
  <2>6. TypeOK'
    BY <1>t, <2>1, <2>5 DEF TypeOK, data
  <2> QED
    BY <1>t, <2>1, <2>5, <2>6 DEF IInv, Pending, Pieces
<1>3. CASE Filler
  <2>1. /\ area' = area /\ i' = i + 1 /\ rec' = rec /\ records' = records /\ at' = at
        /\ at = "dif" /\ i < Len(data) /\ data[i + 1] = 47
    BY <1>3 DEF Filler, Here
  <2>2. TypeOK'
    BY <1>t, <1>n, <2>1 DEF TypeOK, data
  <2>3. End(Len(records)) \in Nat
    BY <1>t, EndIsNat
  <2>4. Idle(i)'
    <3>1. End(Len(records))' = End(Len(records)) /\ data' = data
      BY <2>1 DEF End, data
    <3>2. Idle(i)
      BY <2>1 DEF IInv, Pending
    <3> QED
      BY <1>n, <2>1, <2>3, <3>1, <3>2 DEF Idle
  <2>5. RecordsTile'
    BY <2>1 DEF IInv, RecordsTile, End, data
  <2> QED
    BY <1>t, <2>1, <2>2, <2>4, <2>5 DEF IInv, Pending, Pieces
<1>4. CASE ReadDIF
  <2>1. /\ area' = area /\ i' = i + 1 /\ records' = records /\ at' \in {"dife", "vif"}
        /\ rec' = [from |-> i, dif |-> Here, vif |-> 0, ext |-> 0]
        /\ at = "dif" /\ i < Len(data)
    BY <1>4 DEF ReadDIF
  <2>2. Here \in 0..255
    BY <1>t, <1>n, <2>1, HereIsByte
  <2>3. TypeOK'
    BY <1>t, <1>n, <2>1, <2>2, RecordWalkAssumption DEF TypeOK, data
  <2>4. Idle(rec.from)'
    BY <2>1 DEF IInv, Pending, Idle, End, data
  <2>5. RecordsTile'
    BY <2>1 DEF IInv, RecordsTile, End, data
  <2> QED
    BY <1>t, <1>n, <2>1, <2>3, <2>4, <2>5 DEF IInv, Pending, Pieces
<1>5. CASE ReadVIF
  <2>1. CASE Fail
    BY <2>1, FailKeeps
  <2>2. CASE Need(1) /\ ~Fail
    <3>1. /\ area' = area /\ i' = i + 1 /\ records' = records
          /\ rec' = [rec EXCEPT !.vif = Here]
          /\ at' \in {"text", "vife", "value"} /\ at = "vif"
      BY <1>5, <2>2 DEF ReadVIF, AfterUnit
    <3>2. i < Len(data) /\ Here \in 0..255
      BY <1>t, <1>n, <2>2, HereIsByte DEF Need
    <3>3. rec' = [from |-> rec.from, dif |-> rec.dif, vif |-> Here, ext |-> rec.ext]
      BY <1>t, <3>1 DEF TypeOK
    <3>4. rec' \in [from : 0..Len(data), dif : 0..255, vif : 0..255, ext : 0..maxExtensions]
      <4>1. /\ rec.from \in 0..Len(data) /\ rec.dif \in 0..255
            /\ rec.ext \in 0..maxExtensions
        BY <1>t DEF TypeOK
      <4> QED
        BY <3>2, <3>3, <4>1
    <3>5. TypeOK'
      <4>1. i' \in 0..Len(data)
        BY <1>n, <3>1, <3>2
      <4> QED
        BY <1>t, <3>1, <3>4, <4>1 DEF TypeOK, data
    <3> QED
      BY <1>n, <3>1, <3>3, <3>5, PieceKeeps DEF Pieces
  <2> QED
    BY <1>5, <2>1, <2>2 DEF ReadVIF
<1>6. CASE ReadExtension
  <2>1. CASE Fail
    BY <2>1, FailKeeps
  <2>2. CASE Need(1) /\ ~Fail
    <3>1. /\ area' = area /\ i' = i + 1 /\ records' = records
          /\ at \in Pieces /\ at' \in Pieces
          /\ \/ ~ChainIsFull /\ rec' = [rec EXCEPT !.ext = @ + 1]
             \/ rec' = [rec EXCEPT !.ext = 0]
      BY <1>6, <2>2 DEF ReadExtension, Pieces
    <3>2. i + 1 <= Len(data)
      BY <2>2 DEF Need
    <3>3. rec \in [from : 0..Len(data), dif : 0..255, vif : 0..255, ext : 0..maxExtensions]
      BY <1>t DEF TypeOK
    <3>4. rec.ext \in Nat /\ (~ChainIsFull => rec.ext + 1 \in 0..maxExtensions)
      BY <3>3, RecordWalkAssumption DEF ChainIsFull
    <3>5. PICK n \in 0..maxExtensions :
            rec' = [from |-> rec.from, dif |-> rec.dif, vif |-> rec.vif, ext |-> n]
      BY <3>1, <3>3, <3>4, RecordWalkAssumption
    <3>6. TypeOK'
      BY <1>t, <1>n, <3>1, <3>2, <3>3, <3>5 DEF TypeOK, data, Pieces
    <3> QED
      BY <1>n, <3>1, <3>5, <3>6, PieceKeeps
  <2> QED
    BY <1>6, <2>1, <2>2 DEF ReadExtension
<1>7. CASE ReadText
  <2>1. CASE Fail
    BY <2>1, FailKeeps
  <2>2. CASE Need(1) /\ Need(1 + Here) /\ ~Fail
    <3>1. /\ area' = area /\ i' = i + 1 + Here /\ records' = records /\ rec' = rec
          /\ at = "text" /\ at' \in {"vife", "value"}
      BY <1>7, <2>2 DEF ReadText, AfterUnit
    <3>2. Here \in 0..255
      BY <1>t, <1>n, <2>2, HereIsByte DEF Need
    <3>3. i' \in 0..Len(data) /\ i < i'
      BY <1>n, <2>2, <3>1, <3>2 DEF Need
    <3>4. TypeOK'
      BY <1>t, <3>1, <3>3 DEF TypeOK, data
    <3> QED
      BY <3>1, <3>3, <3>4, PieceKeeps DEF Pieces
  <2> QED
    BY <1>7, <2>1, <2>2 DEF ReadText
<1>8. CASE ReadValue
  <2> DEFINE n == Width(field(rec.dif))
             bad == field(rec.dif) \in BCDFields /\ BCDSigned(SubSeq(data, i + 1, i + n)) = {}
  <2>1. CASE Fail
    BY <2>1, FailKeeps
  <2>2. CASE Need(n) /\ Emit(n, bad)
    <3>1. rec.dif \in 0..255 /\ field(rec.dif) # LVAR /\ at = "value"
      BY <1>8, <1>t DEF ReadValue, TypeOK
    <3>2. n \in Nat
      BY <3>1, WidthIsNat
    <3>3. bad \in BOOLEAN
      OBVIOUS
    <3> HIDE DEF n, bad
    <3> QED
      BY <2>2, <3>1, <3>2, <3>3, EmitKeeps
  <2> QED
    BY <1>8, <2>1, <2>2 DEF ReadValue
<1>9. CASE ReadLVAR
  <2> DEFINE n == 1 + PayloadSize(Here)
             bad == Here \in LVARBCD /\ BCDMagnitude(SubSeq(data, i + 2, i + n)) = {}
  <2>1. CASE Fail
    BY <2>1, FailKeeps
  <2>2. CASE Need(1) /\ Need(n) /\ Emit(n, bad)
    <3>1. at = "value"
      BY <1>9 DEF ReadLVAR
    <3>2. Here \in 0..255
      BY <1>t, <1>n, <2>2, HereIsByte DEF Need
    <3>3. n \in Nat
      BY <3>2, PayloadIsNat
    <3>4. bad \in BOOLEAN
      OBVIOUS
    <3> HIDE DEF n, bad
    <3> QED
      BY <2>2, <3>1, <3>3, <3>4, EmitKeeps
  <2> QED
    BY <1>9, <2>1, <2>2 DEF ReadLVAR
<1>10. CASE UNCHANGED vars
  BY <1>10 DEF vars, IInv, TypeOK, RecordsTile, Pending, Idle, End, Pieces, data
<1> QED
  BY <1>1, <1>2, <1>3, <1>4, <1>5, <1>6, <1>7, <1>8, <1>9, <1>10 DEF Next

LEMMA WalkInv == Spec => []IInv
<1>1. Init => IInv
  BY InitInv
<1>2. IInv /\ [Next]_vars => IInv'
  BY NextInv
<1> QED
  BY <1>1, <1>2, PTL DEF Spec

-----------------------------------------------------------------------------
\* The walk reads no byte past the end and its chains of extensions are
\* bounded, whatever the bytes (need, readExtensions).
THEOREM WalkStaysInside == Spec => []TypeOK
<1>1. IInv => TypeOK
  BY DEF IInv
<1> QED
  BY <1>1, WalkInv, PTL

\* No byte belongs to two records and none but a filler is left out between
\* them, whatever the bytes (decodeData).
THEOREM RecordsDoTile == Spec => []RecordsTile
<1>1. IInv => RecordsTile
  BY DEF IInv
<1> QED
  BY <1>1, WalkInv, PTL

-----------------------------------------------------------------------------
(* The end of the walk                                                     *)

LEMMA EndKeeps ==
    ASSUME IInv, EndOfData
    PROVE  AllIsRead'
<1>1. at = "dif" /\ i >= Len(data) /\ area' = area /\ records' = records
  BY DEF EndOfData
<1>2. Idle(i) /\ i \in Nat /\ Len(data) \in Nat
  BY <1>1, RecordWalkAssumption DEF IInv, Pending, TypeOK, data
<1>3. \A j \in End(Len(records))..(Len(data) - 1) : data[j + 1] = 47
  BY <1>1, <1>2, EndIsNat DEF Idle, IInv
<1> QED
  BY <1>1, <1>3 DEF AllIsRead, End, data

LEMMA SpecialKeeps ==
    ASSUME IInv, Special
    PROVE  AllIsRead'
<1> DEFINE r == [from |-> i, to |-> i + 1, bad |-> FALSE, more |-> Here = 31]
<1>1. records' = Append(records, r) /\ area' = area /\ Here \in {15, 31}
  BY DEF Special
<1>2. records \in Seq(Decoded) /\ i \in Nat
  BY DEF IInv, TypeOK
<1>3. r \in Decoded
  BY <1>2 DEF Decoded
<1>4. records' # <<>> /\ records'[Len(records')] = r
  <2> HIDE DEF r
  <2> QED
    BY <1>1, <1>2, <1>3
<1>5. r.from = i
  OBVIOUS
<1>6. data'[records'[Len(records')].from + 1] = Here
  BY <1>1, <1>4, <1>5 DEF data, Here
<1> QED
  BY <1>1, <1>4, <1>6 DEF AllIsRead

LEMMA NextReadsAll == IInv /\ AllIsRead /\ [Next]_vars => AllIsRead'
<1> SUFFICES ASSUME IInv, AllIsRead, [Next]_vars PROVE AllIsRead'
  OBVIOUS
<1>1. CASE EndOfData
  BY <1>1, EndKeeps
<1>2. CASE Special
  BY <1>2, SpecialKeeps
<1>3. CASE Filler
  BY <1>3 DEF Filler, AllIsRead
<1>4. CASE ReadDIF
  BY <1>4 DEF ReadDIF, AllIsRead
<1>5. CASE ReadVIF
  BY <1>5 DEF ReadVIF, Fail, AfterUnit, AllIsRead
<1>6. CASE ReadExtension
  BY <1>6 DEF ReadExtension, Fail, AllIsRead
<1>7. CASE ReadText
  BY <1>7 DEF ReadText, Fail, AfterUnit, AllIsRead
<1>8. CASE ReadValue
  BY <1>8 DEF ReadValue, Fail, Emit, AllIsRead
<1>9. CASE ReadLVAR
  BY <1>9 DEF ReadLVAR, Fail, Emit, AllIsRead
<1>10. CASE UNCHANGED vars
  BY <1>10 DEF vars, AllIsRead, End, data
<1> QED
  BY <1>1, <1>2, <1>3, <1>4, <1>5, <1>6, <1>7, <1>8, <1>9, <1>10 DEF Next

\* A walk that ends without an error has left nothing out, whatever the bytes
\* (decodeData).
THEOREM NothingIsLeftOut == Spec => []AllIsRead
<1>1. Init => AllIsRead
  BY DEF Init, AllIsRead
<1> QED
  BY <1>1, WalkInv, NextReadsAll, PTL DEF Spec

-----------------------------------------------------------------------------
(* The walk and the layout: what is found is what lies there               *)

\* The first n records are the first n of the layout.
Matched(n) ==
    /\ n <= Len(area.layout)
    /\ \A k \in 1..n : /\ records[k].from = area.layout[k].from
                       /\ records[k].to = PlaceEnd(area, k)

\* The walk finds the records that lie in the data, from the first on.  It is
\* done behind the last, and the manufacturer's part then counts as one more
\* record; it fails when what follows the last is no record.
FoundIsLaid ==
    /\ at \in Pieces \cup {"dif"} => Matched(Len(records))
    /\ at = "done" =>
        /\ EndsWell(area)
        /\ Matched(Len(area.layout))
        /\ Len(records) = Len(area.layout) + (IF area.stop < Len(data) THEN 1 ELSE 0)
        /\ area.stop < Len(data) => records[Len(records)].from = area.stop
    /\ at = "failed" => ~EndsWell(area)

\* The extensions read so far of the chain that begins at from.
Begun(from) ==
    /\ i = from + rec.ext
    /\ \A j \in (from + 1)..i : Extended(data[j])

\* The VIF of the record in progress is at v.
VIFLies(v) ==
    /\ rec.from < v /\ v < Len(data)
    /\ rec.vif = data[v + 1]
    /\ ExtensionsLie(data, rec.dif, rec.from + 1, v)

\* The record in progress is where the next one of the layout should be, and
\* what has been read of it could be one.
InPiece ==
    /\ rec.from = Upcoming(area, Len(records))
    /\ rec.from < Len(data)
    /\ rec.dif = data[rec.from + 1] /\ rec.dif \notin NoRecordDIFs
    /\ at = "dife" => Extended(rec.dif) /\ Begun(rec.from + 1)
    /\ at \in {"vif", "text"} => rec.ext = 0
    /\ at = "vif" => ExtensionsLie(data, rec.dif, rec.from + 1, i)
    /\ at = "text" => /\ IsPlainText(rec.vif)
                      /\ \E v \in Nat : i = v + 1 /\ VIFLies(v)
    /\ at = "vife" =>
        /\ Extended(rec.vif)
        /\ \E v \in Nat : VIFLies(v) /\ UnitLies(data, v) /\ Begun(UnitEnd(data, v))
    /\ at = "value" =>
        \E v \in Nat : /\ VIFLies(v) /\ UnitLies(data, v)
                       /\ ExtensionsLie(data, rec.vif, UnitEnd(data, v), i)

\* Between two records the walk has not yet passed the next one.
Between ==
    /\ PlaceEnd(area, Len(records)) <= i
    /\ i <= Upcoming(area, Len(records))

FInv ==
    /\ FoundIsLaid
    /\ at = "dif" => Between
    /\ at \in Pieces => InPiece

-----------------------------------------------------------------------------
(* Extensions                                                              *)

LEMMA ExtensionsAreUnique ==
    ASSUME NEW d \in Seq(0..255), NEW b \in 0..255, NEW from \in Nat,
           NEW to \in Nat, NEW other \in Nat,
           ExtensionsLie(d, b, from, to), ExtensionsLie(d, b, from, other)
    PROVE  to = other
<1>1. CASE ~Extended(b)
  BY <1>1 DEF ExtensionsLie
<1>2. CASE Extended(b)
  <2>1. /\ from < to /\ ~Extended(d[to])
        /\ \A j \in (from + 1)..(to - 1) : Extended(d[j])
    BY <1>2 DEF ExtensionsLie
  <2>2. /\ from < other /\ ~Extended(d[other])
        /\ \A j \in (from + 1)..(other - 1) : Extended(d[j])
    BY <1>2 DEF ExtensionsLie
  <2>3. ~(to < other)
    BY <2>1, <2>2
  <2>4. ~(other < to)
    BY <2>1, <2>2
  <2> QED
    BY <2>3, <2>4
<1> QED
  BY <1>1, <1>2

\* A chain that ends has room for the extension that is read next.
LEMMA ExtensionsGoOn ==
    ASSUME NEW d \in Seq(0..255), NEW b \in 0..255, Extended(b),
           NEW from \in Nat, NEW n \in Nat, NEW to \in Nat,
           \A j \in (from + 1)..(from + n) : Extended(d[j]),
           ExtensionsLie(d, b, from, to)
    PROVE  n < maxExtensions /\ from + n + 1 <= Len(d)
<1>1. /\ from < to /\ to <= Len(d) /\ to - from <= maxExtensions /\ ~Extended(d[to])
  BY DEF ExtensionsLie
<1>2. ~(to <= from + n)
  BY <1>1
<1>3. maxExtensions \in Nat /\ Len(d) \in Nat
  BY RecordWalkAssumption
<1> QED
  BY <1>1, <1>2, <1>3

LEMMA ExtensionsEnd ==
    ASSUME NEW d \in Seq(0..255), NEW b \in 0..255, Extended(b),
           NEW from \in Nat, NEW n \in Nat, n < maxExtensions, from + n + 1 <= Len(d),
           \A j \in (from + 1)..(from + n) : Extended(d[j]),
           ~Extended(d[from + n + 1])
    PROVE  ExtensionsLie(d, b, from, from + n + 1)
<1>1. maxExtensions \in Nat /\ Len(d) \in Nat
  BY RecordWalkAssumption
<1>2. \A j \in (from + 1)..(from + n + 1 - 1) : Extended(d[j])
  OBVIOUS
<1>3. from < from + n + 1 /\ from + n + 1 - from <= maxExtensions
  BY <1>1
<1> QED
  BY <1>1, <1>2, <1>3 DEF ExtensionsLie

LEMMA ByteIsByte ==
    ASSUME NEW d \in Seq(0..255), NEW k \in Nat, k < Len(d)
    PROVE  d[k + 1] \in 0..255
<1>1. k + 1 \in 1..Len(d)
  OBVIOUS
<1> QED
  BY <1>1, ElementOfSeq

LEMMA UnitEndIsNat ==
    ASSUME NEW d \in Seq(0..255), NEW v \in Nat, v < Len(d), UnitLies(d, v)
    PROVE  UnitEnd(d, v) \in Nat
<1>1. CASE IsPlainText(d[v + 1])
  <2>1. v + 1 \in Nat /\ v + 1 < Len(d)
    BY <1>1 DEF UnitLies
  <2>2. d[(v + 1) + 1] \in 0..255
    BY <2>1, ByteIsByte
  <2>3. d[v + 2] \in 0..255
    BY <2>2
  <2>4. UnitEnd(d, v) = v + 2 + d[v + 2]
    BY <1>1 DEF UnitEnd
  <2>5. \A t \in 0..255 : v + 2 + t \in Nat
    OBVIOUS
  <2> QED
    BY <2>3, <2>4, <2>5, Zenon
<1>2. CASE ~IsPlainText(d[v + 1])
  BY <1>2 DEF UnitEnd
<1> QED
  BY <1>1, <1>2

-----------------------------------------------------------------------------
(* The layout                                                              *)

LEMMA LayoutFacts ==
    ASSUME area \in Areas
    PROVE  /\ data \in Seq(0..255) /\ Len(data) \in Nat
           /\ area.layout \in Seq(Places) /\ Len(area.layout) \in Nat
           /\ area.stop \in 0..Len(data)
           /\ \A k \in 1..Len(area.layout) :
                /\ area.layout[k] \in Places
                /\ RecordLies(data, area.layout[k].from, area.layout[k].vif,
                              area.layout[k].value)
<1>1. data \in Seq(0..255) /\ Len(data) \in Nat
  BY RecordWalkAssumption DEF data
<1>2. IsLaidOut(area)
  BY LayoutAssumption
<1>3. area.layout \in Seq(Places)
  BY <1>2 DEF IsLaidOut
<1>4. \A k \in 1..Len(area.layout) : area.layout[k] \in Places
  BY <1>3, ElementOfSeq
<1> QED
  BY <1>1, <1>2, <1>3, <1>4 DEF IsLaidOut, data

\* Where the next record should be is inside, and no filler lies there; before
\* it there are only fillers.
LEMMA UpcomingFacts ==
    ASSUME area \in Areas, NEW n \in 0..Len(area.layout)
    PROVE  /\ Upcoming(area, n) \in 0..Len(data)
           /\ Upcoming(area, n) < Len(data) => data[Upcoming(area, n) + 1] # 47
           /\ n < Len(area.layout) =>
                /\ Upcoming(area, n) < Len(data)
                /\ data[Upcoming(area, n) + 1] \notin NoRecordDIFs
                /\ Upcoming(area, n) = area.layout[n + 1].from
           /\ PlaceEnd(area, n) <= Upcoming(area, n)
           /\ \A j \in PlaceEnd(area, n)..(Upcoming(area, n) - 1) : data[j + 1] = 47
<1>1. IsLaidOut(area) /\ data = area.data
  BY LayoutAssumption DEF data
<1>2. /\ PlaceEnd(area, n) <= Upcoming(area, n)
      /\ \A j \in PlaceEnd(area, n)..(Upcoming(area, n) - 1) : data[j + 1] = 47
  BY <1>1 DEF IsLaidOut
<1>3. CASE n < Len(area.layout)
  <2>1. n + 1 \in 1..Len(area.layout)
    BY <1>3, LayoutFacts
  <2> DEFINE r == area.layout[n + 1]
  <2>2. r \in Places /\ RecordLies(data, r.from, r.vif, r.value)
    BY <2>1, LayoutFacts
  <2>3. r.from \in Nat /\ r.vif \in Nat
    BY <2>2 DEF Places
  <2>4. r.from < r.vif /\ r.vif < Len(data) /\ data[r.from + 1] \notin NoRecordDIFs
    BY <2>2 DEF RecordLies
  <2>5. Upcoming(area, n) = r.from
    BY <1>3 DEF Upcoming
  <2>6. r.from \in 0..Len(data) /\ r.from < Len(data)
    BY <2>3, <2>4, LayoutFacts
  <2>7. data[r.from + 1] # 47
    BY <2>4 DEF NoRecordDIFs
  <2> QED
    BY <1>2, <2>4, <2>5, <2>6, <2>7
<1>4. CASE n = Len(area.layout)
  <2>1. Upcoming(area, n) = area.stop
    BY <1>4 DEF Upcoming
  <2>2. area.stop \in 0..Len(data)
    BY LayoutFacts
  <2>3. area.stop < Len(data) => data[area.stop + 1] # 47
    BY <1>1, <2>2, LayoutFacts DEF IsLaidOut, EndsWell, SpecialDIFs
  <2> QED
    BY <1>2, <1>4, <2>1, <2>2, <2>3, LayoutFacts
<1> QED
  BY <1>3, <1>4, LayoutFacts

LEMMA PlaceEndIsInt ==
    ASSUME area \in Areas, NEW n \in 0..Len(area.layout)
    PROVE  PlaceEnd(area, n) \in Int
<1>1. CASE n = 0
  BY <1>1 DEF PlaceEnd
<1>2. CASE n # 0
  <2> DEFINE r == area.layout[n]
             dif == data[r.from + 1]
  <2>1. n \in 1..Len(area.layout)
    BY <1>2, LayoutFacts
  <2>2. r \in Places /\ RecordLies(data, r.from, r.vif, r.value)
    BY <2>1, LayoutFacts
  <2>3. r.from \in Nat /\ r.vif \in Nat /\ r.value \in Nat
    BY <2>2 DEF Places
  <2>4. r.from < Len(data) /\ ValueLies(data, dif, r.value)
    <3>1. /\ r.from < r.vif /\ r.vif < Len(data)
          /\ ValueLies(data, data[r.from + 1], r.value)
      BY <2>2 DEF RecordLies
    <3>2. Len(data) \in Nat
      BY LayoutFacts
    <3> QED
      BY <2>3, <3>1, <3>2
  <2>5. dif \in 0..255
    BY <2>3, <2>4, LayoutFacts, ByteIsByte
  <2>6. PlaceEnd(area, n) = ValueEnd(data, dif, r.value)
    BY <1>2 DEF PlaceEnd, data
  <2> HIDE DEF r, dif
  <2>7. CASE field(dif) = LVAR
    <3>1. r.value < Len(data)
      BY <2>4, <2>7 DEF ValueLies
    <3>2. data[r.value + 1] \in 0..255
      BY <2>3, <3>1, LayoutFacts, ByteIsByte
    <3>3. PayloadSize(data[r.value + 1]) \in Nat
      BY <3>2, PayloadIsNat
    <3>4. PlaceEnd(area, n) = r.value + 1 + PayloadSize(data[r.value + 1])
      BY <2>6, <2>7 DEF ValueEnd
    <3> QED
      BY <2>3, <3>3, <3>4
  <2>8. CASE field(dif) # LVAR
    <3>1. Width(field(dif)) \in Nat
      BY <2>5, <2>8, WidthIsNat
    <3>2. PlaceEnd(area, n) = r.value + Width(field(dif))
      BY <2>6, <2>8 DEF ValueEnd
    <3> QED
      BY <2>3, <3>1, <3>2
  <2> QED
    BY <2>7, <2>8
<1> QED
  BY <1>1, <1>2

\* Where no record lies, the layout has come to its end, and not a good one.
LEMMA NoneLies ==
    ASSUME area \in Areas, NEW n \in 0..Len(area.layout),
           Upcoming(area, n) < Len(data),
           data[Upcoming(area, n) + 1] \notin NoRecordDIFs,
           NoRecordAt(data, Upcoming(area, n))
    PROVE  ~EndsWell(area)
<1>1. n = Len(area.layout)
  <2> SUFFICES ASSUME n < Len(area.layout) PROVE FALSE
    BY LayoutFacts
  <2> DEFINE r == area.layout[n + 1]
  <2>1. n + 1 \in 1..Len(area.layout)
    BY LayoutFacts
  <2>2. r \in Places /\ RecordLies(data, r.from, r.vif, r.value)
    BY <2>1, LayoutFacts
  <2>3. r.from \in Nat /\ r.vif \in Nat /\ r.value \in Nat
    BY <2>2 DEF Places
  <2>4. r.vif < Len(data)
    BY <2>2 DEF RecordLies
  <2>5. r.value <= Len(data)
    <3>1. ValueLies(data, data[r.from + 1], r.value)
      BY <2>2 DEF RecordLies
    <3>2. data[r.from + 1] \in 0..255
      <4>0. r.from < r.vif /\ Len(data) \in Nat
        BY <2>2, LayoutFacts DEF RecordLies
      <4>1. r.from + 1 \in 1..Len(data)
        BY <2>3, <2>4, <4>0
      <4> QED
        BY <4>1, LayoutFacts, ElementOfSeq
    <3>3. CASE field(data[r.from + 1]) = LVAR
      BY <2>3, <3>1, <3>3, LayoutFacts DEF ValueLies
    <3>4. CASE field(data[r.from + 1]) # LVAR
      <4>1. Width(field(data[r.from + 1])) \in Nat
        BY <3>2, <3>4, WidthIsNat
      <4>2. r.value + Width(field(data[r.from + 1])) <= Len(data)
        BY <3>1, <3>4 DEF ValueLies, ValueEnd
      <4> QED
        BY <2>3, <4>1, <4>2, LayoutFacts
    <3> QED
      BY <3>3, <3>4
  <2>6. Upcoming(area, n) = r.from
    BY DEF Upcoming
  <2>7. r.vif \in 0..Len(data) /\ r.value \in 0..Len(data)
    BY <2>3, <2>4, <2>5, LayoutFacts
  <2> QED
    BY <2>2, <2>6, <2>7 DEF NoRecordAt
<1>2. Upcoming(area, n) = area.stop
  BY <1>1 DEF Upcoming
<1>3. area.stop \in Nat
  BY LayoutFacts
<1> QED
  BY <1>2, <1>3, LayoutFacts DEF EndsWell, NoRecordDIFs, data

-----------------------------------------------------------------------------
(* The steps that end a record                                             *)

\* A record in progress that turns out to be none: the layout ends badly here.
LEMMA FailFinds ==
    ASSUME IInv, FInv, at \in Pieces, Fail, NoRecordAt(data, rec.from)
    PROVE  FInv'
<1> DEFINE n == Len(records)
<1>1. area' = area /\ at' = "failed"
  BY DEF Fail
<1>2. InPiece /\ Matched(n)
  BY DEF FInv, FoundIsLaid
<1>3. area \in Areas /\ n \in Nat
  BY DEF IInv, TypeOK
<1>4. n \in 0..Len(area.layout)
  BY <1>2, <1>3, LayoutFacts DEF Matched
<1>5. /\ rec.from = Upcoming(area, n) /\ rec.from < Len(data)
      /\ data[rec.from + 1] \notin NoRecordDIFs
  BY <1>2 DEF InPiece
<1> HIDE DEF n
<1>6. ~EndsWell(area)
  BY <1>3, <1>4, <1>5, NoneLies
<1> QED
  BY <1>1, <1>6 DEF FInv, FoundIsLaid, Pieces

\* A record whose value has its bytes is the next one of the layout, with its
\* VIF and its value where they have been found.
LEMMA ValueIsThere ==
    ASSUME IInv, FInv, at = "value", ValueLies(data, rec.dif, i),
           NEW m \in Nat, m = Len(records)
    PROVE  /\ m + 1 \in 1..Len(area.layout)
           /\ area.layout[m + 1] = [from  |-> rec.from,
                                    vif   |-> area.layout[m + 1].vif,
                                    value |-> i]
           /\ area.layout[m + 1].vif \in Nat
           /\ VIFLies(area.layout[m + 1].vif)
           /\ UnitLies(data, area.layout[m + 1].vif)
<1> DEFINE p == area.layout[m + 1]
<1>2. /\ area \in Areas
      /\ i \in Nat /\ rec.from \in Nat /\ rec.dif \in 0..255 /\ rec.vif \in 0..255
  BY DEF IInv, TypeOK
<1>3. InPiece /\ Matched(m) /\ m \in 0..Len(area.layout)
  BY <1>2, LayoutFacts DEF FInv, FoundIsLaid, Pieces, Matched
<1>4. PICK v \in Nat : /\ VIFLies(v) /\ UnitLies(data, v)
                       /\ ExtensionsLie(data, rec.vif, UnitEnd(data, v), i)
  BY <1>3 DEF InPiece
<1>5. /\ rec.from < v /\ v < Len(data) /\ rec.vif = data[v + 1]
      /\ ExtensionsLie(data, rec.dif, rec.from + 1, v)
  BY <1>4 DEF VIFLies
<1>6. /\ rec.from = Upcoming(area, m) /\ rec.from < Len(data)
      /\ rec.dif = data[rec.from + 1] /\ rec.dif \notin NoRecordDIFs
  BY <1>3 DEF InPiece
<1>7. RecordLies(data, rec.from, v, i)
  BY <1>4, <1>5, <1>6 DEF RecordLies
<1>8. i <= Len(data)
  BY <1>2, LayoutFacts DEF IInv, TypeOK
<1>9. m < Len(area.layout)
  <2> SUFFICES ASSUME m = Len(area.layout) PROVE FALSE
    BY <1>2, <1>3, LayoutFacts
  <2>1. rec.from = area.stop
    BY <1>6 DEF Upcoming
  <2>2. NoRecordAt(data, rec.from)
    <3>1. IsLaidOut(area)
      BY <1>2, LayoutAssumption
    <3>2. ~EndsWell(area)
      BY <1>2, <1>6, <2>1, LayoutFacts DEF EndsWell, NoRecordDIFs, data
    <3> QED
      BY <3>1, <3>2, <2>1 DEF IsLaidOut, data
  <2>3. v \in 0..Len(data) /\ i \in 0..Len(data)
    BY <1>2, <1>5, <1>8, LayoutFacts
  <2> QED
    BY <1>7, <2>2, <2>3 DEF NoRecordAt
<1>10. m + 1 \in 1..Len(area.layout)
  BY <1>2, <1>9, LayoutFacts
<1>11. p \in Places /\ RecordLies(data, p.from, p.vif, p.value)
  BY <1>2, <1>10, LayoutFacts
<1>12. p.from = rec.from /\ p.from \in Nat /\ p.vif \in Nat /\ p.value \in Nat
  BY <1>6, <1>9, <1>11 DEF Places, Upcoming
<1> HIDE DEF p
<1>13. v = p.vif
  <2>1. ExtensionsLie(data, rec.dif, rec.from + 1, p.vif)
    BY <1>6, <1>11, <1>12 DEF RecordLies
  <2>2. rec.from + 1 \in Nat
    BY <1>2
  <2> QED
    BY <1>2, <1>5, <1>12, <2>1, <2>2, ExtensionsAreUnique, LayoutFacts
<1>14. i = p.value
  <2>1. ExtensionsLie(data, rec.vif, UnitEnd(data, v), p.value)
    BY <1>5, <1>11, <1>13 DEF RecordLies
  <2>2. UnitEnd(data, v) \in Nat
    BY <1>2, <1>4, <1>5, UnitEndIsNat, LayoutFacts
  <2> QED
    BY <1>2, <1>4, <1>12, <2>1, <2>2, ExtensionsAreUnique, LayoutFacts
<1>15. p = [from |-> p.from, vif |-> p.vif, value |-> p.value]
  BY <1>11 DEF Places
<1>16. p = [from |-> rec.from, vif |-> p.vif, value |-> i]
  BY <1>12, <1>14, <1>15
<1> QED
  BY <1>4, <1>10, <1>12, <1>13, <1>16 DEF p

\* A record that has been read is the next one of the layout.
LEMMA EmitFinds ==
    ASSUME IInv, FInv, at = "value", ValueLies(data, rec.dif, i),
           NEW n \in Nat, i + n = ValueEnd(data, rec.dif, i),
           NEW bad \in BOOLEAN, Emit(n, bad)
    PROVE  FInv'
<1> DEFINE r == [from |-> rec.from, to |-> i + n, bad |-> bad, more |-> FALSE]
<1>m. PICK m \in Nat : m = Len(records)
  BY DEF IInv, TypeOK
<1>1. /\ records' = Append(records, r) /\ area' = area
      /\ i' = i + n /\ at' = "dif"
  BY DEF Emit
<1>2. area \in Areas /\ records \in Seq(Decoded) /\ i \in Nat
  BY DEF IInv, TypeOK
<1>3. InPiece /\ Matched(m)
  BY <1>m DEF FInv, FoundIsLaid, Pieces
<1>10. m + 1 \in 1..Len(area.layout)
  BY <1>m, ValueIsThere
<1>11. PICK v : area.layout[m + 1] = [from |-> rec.from, vif |-> v, value |-> i]
  BY <1>m, ValueIsThere, Zenon
<1>12. area.layout[m + 1].from = rec.from /\ area.layout[m + 1].value = i
  BY <1>11
<1>13. rec.dif = data[rec.from + 1]
  BY <1>3 DEF InPiece
<1>15. PlaceEnd(area, m + 1) = i + n
  <2>1. m + 1 # 0
    OBVIOUS
  <2> QED
    BY <1>12, <1>13, <2>1 DEF PlaceEnd, data
<1>16. /\ Len(records') = m + 1
       /\ \A k \in 1..m : records'[k] = records[k]
       /\ records'[m + 1] = r
  <2> HIDE DEF r
  <2> QED
    BY <1>m, <1>1, <1>2
<1>17. Matched(m + 1)'
  <2>1. ASSUME NEW k \in 1..(m + 1)
        PROVE  records'[k].from = area.layout[k].from /\ records'[k].to = PlaceEnd(area, k)
    <3>1. CASE k \in 1..m
      BY <1>3, <1>16, <3>1 DEF Matched
    <3>2. CASE k = m + 1
      <4>1. records'[k].from = rec.from /\ records'[k].to = i + n
        BY <1>16, <3>2
      <4> QED
        BY <1>12, <1>15, <3>2, <4>1
    <3> QED
      BY <1>2, <3>1, <3>2
  <2>2. area' = area /\ m + 1 <= Len(area.layout)
    BY <1>1, <1>10
  <2> QED
    BY <2>1, <2>2, Zenon DEF Matched
<1>18. PlaceEnd(area, m + 1) <= Upcoming(area, m + 1)
  <2>1. m + 1 \in 0..Len(area.layout)
    BY <1>10
  <2> QED
    BY <1>2, <2>1, UpcomingFacts
<1>19. Between'
  BY <1>1, <1>2, <1>15, <1>16, <1>18 DEF Between
<1>20. FoundIsLaid'
  BY <1>1, <1>16, <1>17 DEF FoundIsLaid
<1> QED
  BY <1>1, <1>19, <1>20 DEF FInv, Pieces

LEMMA InitFInv == Init => FInv
<1> SUFFICES ASSUME Init PROVE FInv
  OBVIOUS
<1>1. area \in Areas /\ i = 0 /\ at = "dif" /\ records = <<>>
  BY DEF Init
<1>2. 0 \in 0..Len(area.layout)
  BY <1>1, LayoutFacts
<1>3. PlaceEnd(area, 0) = 0
  BY DEF PlaceEnd
<1>4. Between
  BY <1>1, <1>2, <1>3, UpcomingFacts DEF Between
<1>5. FoundIsLaid
  BY <1>1, <1>2 DEF FoundIsLaid, Matched
<1> QED
  BY <1>1, <1>4, <1>5 DEF FInv, Pieces

-----------------------------------------------------------------------------
(* The steps within a record                                               *)

\* A piece read that ends no record.
LEMMA PieceFinds ==
    ASSUME FInv, at \in Pieces, at' \in Pieces, area' = area, records' = records, InPiece'
    PROVE  FInv'
<1>1. Matched(Len(records))' /\ at' # "dif"
  BY DEF FInv, FoundIsLaid, Matched, Pieces
<1>2. FoundIsLaid'
  BY <1>1 DEF FoundIsLaid, Pieces
<1> QED
  BY <1>1, <1>2 DEF FInv

\* A record that lies here has its VIF where it has been read.
LEMMA VIFIsThere ==
    ASSUME IInv, InPiece, NEW u \in Nat, ExtensionsLie(data, rec.dif, rec.from + 1, u),
           NEW v \in 0..Len(data), NEW w \in 0..Len(data),
           RecordLies(data, rec.from, v, w)
    PROVE  v = u
<1>1. ExtensionsLie(data, rec.dif, rec.from + 1, v)
  BY DEF RecordLies, InPiece
<1>2. rec.from + 1 \in Nat /\ rec.dif \in 0..255 /\ v \in Nat
  BY LayoutFacts DEF IInv, TypeOK
<1>3. data \in Seq(0..255)
  BY LayoutFacts DEF IInv
<1> QED
  BY <1>1, <1>2, <1>3, ExtensionsAreUnique

LEMMA DIFFinds ==
    ASSUME IInv, FInv, ReadDIF
    PROVE  FInv'
<1>m. PICK m \in Nat : m = Len(records)
  BY DEF IInv, TypeOK
<1>1. /\ rec' = [from |-> i, dif |-> Here, vif |-> 0, ext |-> 0]
      /\ i' = i + 1 /\ at = "dif" /\ i < Len(data)
      /\ at' = IF Extended(Here) THEN "dife" ELSE "vif"
      /\ area' = area /\ records' = records
      /\ Here = data[i + 1] /\ Here \notin NoRecordDIFs
  BY DEF ReadDIF, Here, NoRecordDIFs, SpecialDIFs
<1>2. area \in Areas /\ i \in Nat
  BY DEF IInv, TypeOK
<1>3. Matched(m) /\ m \in 0..Len(area.layout) /\ PlaceEnd(area, m) <= i /\ i <= Upcoming(area, m)
  BY <1>m, <1>1, <1>2, LayoutFacts DEF FInv, FoundIsLaid, Between, Matched
<1>4. Upcoming(area, m) = i
  <2> DEFINE u == Upcoming(area, m)
             e == PlaceEnd(area, m)
  <2>1. u \in 0..Len(data)
    BY <1>2, <1>3, UpcomingFacts
  <2>2. \A j \in e..(u - 1) : data[j + 1] = 47
    BY <1>2, <1>3, UpcomingFacts
  <2>3. e \in Int
    BY <1>2, <1>3, PlaceEndIsInt
  <2>4. data[i + 1] # 47
    BY <1>1 DEF NoRecordDIFs
  <2>5. e <= i /\ i <= u
    BY <1>3
  <2> HIDE DEF e, u
  <2>6. ~(i < u)
    BY <1>2, <2>1, <2>2, <2>3, <2>4, <2>5
  <2>7. i = u
    BY <1>2, <2>1, <2>5, <2>6
  <2> QED
    BY <2>7 DEF u
<1>5. /\ rec'.from = i /\ rec'.dif = Here /\ rec'.ext = 0
  BY <1>1
<1>6. Upcoming(area, Len(records))' = i
  BY <1>m, <1>1, <1>4
<1>7. /\ rec'.from = Upcoming(area, Len(records))' /\ rec'.from < Len(data)'
      /\ rec'.dif = data'[rec'.from + 1] /\ rec'.dif \notin NoRecordDIFs
  BY <1>1, <1>5, <1>6 DEF data
<1>8. at' = "dife" => Extended(rec'.dif) /\ Begun(rec.from + 1)'
  BY <1>1, <1>2, <1>5 DEF Begun
<1>9. at' = "vif" => ExtensionsLie(data, rec.dif, rec.from + 1, i)'
  BY <1>1, <1>2, <1>5 DEF ExtensionsLie
<1>10. at' \in {"dife", "vif"}
  BY <1>1
<1>11. InPiece'
  BY <1>5, <1>7, <1>8, <1>9, <1>10 DEF InPiece
<1>12. FoundIsLaid'
  BY <1>m, <1>1, <1>3, <1>10 DEF FoundIsLaid, Matched
<1> QED
  BY <1>10, <1>11, <1>12 DEF FInv

LEMMA VIFFinds ==
    ASSUME IInv, FInv, ReadVIF
    PROVE  FInv'
<1>1. /\ area \in Areas /\ i \in Nat /\ rec.from \in Nat /\ at = "vif" /\ rec.from < i
      /\ data \in Seq(0..255) /\ Len(data) \in Nat
  BY LayoutFacts DEF IInv, TypeOK, ReadVIF, Pending, Pieces
<1>2. InPiece
  BY <1>1 DEF FInv, Pieces
<1>3. ExtensionsLie(data, rec.dif, rec.from + 1, i) /\ rec.ext = 0
  BY <1>1, <1>2 DEF InPiece
<1>4. CASE ~Need(1)
  <2>1. Fail
    BY <1>4 DEF ReadVIF
  <2>2. ASSUME NEW v \in 0..Len(data), NEW w \in 0..Len(data),
               RecordLies(data, rec.from, v, w)
        PROVE  FALSE
    <3>1. v = i
      BY <1>1, <1>2, <1>3, <2>2, VIFIsThere
    <3>2. v < Len(data)
      BY <2>2 DEF RecordLies
    <3> QED
      BY <1>1, <1>4, <3>1, <3>2 DEF Need
  <2>3. NoRecordAt(data, rec.from)
    BY <2>2 DEF NoRecordAt
  <2> QED
    BY <1>1, <2>1, <2>3, FailFinds DEF Pieces
<1>5. CASE Need(1)
  <2>1. /\ rec' = [rec EXCEPT !.vif = Here] /\ i' = i + 1
        /\ at' = IF IsPlainText(Here) THEN "text" ELSE AfterUnit(Here)
        /\ area' = area /\ records' = records
    BY <1>5 DEF ReadVIF
  <2>2. /\ rec'.from = rec.from /\ rec'.dif = rec.dif /\ rec'.vif = Here /\ rec'.ext = 0
    BY <1>3, <2>1 DEF IInv, TypeOK
  <2>3. i < Len(data) /\ Here = data[i + 1] /\ data' = data
    BY <1>1, <1>5, <2>1 DEF Need, Here, data
  <2>4. /\ rec'.from = Upcoming(area, Len(records))' /\ rec'.from < Len(data)'
        /\ rec'.dif = data'[rec'.from + 1] /\ rec'.dif \notin NoRecordDIFs
    BY <1>2, <2>1, <2>2, <2>3 DEF InPiece
  <2>5. PICK v \in Nat : v = i
    BY <1>1
  <2>6. VIFLies(v)'
    BY <1>1, <1>3, <2>2, <2>3, <2>5 DEF VIFLies
  <2>7. CASE IsPlainText(Here)
    <3>1. at' = "text" /\ i' = v + 1
      BY <2>1, <2>5, <2>7
    <3>2. InPiece'
      BY <2>2, <2>4, <2>6, <2>7, <3>1 DEF InPiece
    <3> QED
      BY <1>1, <2>1, <3>1, <3>2, PieceFinds DEF Pieces
  <2>8. CASE ~IsPlainText(Here)
    <3>1. at' = AfterUnit(Here)
      BY <2>1, <2>8
    <3>2. UnitEnd(data, v) = v + 1 /\ UnitLies(data, v)
      BY <1>1, <2>3, <2>5, <2>8 DEF UnitEnd, UnitLies
    <3>3. UnitEnd(data', v) = v + 1 /\ UnitLies(data', v)
      BY <2>3, <3>2
    <3>4. CASE Extended(Here)
      <4>1. at' = "vife"
        BY <3>1, <3>4 DEF AfterUnit
      <4>2. Begun(v + 1)'
        BY <2>1, <2>2, <2>5 DEF Begun
      <4>3. Begun(UnitEnd(data, v))'
        BY <3>3, <4>2
      <4>4. InPiece'
        BY <2>2, <2>4, <2>6, <3>3, <3>4, <4>1, <4>3 DEF InPiece
      <4> QED
        BY <1>1, <2>1, <4>1, <4>4, PieceFinds DEF Pieces
    <3>5. CASE ~Extended(Here)
      <4>1. at' = "value"
        BY <3>1, <3>5 DEF AfterUnit
      <4>2. ExtensionsLie(data', rec'.vif, v + 1, i')
        BY <2>1, <2>2, <2>5, <3>5 DEF ExtensionsLie
      <4>3. ExtensionsLie(data, rec.vif, UnitEnd(data, v), i)'
        BY <3>3, <4>2
      <4>4. InPiece'
        BY <2>4, <2>6, <3>3, <4>1, <4>3 DEF InPiece
      <4> QED
        BY <1>1, <2>1, <4>1, <4>4, PieceFinds DEF Pieces
    <3> QED
      BY <3>4, <3>5
  <2> QED
    BY <2>7, <2>8
<1> QED
  BY <1>4, <1>5

LEMMA TextFinds ==
    ASSUME IInv, FInv, ReadText
    PROVE  FInv'
<1>1. /\ area \in Areas /\ i \in Nat /\ rec.from \in Nat /\ at = "text"
      /\ data \in Seq(0..255) /\ Len(data) \in Nat
  BY LayoutFacts DEF IInv, TypeOK, ReadText
<1>2. InPiece
  BY <1>1 DEF FInv, Pieces
<1>3. PICK u \in Nat : i = u + 1 /\ VIFLies(u)
  BY <1>1, <1>2 DEF InPiece
<1>4. /\ ExtensionsLie(data, rec.dif, rec.from + 1, u) /\ u < Len(data)
      /\ rec.vif = data[u + 1] /\ IsPlainText(rec.vif) /\ rec.ext = 0
  BY <1>1, <1>2, <1>3 DEF VIFLies, InPiece
<1>5. Here = data[u + 2] /\ UnitEnd(data, u) = u + 2 + data[u + 2]
  BY <1>3, <1>4 DEF Here, UnitEnd
<1>6. CASE ~(Need(1) /\ Need(1 + Here))
  <2>1. Fail
    BY <1>6 DEF ReadText
  <2>2. ASSUME NEW v \in 0..Len(data), NEW w \in 0..Len(data),
               RecordLies(data, rec.from, v, w)
        PROVE  FALSE
    <3>1. v = u
      BY <1>2, <1>4, <2>2, VIFIsThere
    <3>2. UnitLies(data, u)
      BY <2>2, <3>1 DEF RecordLies
    <3>3. u + 1 < Len(data) /\ UnitEnd(data, u) <= Len(data)
      BY <1>4, <3>2 DEF UnitLies
    <3>4. Need(1)
      BY <1>1, <1>3, <3>3 DEF Need
    <3>5. Here \in 0..255
      BY <1>1, <1>3, <3>3, HereIsByte
    <3>6. i + (1 + Here) = u + 2 + Here
      BY <1>3, <3>5
    <3>7. Need(1 + Here)
      BY <1>5, <3>3, <3>6 DEF Need
    <3> QED
      BY <1>6, <3>4, <3>7
  <2>3. NoRecordAt(data, rec.from)
    BY <2>2 DEF NoRecordAt
  <2> QED
    BY <1>1, <2>1, <2>3, FailFinds DEF Pieces
<1>7. CASE Need(1) /\ Need(1 + Here)
  <2>1. /\ i' = i + 1 + Here /\ at' = AfterUnit(rec.vif)
        /\ area' = area /\ records' = records /\ rec' = rec
    BY <1>7 DEF ReadText
  <2>2. data' = data
    BY <2>1 DEF data
  <2>3. i < Len(data) /\ Here \in 0..255
    <3>1. i < Len(data)
      BY <1>1, <1>7 DEF Need
    <3> QED
      BY <1>1, <3>1, HereIsByte
  <2>4. i' = u + 2 + Here /\ i' \in Nat /\ i' <= Len(data)
    BY <1>1, <1>3, <1>7, <2>1, <2>3 DEF Need
  <2>5. i' = UnitEnd(data, u)
    BY <1>5, <2>4
  <2>6. UnitLies(data, u)
    BY <1>1, <1>3, <2>3, <2>4, <2>5 DEF UnitLies
  <2>7. VIFLies(u)'
    BY <1>3, <2>1, <2>2 DEF VIFLies
  <2>8. /\ rec'.from = Upcoming(area, Len(records))' /\ rec'.from < Len(data)'
        /\ rec'.dif = data'[rec'.from + 1] /\ rec'.dif \notin NoRecordDIFs
    BY <1>2, <2>1, <2>2 DEF InPiece
  <2>9. CASE Extended(rec.vif)
    <3>1. at' = "vife"
      BY <2>1, <2>9 DEF AfterUnit
    <3>2. i' = UnitEnd(data', u) + rec'.ext
      BY <1>4, <2>1, <2>2, <2>4, <2>5
    <3>3. ~\E j \in (UnitEnd(data', u) + 1)..i' : TRUE
      BY <2>2, <2>4, <2>5
    <3>4. Begun(UnitEnd(data, u))'
      BY <3>2, <3>3 DEF Begun
    <3>5. InPiece'
      BY <2>1, <2>2, <2>6, <2>7, <2>8, <2>9, <3>1, <3>4 DEF InPiece
    <3> QED
      BY <1>1, <2>1, <3>1, <3>5, PieceFinds DEF Pieces
  <2>10. CASE ~Extended(rec.vif)
    <3>1. at' = "value"
      BY <2>1, <2>10 DEF AfterUnit
    <3>2. ExtensionsLie(data, rec.vif, UnitEnd(data, u), i)'
      BY <2>1, <2>2, <2>5, <2>10 DEF ExtensionsLie
    <3>3. InPiece'
      BY <2>2, <2>6, <2>7, <2>8, <3>1, <3>2 DEF InPiece
    <3> QED
      BY <1>1, <2>1, <3>1, <3>3, PieceFinds DEF Pieces
  <2> QED
    BY <2>9, <2>10
<1> QED
  BY <1>6, <1>7

\* The chain of extensions that is being read, of the byte b, begins at from.
LEMMA ExtensionStep ==
    ASSUME area \in Areas, i \in Nat, NEW b \in 0..255, Extended(b), NEW from \in Nat,
           NEW n \in Nat, n = rec.ext, Begun(from)
    PROVE  /\ ChainIsFull \/ ~Need(1) =>
                \A to \in Nat : ~ExtensionsLie(data, b, from, to)
           /\ ~ChainIsFull /\ Need(1) /\ ~Extended(Here) =>
                ExtensionsLie(data, b, from, i + 1)
           /\ ~ChainIsFull /\ Need(1) /\ Extended(Here) =>
                \A j \in (from + 1)..(i + 1) : Extended(data[j])
<1>1. data \in Seq(0..255) /\ Len(data) \in Nat /\ maxExtensions \in Nat
  BY LayoutFacts, RecordWalkAssumption
<1>2. i = from + n /\ \A j \in (from + 1)..i : Extended(data[j])
  BY DEF Begun
<1>3. \A j \in (from + 1)..(from + n) : Extended(data[j])
  BY <1>2
<1>4. ASSUME NEW to \in Nat, ExtensionsLie(data, b, from, to)
      PROVE  ~ChainIsFull /\ Need(1)
  <2>1. n < maxExtensions /\ from + n + 1 <= Len(data)
    BY <1>1, <1>3, <1>4, ExtensionsGoOn
  <2> QED
    BY <1>1, <1>2, <2>1 DEF ChainIsFull, Need
<1>5. ASSUME ~ChainIsFull, Need(1), ~Extended(Here)
      PROVE  ExtensionsLie(data, b, from, i + 1)
  <2>1. n < maxExtensions
    BY <1>1, <1>5 DEF ChainIsFull
  <2>2. from + n + 1 <= Len(data) /\ i + 1 = from + n + 1
    BY <1>2, <1>5 DEF Need
  <2>3. ~Extended(data[from + n + 1])
    BY <1>5, <2>2 DEF Here
  <2>4. ExtensionsLie(data, b, from, from + n + 1)
    BY <1>1, <1>3, <2>1, <2>2, <2>3, ExtensionsEnd
  <2> QED
    BY <2>2, <2>4
<1>6. ASSUME Extended(Here)
      PROVE  \A j \in (from + 1)..(i + 1) : Extended(data[j])
  BY <1>2, <1>6 DEF Here
<1> QED
  BY <1>4, <1>5, <1>6

LEMMA DIFEFinds ==
    ASSUME IInv, FInv, ReadExtension, at = "dife"
    PROVE  FInv'
<1>1. /\ area \in Areas /\ i \in Nat /\ rec.from + 1 \in Nat /\ rec.dif \in 0..255
      /\ rec.ext \in Nat /\ Len(data) \in Nat
  BY LayoutFacts, RecordWalkAssumption DEF IInv, TypeOK
<1>2. InPiece /\ Extended(rec.dif) /\ Begun(rec.from + 1)
  BY DEF FInv, Pieces, InPiece
<1> DEFINE from == rec.from + 1
<1>3. /\ ChainIsFull \/ ~Need(1) =>
            \A to \in Nat : ~ExtensionsLie(data, rec.dif, from, to)
      /\ ~ChainIsFull /\ Need(1) /\ ~Extended(Here) =>
            ExtensionsLie(data, rec.dif, from, i + 1)
      /\ ~ChainIsFull /\ Need(1) /\ Extended(Here) =>
            \A j \in (from + 1)..(i + 1) : Extended(data[j])
  <2> HIDE DEF from
  <2>1. from \in Nat /\ Begun(from)
    BY <1>1, <1>2 DEF from
  <2> QED
    BY <1>1, <1>2, <2>1, ExtensionStep
<1>4. CASE ChainIsFull \/ ~Need(1)
  <2>1. Fail
    BY <1>4 DEF ReadExtension
  <2>2. \A v, w \in 0..Len(data) : ~RecordLies(data, rec.from, v, w)
    BY <1>1, <1>2, <1>3, <1>4 DEF RecordLies, InPiece
  <2>3. NoRecordAt(data, rec.from)
    BY <2>2 DEF NoRecordAt
  <2> QED
    BY <2>1, <2>3, FailFinds DEF Pieces
<1>5. CASE ~ChainIsFull /\ Need(1) /\ Extended(Here)
  <2>1. /\ rec' = [rec EXCEPT !.ext = @ + 1] /\ i' = i + 1 /\ at' = at
        /\ area' = area /\ records' = records
    BY <1>5 DEF ReadExtension
  <2>2. /\ rec'.from = rec.from /\ rec'.dif = rec.dif /\ rec'.ext = rec.ext + 1
    BY <2>1 DEF IInv, TypeOK
  <2>3. data' = data
    BY <2>1 DEF data
  <2>4. i' = rec'.from + 1 + rec'.ext
    <3>1. i = rec.from + 1 + rec.ext
      BY <1>2 DEF Begun
    <3> QED
      BY <1>1, <2>1, <2>2, <3>1
  <2>5. \A j \in (rec'.from + 1 + 1)..i' : Extended(data'[j])
    BY <1>3, <1>5, <2>1, <2>2, <2>3
  <2>6. Begun(rec.from + 1)'
    BY <2>4, <2>5 DEF Begun
  <2>7. InPiece'
    BY <1>2, <2>1, <2>2, <2>3, <2>6 DEF InPiece
  <2> QED
    BY <2>1, <2>7, PieceFinds DEF Pieces
<1>6. CASE ~ChainIsFull /\ Need(1) /\ ~Extended(Here)
  <2>1. /\ rec' = [rec EXCEPT !.ext = 0] /\ i' = i + 1 /\ at' = "vif"
        /\ area' = area /\ records' = records
    BY <1>6 DEF ReadExtension
  <2>2. /\ rec'.from = rec.from /\ rec'.dif = rec.dif /\ rec'.ext = 0
    BY <2>1 DEF IInv, TypeOK
  <2>3. data' = data
    BY <2>1 DEF data
  <2>4. ExtensionsLie(data, rec.dif, rec.from + 1, i)'
    BY <1>3, <1>6, <2>1, <2>2, <2>3
  <2>5. InPiece'
    BY <1>2, <2>1, <2>2, <2>3, <2>4 DEF InPiece
  <2> QED
    BY <2>1, <2>5, PieceFinds DEF Pieces
<1> QED
  BY <1>4, <1>5, <1>6

LEMMA VIFEFinds ==
    ASSUME IInv, FInv, ReadExtension, at = "vife"
    PROVE  FInv'
<1>1. /\ area \in Areas /\ i \in Nat /\ rec.vif \in 0..255
      /\ rec.ext \in Nat /\ data \in Seq(0..255) /\ Len(data) \in Nat
  BY LayoutFacts, RecordWalkAssumption DEF IInv, TypeOK
<1>2. InPiece /\ Extended(rec.vif)
  BY DEF FInv, Pieces, InPiece
<1>3. PICK u \in Nat : VIFLies(u) /\ UnitLies(data, u) /\ Begun(UnitEnd(data, u))
  BY <1>2 DEF InPiece
<1>4. PICK from \in Nat : from = UnitEnd(data, u)
  BY <1>1, <1>3, UnitEndIsNat DEF VIFLies
<1>5. /\ ChainIsFull \/ ~Need(1) =>
            \A to \in Nat : ~ExtensionsLie(data, rec.vif, from, to)
      /\ ~ChainIsFull /\ Need(1) /\ ~Extended(Here) =>
            ExtensionsLie(data, rec.vif, from, i + 1)
      /\ ~ChainIsFull /\ Need(1) /\ Extended(Here) =>
            \A j \in (from + 1)..(i + 1) : Extended(data[j])
  <2>1. Begun(from)
    BY <1>3, <1>4
  <2> QED
    BY <1>1, <1>2, <2>1, ExtensionStep
<1>6. CASE ChainIsFull \/ ~Need(1)
  <2>1. Fail
    BY <1>6 DEF ReadExtension
  <2>2. ASSUME NEW v \in 0..Len(data), NEW w \in 0..Len(data),
               RecordLies(data, rec.from, v, w)
        PROVE  FALSE
    <3>1. v = u
      BY <1>2, <1>3, <2>2, VIFIsThere DEF VIFLies
    <3>2. ExtensionsLie(data, rec.vif, from, w)
      BY <1>3, <1>4, <2>2, <3>1 DEF RecordLies, VIFLies
    <3> QED
      BY <1>1, <1>5, <1>6, <3>2
  <2>3. NoRecordAt(data, rec.from)
    BY <2>2 DEF NoRecordAt
  <2> QED
    BY <2>1, <2>3, FailFinds DEF Pieces
<1>7. CASE ~ChainIsFull /\ Need(1) /\ Extended(Here)
  <2>1. /\ rec' = [rec EXCEPT !.ext = @ + 1] /\ i' = i + 1 /\ at' = at
        /\ area' = area /\ records' = records
    BY <1>7 DEF ReadExtension
  <2>2. /\ rec'.from = rec.from /\ rec'.dif = rec.dif /\ rec'.vif = rec.vif
        /\ rec'.ext = rec.ext + 1
    BY <2>1 DEF IInv, TypeOK
  <2>3. data' = data
    BY <2>1 DEF data
  <2>4. i' = from + rec'.ext
    <3>1. i = from + rec.ext
      BY <1>3, <1>4 DEF Begun
    <3> QED
      BY <1>1, <2>1, <2>2, <3>1
  <2>5. \A j \in (from + 1)..i' : Extended(data'[j])
    BY <1>5, <1>7, <2>1, <2>3
  <2>6. Begun(UnitEnd(data, u))'
    BY <1>4, <2>3, <2>4, <2>5 DEF Begun
  <2>7. VIFLies(u)'
    BY <1>3, <2>2, <2>3 DEF VIFLies
  <2>8. InPiece'
    BY <1>2, <1>3, <2>1, <2>2, <2>3, <2>6, <2>7 DEF InPiece
  <2> QED
    BY <2>1, <2>8, PieceFinds DEF Pieces
<1>8. CASE ~ChainIsFull /\ Need(1) /\ ~Extended(Here)
  <2>1. /\ rec' = [rec EXCEPT !.ext = 0] /\ i' = i + 1 /\ at' = "value"
        /\ area' = area /\ records' = records
    BY <1>8 DEF ReadExtension
  <2>2. /\ rec'.from = rec.from /\ rec'.dif = rec.dif /\ rec'.vif = rec.vif
    BY <2>1 DEF IInv, TypeOK
  <2>3. data' = data
    BY <2>1 DEF data
  <2>4. ExtensionsLie(data, rec.vif, UnitEnd(data, u), i)'
    BY <1>4, <1>5, <1>8, <2>1, <2>2, <2>3
  <2>5. VIFLies(u)'
    BY <1>3, <2>2, <2>3 DEF VIFLies
  <2>6. InPiece'
    BY <1>2, <1>3, <2>1, <2>2, <2>3, <2>4, <2>5 DEF InPiece
  <2> QED
    BY <2>1, <2>6, PieceFinds DEF Pieces
<1> QED
  BY <1>6, <1>7, <1>8

\* A value that does not fit is no record's.
LEMMA ValueFails ==
    ASSUME IInv, FInv, at = "value", Fail, ~ValueLies(data, rec.dif, i)
    PROVE  FInv'
<1>1. area \in Areas /\ i \in Nat /\ rec.vif \in 0..255 /\ data \in Seq(0..255)
  BY LayoutFacts DEF IInv, TypeOK
<1>2. InPiece
  BY DEF FInv, Pieces
<1>3. PICK u \in Nat : /\ VIFLies(u) /\ UnitLies(data, u)
                       /\ ExtensionsLie(data, rec.vif, UnitEnd(data, u), i)
  BY <1>2 DEF InPiece
<1>4. ASSUME NEW v \in 0..Len(data), NEW w \in 0..Len(data),
             RecordLies(data, rec.from, v, w)
      PROVE  FALSE
  <2>1. v = u
    BY <1>2, <1>3, <1>4, VIFIsThere DEF VIFLies
  <2>2. ExtensionsLie(data, rec.vif, UnitEnd(data, u), w)
    BY <1>3, <1>4, <2>1 DEF RecordLies, VIFLies
  <2>3. UnitEnd(data, u) \in Nat
    BY <1>1, <1>3, UnitEndIsNat DEF VIFLies
  <2>4. w \in Nat
    BY <1>1, LayoutFacts
  <2>5. w = i
    BY <1>1, <1>3, <2>2, <2>3, <2>4, ExtensionsAreUnique
  <2> QED
    BY <1>2, <1>4, <2>5 DEF RecordLies, InPiece
<1>5. NoRecordAt(data, rec.from)
  BY <1>4 DEF NoRecordAt
<1> QED
  BY <1>5, FailFinds DEF Pieces

LEMMA ValueFinds ==
    ASSUME IInv, FInv, ReadValue
    PROVE  FInv'
<1> DEFINE n == Width(field(rec.dif))
           bad == field(rec.dif) \in BCDFields /\ BCDSigned(SubSeq(data, i + 1, i + n)) = {}
<1>1. /\ at = "value" /\ field(rec.dif) # LVAR
      /\ (~Need(n) /\ Fail) \/ (Need(n) /\ Emit(n, bad))
  BY DEF ReadValue
<1>2. rec.dif \in 0..255
  BY DEF IInv, TypeOK
<1>3. n \in Nat /\ bad \in BOOLEAN
  BY <1>1, <1>2, WidthIsNat
<1>4. i + n = ValueEnd(data, rec.dif, i)
  BY <1>1 DEF ValueEnd
<1> HIDE DEF n, bad
<1>5. ValueLies(data, rec.dif, i) <=> Need(n)
  BY <1>1, <1>4 DEF ValueLies, Need
<1> QED
  BY <1>1, <1>3, <1>4, <1>5, ValueFails, EmitFinds

LEMMA LVARFinds ==
    ASSUME IInv, FInv, ReadLVAR
    PROVE  FInv'
<1> DEFINE n == 1 + PayloadSize(Here)
           bad == Here \in LVARBCD /\ BCDMagnitude(SubSeq(data, i + 2, i + n)) = {}
<1>1. /\ at = "value" /\ field(rec.dif) = LVAR
      /\ \/ ~(Need(1) /\ Supported(Here) /\ Need(n)) /\ Fail
         \/ Need(1) /\ Supported(Here) /\ Need(n) /\ Emit(n, bad)
  BY DEF ReadLVAR
<1>2. area \in Areas /\ i \in Nat /\ Len(data) \in Nat
  BY LayoutFacts DEF IInv, TypeOK
<1>3. Need(1) <=> i < Len(data)
  BY <1>2 DEF Need
<1>4. i < Len(data) => n \in Nat /\ i + n = ValueEnd(data, rec.dif, i)
  <2> SUFFICES ASSUME i < Len(data) PROVE n \in Nat /\ i + n = ValueEnd(data, rec.dif, i)
    OBVIOUS
  <2>1. Here \in 0..255
    BY <1>2, HereIsByte
  <2>2. PayloadSize(Here) \in Nat
    BY <2>1, PayloadIsNat
  <2>3. ValueEnd(data, rec.dif, i) = i + 1 + PayloadSize(Here)
    BY <1>1 DEF ValueEnd, Here
  <2> QED
    BY <1>2, <2>2, <2>3
<1>5. bad \in BOOLEAN
  OBVIOUS
<1> HIDE DEF n, bad
<1>6. ValueLies(data, rec.dif, i) <=> Need(1) /\ Supported(Here) /\ Need(n)
  BY <1>1, <1>3, <1>4 DEF ValueLies, Need, Here
<1> QED
  BY <1>1, <1>3, <1>4, <1>5, <1>6, ValueFails, EmitFinds

-----------------------------------------------------------------------------
(* The steps between two records                                           *)

\* Between two records: where the next one should be, relative to here.
LEMMA BetweenFacts ==
    ASSUME IInv, FInv, at = "dif", NEW m \in Nat, m = Len(records)
    PROVE  /\ area \in Areas /\ i \in Nat /\ Len(data) \in Nat
           /\ Matched(m) /\ m \in 0..Len(area.layout)
           /\ i <= Upcoming(area, m) /\ Upcoming(area, m) \in 0..Len(data)
           /\ i < Len(data) /\ Here # 47 => Upcoming(area, m) = i
           /\ i < Len(data) /\ Here = 47 => i < Upcoming(area, m)
<1>1. area \in Areas /\ i \in Nat /\ Len(data) \in Nat
  BY LayoutFacts DEF IInv, TypeOK
<1>2. Matched(m) /\ m \in 0..Len(area.layout) /\ PlaceEnd(area, m) <= i /\ i <= Upcoming(area, m)
  BY <1>1, LayoutFacts DEF FInv, FoundIsLaid, Between, Matched
<1> DEFINE u == Upcoming(area, m)
           e == PlaceEnd(area, m)
<1>3. u \in 0..Len(data) /\ e \in Int /\ e <= i /\ i <= u
  BY <1>1, <1>2, UpcomingFacts, PlaceEndIsInt
<1>4. \A j \in e..(u - 1) : data[j + 1] = 47
  BY <1>1, <1>2, UpcomingFacts
<1>5. u < Len(data) => data[u + 1] # 47
  BY <1>1, <1>2, UpcomingFacts
<1> HIDE DEF e, u
<1>6. i < Len(data) /\ Here # 47 => u = i
  <2> SUFFICES ASSUME data[i + 1] # 47 PROVE u = i
    BY DEF Here
  <2>1. ~(i < u)
    BY <1>1, <1>3, <1>4
  <2> QED
    BY <1>1, <1>3, <2>1
<1>7. i < Len(data) /\ Here = 47 => i < u
  <2> SUFFICES ASSUME i < Len(data), data[i + 1] = 47 PROVE i < u
    BY DEF Here
  <2>1. u # i
    BY <1>5
  <2> QED
    BY <1>1, <1>3, <2>1
<1> QED
  BY <1>1, <1>2, <1>3, <1>6, <1>7 DEF u

LEMMA FillerFinds ==
    ASSUME IInv, FInv, Filler
    PROVE  FInv'
<1>m. PICK m \in Nat : m = Len(records)
  BY DEF IInv, TypeOK
<1>1. /\ at = "dif" /\ i < Len(data) /\ Here = 47
      /\ i' = i + 1 /\ at' = at /\ area' = area /\ records' = records
  BY DEF Filler
<1>2. i \in Nat /\ Matched(m) /\ m \in 0..Len(area.layout) /\ i < Upcoming(area, m)
      /\ Upcoming(area, m) \in 0..Len(data) /\ area \in Areas
  BY <1>m, <1>1, BetweenFacts
<1>3. i + 1 <= Upcoming(area, m)
  BY <1>2
<1>4. PlaceEnd(area, m) \in Int
  BY <1>2, PlaceEndIsInt
<1>5. PlaceEnd(area, m) <= i
  BY <1>m, <1>1 DEF FInv, Between
<1>6. PlaceEnd(area, m) <= i + 1
  BY <1>2, <1>4, <1>5
<1>7. Between'
  BY <1>m, <1>1, <1>3, <1>6 DEF Between
<1>8. FoundIsLaid'
  BY <1>m, <1>1, <1>2 DEF FoundIsLaid, Matched
<1> QED
  BY <1>1, <1>7, <1>8 DEF FInv, Pieces

LEMMA EndFinds ==
    ASSUME IInv, FInv, EndOfData
    PROVE  FInv'
<1>m. PICK m \in Nat : m = Len(records)
  BY DEF IInv, TypeOK
<1>1. /\ at = "dif" /\ i >= Len(data)
      /\ at' = "done" /\ area' = area /\ records' = records
  BY DEF EndOfData
<1>2. /\ i \in Nat /\ Len(data) \in Nat /\ Matched(m) /\ m \in 0..Len(area.layout)
      /\ i <= Upcoming(area, m) /\ Upcoming(area, m) \in 0..Len(data) /\ area \in Areas
  BY <1>m, <1>1, BetweenFacts
<1>3. Upcoming(area, m) = Len(data)
  BY <1>1, <1>2
<1>4. m = Len(area.layout)
  BY <1>2, <1>3, UpcomingFacts
<1>5. area.stop = Len(data)
  BY <1>3, <1>4 DEF Upcoming
<1>6. EndsWell(area)
  BY <1>5 DEF EndsWell, data
<1>7. ~(area.stop < Len(data))
  BY <1>2, <1>5
<1>8. Len(records') = Len(area.layout) + 0
  BY <1>m, <1>1, <1>4
<1>9. Len(records') = Len(area.layout) + (IF area.stop < Len(data) THEN 1 ELSE 0)
  BY <1>7, <1>8
<1>10. Matched(Len(area.layout))'
  BY <1>1, <1>2, <1>4 DEF Matched
<1>11. FoundIsLaid'
  BY <1>1, <1>6, <1>7, <1>9, <1>10 DEF FoundIsLaid, Pieces, data
<1> QED
  BY <1>1, <1>11 DEF FInv, Pieces

LEMMA SpecialFinds ==
    ASSUME IInv, FInv, Special
    PROVE  FInv'
<1>m. PICK m \in Nat : m = Len(records)
  BY DEF IInv, TypeOK
<1> DEFINE r == [from |-> i, to |-> i + 1, bad |-> FALSE, more |-> Here = 31]
<1>1. /\ at = "dif" /\ i < Len(data) /\ Here \in SpecialDIFs
      /\ records' = Append(records, r)
      /\ at' = "done" /\ area' = area
  BY DEF Special, SpecialDIFs
<1>2. /\ i \in Nat /\ Len(data) \in Nat /\ Matched(m) /\ m \in 0..Len(area.layout)
      /\ Upcoming(area, m) = i /\ area \in Areas
  BY <1>m, <1>1, BetweenFacts DEF SpecialDIFs
<1>3. m = Len(area.layout)
  <2>1. ~(m < Len(area.layout))
    BY <1>1, <1>2, UpcomingFacts DEF NoRecordDIFs, Here
  <2>2. Len(area.layout) \in Nat
    BY <1>2, LayoutFacts
  <2> QED
    BY <1>2, <2>1, <2>2
<1>4. area.stop = i
  BY <1>2, <1>3 DEF Upcoming
<1>5. EndsWell(area)
  BY <1>1, <1>4 DEF EndsWell, Here, data
<1>6. records \in Seq(Decoded)
  BY DEF IInv, TypeOK
<1>7. /\ Len(records') = m + 1 /\ records'[m + 1] = r
      /\ \A k \in 1..m : records'[k] = records[k]
  <2> HIDE DEF r
  <2> QED
    BY <1>m, <1>1, <1>6
<1>8. records'[Len(records')].from = area.stop
  BY <1>4, <1>7
<1>9. Len(records') = Len(area.layout) + (IF area.stop < Len(data) THEN 1 ELSE 0)
  BY <1>1, <1>3, <1>4, <1>7
<1>10. Matched(m)'
  BY <1>1, <1>2, <1>7 DEF Matched
<1>11. Matched(Len(area.layout))'
  BY <1>1, <1>3, <1>10
<1>12. FoundIsLaid'
  BY <1>1, <1>5, <1>8, <1>9, <1>11 DEF FoundIsLaid, Pieces, data
<1> QED
  BY <1>1, <1>12 DEF FInv, Pieces

LEMMA NextFInv == IInv /\ FInv /\ [Next]_vars => FInv'
<1> SUFFICES ASSUME IInv, FInv, [Next]_vars PROVE FInv'
  OBVIOUS
<1>1. CASE EndOfData
  BY <1>1, EndFinds
<1>2. CASE Special
  BY <1>2, SpecialFinds
<1>3. CASE Filler
  BY <1>3, FillerFinds
<1>4. CASE ReadDIF
  BY <1>4, DIFFinds
<1>5. CASE ReadVIF
  BY <1>5, VIFFinds
<1>6. CASE ReadExtension
  BY <1>6, DIFEFinds, VIFEFinds DEF ReadExtension
<1>7. CASE ReadText
  BY <1>7, TextFinds
<1>8. CASE ReadValue
  BY <1>8, ValueFinds
<1>9. CASE ReadLVAR
  BY <1>9, LVARFinds
<1>10. CASE UNCHANGED vars
  BY <1>10 DEF vars, FInv, FoundIsLaid, Matched, Between, InPiece, Begun, VIFLies, data
<1> QED
  BY <1>1, <1>2, <1>3, <1>4, <1>5, <1>6, <1>7, <1>8, <1>9, <1>10 DEF Next

\* The walk finds the records that lie in the data, each with its first and its
\* last byte, and no other; it ends without an error just when they go on to the
\* end of the data or to the part of the manufacturer (decodeData, decodeRecord).
THEOREM WalkFindsTheRecords == Spec => []FoundIsLaid
<1>1. FInv => FoundIsLaid
  BY DEF FInv
<1> QED
  BY <1>1, WalkInv, InitFInv, NextFInv, PTL DEF Spec

-----------------------------------------------------------------------------
(* The walk of a telegram                                                  *)

LEMMA TelegramInitWalks == TelegramInit => Init
  BY DEF TelegramInit

LEMMA TelegramStepWalks == [TelegramNext]_telegramVars => [Next]_vars
<1> SUFFICES ASSUME [TelegramNext]_telegramVars PROVE [Next]_vars
  OBVIOUS
<1>1. CASE TooShort
  BY <1>1 DEF TooShort, Return
<1>2. CASE UnsupportedCI
  BY <1>2 DEF UnsupportedCI, Return
<1>3. CASE DecodeFixed
  BY <1>3 DEF DecodeFixed, Return
<1>4. CASE DecodeVariable
  BY <1>4 DEF DecodeVariable
<1>5. CASE Walk
  BY <1>5 DEF Walk
<1>6. CASE Finish
  BY <1>6 DEF Finish, Return
<1>7. CASE UNCHANGED telegramVars
  BY <1>7 DEF telegramVars
<1> QED
  BY <1>1, <1>2, <1>3, <1>4, <1>5, <1>6, <1>7 DEF TelegramNext

-----------------------------------------------------------------------------
(* A reading for every record                                              *)

IsVariable == IsLong /\ CI = ciVariableDataMode1

\* What is returned for a variable data response, and when.
Complete == IsDecoded /\ IsVariable =>
    /\ at = "done"
    /\ Len(result.records) = Len(records)
    /\ AllIsRead

\* The readings are as many as the records while the walk goes on.
InParallel ==
    /\ stage \in {"head", "walk", "over"}
    /\ stage \in {"head", "walk"} => result.err = "pending"
    /\ stage = "walk" => IsVariable
    /\ \E S : readings \in Seq(S)
    /\ Len(readings) = Len(records)

TInv == IInv /\ AllIsRead /\ InParallel /\ Complete

LEMMA InitTInv == TelegramInit => TInv
<1> SUFFICES ASSUME TelegramInit PROVE TInv
  OBVIOUS
<1>1. IInv /\ AllIsRead
  BY InitInv, TelegramInitWalks DEF Init, AllIsRead
<1>2. readings = <<>> /\ records = <<>> /\ stage = "head" /\ result = [err |-> "pending"]
  BY DEF TelegramInit, Init, Refused
<1>3. readings \in Seq({}) /\ Len(readings) = Len(records)
  BY <1>2
<1>4. InParallel
  BY <1>2, <1>3 DEF InParallel
<1>5. Complete
  BY <1>2 DEF Complete, IsDecoded, IsOver
<1> QED
  BY <1>1, <1>4, <1>5 DEF TInv

\* A frame that is refused, or is no variable data response, promises nothing.
LEMMA ReturnKeeps ==
    ASSUME InParallel, NEW r, Return(r), r.err = "none" /\ IsVariable => FALSE
    PROVE  InParallel' /\ Complete'
<1>1. /\ stage' = "over" /\ result' = r
      /\ at' = at /\ area' = area /\ records' = records /\ readings' = readings
  BY DEF Return, vars, contentVars
<1>2. InParallel'
  BY <1>1 DEF InParallel
<1>3. IsVariable' = IsVariable
  BY <1>1 DEF IsVariable, IsLong, CI, frame
<1> QED
  BY <1>1, <1>2, <1>3 DEF Complete, IsDecoded

LEMMA FinishKeeps ==
    ASSUME IInv, AllIsRead, InParallel, Finish
    PROVE  InParallel' /\ Complete'
<1>1. /\ stage' = "over" /\ result' = decodeVariable
      /\ at' = at /\ area' = area /\ records' = records /\ readings' = readings
      /\ at \in {"done", "failed"}
  BY DEF Finish, Return, vars, contentVars, Over
<1>2. InParallel'
  BY <1>1 DEF InParallel
<1>3. CASE at = "failed" \/ SerialNumber = {}
  <2>1. result'.err # "none"
    BY <1>1, <1>3 DEF decodeVariable, Refused
  <2> QED
    BY <1>2, <2>1 DEF Complete, IsDecoded
<1>4. CASE ~(at = "failed" \/ SerialNumber = {})
  <2>1. result'.records = readings
    BY <1>1, <1>4 DEF decodeVariable, variableFrame, DecodedFrame
  <2>2. AllIsRead'
    BY <1>1 DEF AllIsRead, End, data
  <2> QED
    BY <1>1, <1>2, <1>4, <2>1, <2>2 DEF Complete, InParallel
<1> QED
  BY <1>3, <1>4

LEMMA WalkKeeps ==
    ASSUME IInv, IInv', InParallel, Walk
    PROVE  InParallel' /\ Complete'
<1> DEFINE new == IF at = "value" THEN Reading(ValueBytes) ELSE SpecialReading(Here)
<1>1. /\ stage = "walk" /\ stage' = "walk" /\ result' = result /\ Next
      /\ readings' = IF Len(records') <= Len(records) THEN SubSeq(readings, 1, Len(records'))
                     ELSE Append(readings, new)
  BY DEF Walk
<1> HIDE DEF new
<1>2. area' = area
  BY <1>1 DEF Next, EndOfData, Special, Filler, ReadDIF, ReadVIF, ReadExtension, ReadText,
              ReadValue, ReadLVAR, Fail, Emit
<1>3. PICK S : readings \in Seq(S)
  BY DEF InParallel
<1>4. Len(readings) = Len(records)
  BY DEF InParallel
<1>5. records \in Seq(Decoded) /\ records' \in Seq(Decoded)
  BY DEF IInv, TypeOK
<1>6. /\ Len(records') \in {0, Len(records)} \/ Len(records') = Len(records) + 1
  BY <1>1, <1>5 DEF Next, EndOfData, Special, Filler, ReadDIF, ReadVIF, ReadExtension, ReadText,
                    ReadValue, ReadLVAR, Fail, Emit
<1>7. (\E T : readings' \in Seq(T)) /\ Len(readings') = Len(records')
  <2>1. CASE Len(records') <= Len(records)
    <3>1. readings' = SubSeq(readings, 1, Len(records'))
      BY <1>1, <2>1
    <3>2. readings' \in Seq(S) /\ Len(readings') = Len(records')
      BY <1>3, <1>4, <1>5, <2>1, <3>1, SubSeqProperties
    <3> QED
      BY <3>2
  <2>2. CASE ~(Len(records') <= Len(records))
    <3>1. readings' = Append(readings, new) /\ Len(records') = Len(records) + 1
      BY <1>1, <1>5, <1>6, <2>2
    <3>2. readings \in Seq(S \cup {new})
      BY <1>3
    <3>3. readings' \in Seq(S \cup {new}) /\ Len(readings') = Len(records')
      BY <1>4, <3>1, <3>2, AppendProperties
    <3> QED
      BY <3>3
  <2> QED
    BY <2>1, <2>2
<1>8. IsVariable'
  BY <1>1, <1>2 DEF InParallel, IsVariable, IsLong, CI, frame
<1>9. InParallel'
  BY <1>1, <1>7, <1>8 DEF InParallel
<1> QED
  BY <1>1, <1>9 DEF Complete, IsDecoded, IsOver

LEMMA NextTInv == TInv /\ [TelegramNext]_telegramVars => TInv'
<1> SUFFICES ASSUME TInv, [TelegramNext]_telegramVars PROVE TInv'
  OBVIOUS
<1>1. IInv' /\ AllIsRead'
  BY NextInv, NextReadsAll, TelegramStepWalks DEF TInv
<1>2. InParallel
  BY DEF TInv
<1>3. CASE TooShort
  <2>1. Return(Refused("invalid")) /\ ~IsVariable
    BY <1>3 DEF TooShort, IsVariable
  <2> QED
    BY <1>1, <1>2, <2>1, ReturnKeeps DEF TInv
<1>4. CASE UnsupportedCI
  <2>1. Return(Refused("unsupported")) /\ ~IsVariable
    BY <1>4 DEF UnsupportedCI, IsVariable
  <2> QED
    BY <1>1, <1>2, <2>1, ReturnKeeps DEF TInv
<1>5. CASE DecodeFixed
  <2>1. Return(decodeFixed) /\ ~IsVariable
    BY <1>5 DEF DecodeFixed, IsVariable, ciFixedDataMode1, ciVariableDataMode1
  <2> QED
    BY <1>1, <1>2, <2>1, ReturnKeeps DEF TInv
<1>6. CASE DecodeVariable
  <2>1. /\ stage' = "walk" /\ result' = result /\ IsVariable
        /\ area' = area /\ records' = records /\ readings' = readings
    BY <1>6 DEF DecodeVariable, vars, contentVars, IsVariable
  <2>2. result.err = "pending"
    BY <1>2, <1>6 DEF DecodeVariable, InParallel
  <2>3. IsVariable'
    BY <2>1 DEF IsVariable, IsLong, CI, frame
  <2>4. InParallel'
    BY <1>2, <2>1, <2>2, <2>3 DEF InParallel
  <2> QED
    BY <1>1, <2>1, <2>4 DEF TInv, Complete, IsDecoded, IsOver
<1>7. CASE Walk
  BY <1>1, <1>2, <1>7, WalkKeeps DEF TInv
<1>8. CASE Finish
  BY <1>1, <1>2, <1>8, FinishKeeps DEF TInv
<1>9. CASE UNCHANGED telegramVars
  <2>1. /\ stage' = stage /\ result' = result
        /\ at' = at /\ area' = area /\ records' = records /\ readings' = readings
    BY <1>9 DEF telegramVars, vars, contentVars
  <2>2. IsVariable' = IsVariable
    BY <2>1 DEF IsVariable, IsLong, CI, frame
  <2>3. InParallel'
    BY <1>2, <2>1, <2>2 DEF InParallel
  <2>4. Complete'
    BY <1>1, <2>1, <2>2 DEF TInv, Complete, IsDecoded, IsOver
  <2> QED
    BY <1>1, <2>3, <2>4 DEF TInv
<1> QED
  BY <1>3, <1>4, <1>5, <1>6, <1>7, <1>8, <1>9 DEF TelegramNext

\* A variable data response that is decoded has a reading for every record of
\* the walk, and the walk left nothing out, whatever the bytes (Decode).
THEOREM NoReadingIsDropped == TelegramSpec => []Complete
<1>1. TInv => Complete
  BY DEF TInv
<1> QED
  BY <1>1, InitTInv, NextTInv, PTL DEF TelegramSpec

\* Decoding a telegram never reads past the end of its records, whatever the
\* bytes and whatever the header (Decode, decodeData).
THEOREM DecodeStaysInside == TelegramSpec => []TypeOK
<1>1. IInv => TypeOK
  BY DEF IInv
<1> QED
  BY <1>1, InitInv, NextInv, TelegramInitWalks, TelegramStepWalks, PTL DEF TelegramSpec

-----------------------------------------------------------------------------
(* Which telegrams are decoded                                             *)

\* Of a telegram that is neither kind of response, or has no header, nothing is
\* promised but that it is refused.
LEMMA RefusedKeeps ==
    ASSUME area \in Areas, NEW r, Return(r), r.err # "none",
           ~IsWholeVariable(area), ~IsWholeFixed(area)
    PROVE  WholeOrRefused'
<1>1. result' = r /\ area' = area
  BY DEF Return, vars
<1>2. ~area.whole
  BY SendersAssumption DEF SendersAreLegal
<1> QED
  BY <1>1, <1>2 DEF WholeOrRefused

LEMMA FixedKeeps ==
    ASSUME area \in Areas, DecodeFixed
    PROVE  WholeOrRefused'
<1>1. /\ IsLong /\ CI = ciFixedDataMode1 /\ Return(decodeFixed)
      /\ result' = decodeFixed /\ area' = area
  BY DEF DecodeFixed, Return, vars
<1>0. Len(frame) \in Nat /\ fixedMinFrameLen \in Nat
  <2>1. area.frame \in Seq(0..255)
    BY SendersAssumption DEF SendersAreLegal
  <2> QED
    BY <2>1 DEF frame, fixedMinFrameLen
<1>2. ~IsWholeVariable(area)
  BY <1>1 DEF IsWholeVariable, CI, frame, ciVariableDataMode1, ciFixedDataMode1
<1>3. IsWholeFixed(area) <=> SerialNumber # {} /\ Len(frame) >= fixedMinFrameLen
  BY <1>1 DEF IsWholeFixed, HasHeader, SerialNumber, frame, CI, IsLong
<1>4. area.whole <=> IsWholeFixed(area)
  BY <1>2, SendersAssumption DEF SendersAreLegal
<1>5. CASE Len(frame) < fixedMinFrameLen \/ SerialNumber = {}
  <2>1. decodeFixed.err = "invalid"
    BY <1>5 DEF decodeFixed, Refused
  <2>2. ~IsWholeFixed(area)
    BY <1>3, <1>5, <1>0
  <2> QED
    BY <1>1, <1>2, <2>1, <2>2, RefusedKeeps
<1>6. CASE ~(Len(frame) < fixedMinFrameLen \/ SerialNumber = {})
  <2>1. decodeFixed.err = "none" /\ Len(decodeFixed.records) = 2
    BY <1>6 DEF decodeFixed, fixedFrame, DecodedFrame, fixedRecords
  <2>2. area.whole => Len(area.meant) = 2
    BY <1>4, SendersAssumption DEF SendersAreLegal
  <2>3. area.whole
    BY <1>3, <1>4, <1>6, <1>0
  <2> QED
    BY <1>1, <2>1, <2>2, <2>3 DEF WholeOrRefused
<1> QED
  BY <1>5, <1>6

LEMMA VariableKeeps ==
    ASSUME IInv, FInv, InParallel, Finish
    PROVE  WholeOrRefused'
<1>1. /\ Return(decodeVariable) /\ at \in {"done", "failed"} /\ stage = "walk"
      /\ result' = decodeVariable /\ area' = area
  BY DEF Finish, Return, vars, Over
<1>2. area \in Areas /\ IsLong /\ CI = ciVariableDataMode1 /\ Len(readings) = Len(records)
  BY <1>1 DEF InParallel, IsVariable, IInv
<1>3. ~IsWholeFixed(area)
  BY <1>2 DEF IsWholeFixed, CI, frame, ciVariableDataMode1, ciFixedDataMode1
<1>4. IsWholeVariable(area) <=> SerialNumber # {} /\ EndsWell(area)
  BY <1>2 DEF IsWholeVariable, HasHeader, SerialNumber, frame, CI, IsLong
<1>5. EndsWell(area) <=> at = "done"
  BY <1>1 DEF FInv, FoundIsLaid
<1>6. CASE at = "failed" \/ SerialNumber = {}
  <2>1. decodeVariable.err # "none"
    BY <1>6 DEF decodeVariable, Refused
  <2>2. ~IsWholeVariable(area)
    BY <1>4, <1>5, <1>6
  <2> QED
    BY <1>1, <1>2, <1>3, <2>1, <2>2, RefusedKeeps
<1>7. CASE ~(at = "failed" \/ SerialNumber = {})
  <2>1. decodeVariable.err = "none" /\ decodeVariable.records = readings
    BY <1>7 DEF decodeVariable, variableFrame, DecodedFrame
  <2>2. IsWholeVariable(area)
    BY <1>1, <1>4, <1>5, <1>7
  <2>3. Len(records) = Len(area.layout) + (IF area.stop < Len(data) THEN 1 ELSE 0)
    BY <1>1, <1>7 DEF FInv, FoundIsLaid
  <2>4. /\ area.whole
        /\ Len(area.meant) = Len(area.layout) + (IF area.stop < Len(area.data) THEN 1 ELSE 0)
    BY <1>2, <2>2, SendersAssumption DEF SendersAreLegal
  <2>5. Len(readings) = Len(area.meant)
    BY <1>2, <2>3, <2>4 DEF data
  <2> QED
    BY <1>1, <2>1, <2>4, <2>5 DEF WholeOrRefused
<1> QED
  BY <1>6, <1>7

LEMMA NextWhole ==
    TInv /\ FInv /\ WholeOrRefused /\ [TelegramNext]_telegramVars => WholeOrRefused'
<1> SUFFICES ASSUME TInv, FInv, WholeOrRefused, [TelegramNext]_telegramVars
             PROVE  WholeOrRefused'
  OBVIOUS
<1>1. IInv /\ InParallel /\ area \in Areas
  BY DEF TInv, IInv
<1>2. CASE TooShort
  <2>1. Return(Refused("invalid")) /\ ~HasHeader(area.frame)
    BY <1>2 DEF TooShort, IsLong, HasHeader, frame
  <2>2. Refused("invalid").err # "none"
    BY DEF Refused
  <2> QED
    BY <1>1, <2>1, <2>2, RefusedKeeps DEF IsWholeVariable, IsWholeFixed
<1>3. CASE UnsupportedCI
  <2>1. /\ Return(Refused("unsupported"))
        /\ area.frame[7] \notin {ciVariableDataMode1, ciFixedDataMode1}
    BY <1>3 DEF UnsupportedCI, CI, frame
  <2>2. Refused("unsupported").err # "none"
    BY DEF Refused
  <2> QED
    BY <1>1, <2>1, <2>2, RefusedKeeps DEF IsWholeVariable, IsWholeFixed
<1>4. CASE DecodeFixed
  BY <1>1, <1>4, FixedKeeps
<1>5. CASE DecodeVariable
  BY <1>5 DEF DecodeVariable, WholeOrRefused, IsOver
<1>6. CASE Walk
  BY <1>6 DEF Walk, WholeOrRefused, IsOver
<1>7. CASE Finish
  BY <1>1, <1>7, VariableKeeps
<1>8. CASE UNCHANGED telegramVars
  BY <1>8 DEF telegramVars, vars, WholeOrRefused, IsOver
<1> QED
  BY <1>2, <1>3, <1>4, <1>5, <1>6, <1>7, <1>8 DEF TelegramNext

\* Exactly the telegrams that are legal and uncut are decoded, each to its last
\* record; every other one is refused, not shortened (Decode, decodeData,
\* decodeFixed).
THEOREM LegalIsDecoded == TelegramSpec => []WholeOrRefused
<1>1. TelegramInit => TInv /\ FInv /\ WholeOrRefused
  <2>1. TelegramInit => TInv /\ FInv
    BY InitTInv, InitFInv, TelegramInitWalks
  <2>2. TelegramInit => WholeOrRefused
    BY DEF TelegramInit, WholeOrRefused, IsOver
  <2> QED
    BY <2>1, <2>2
<1>2. TInv /\ FInv /\ [TelegramNext]_telegramVars => TInv' /\ FInv'
  BY NextTInv, NextFInv, TelegramStepWalks DEF TInv
<1> QED
  BY <1>1, <1>2, NextWhole, PTL DEF TelegramSpec

\* A step that returns r tells what RefusalTells says, if r does.
LEMMA ReturnTells ==
    ASSUME NEW r, Return(r),
           r.err = "unsupported" <=> IsForeign(area),
           r.err = "record" <=> IsBroken(area),
           r.err = "invalid" <=> ~area.whole /\ ~IsForeign(area) /\ ~IsBroken(area)
    PROVE  RefusalTells'
<1>1. result' = r /\ area' = area
  BY DEF Return, vars
<1> QED
  BY <1>1 DEF RefusalTells

LEMMA FixedTells ==
    ASSUME area \in Areas, DecodeFixed
    PROVE  RefusalTells'
<1>1. IsLong /\ CI = ciFixedDataMode1 /\ Return(decodeFixed)
  BY DEF DecodeFixed
<1>2. ~IsWholeVariable(area) /\ ~IsForeign(area) /\ ~IsBroken(area)
  BY <1>1 DEF IsWholeVariable, IsForeign, IsBroken, CI, frame, ciVariableDataMode1,
     ciFixedDataMode1
<1>3. Len(frame) \in Nat /\ fixedMinFrameLen \in Nat
  <2>1. area.frame \in Seq(0..255)
    BY SendersAssumption DEF SendersAreLegal
  <2> QED
    BY <2>1 DEF frame, fixedMinFrameLen
<1>4. area.whole <=> SerialNumber # {} /\ ~(Len(frame) < fixedMinFrameLen)
  <2>1. IsWholeFixed(area) <=> SerialNumber # {} /\ Len(frame) >= fixedMinFrameLen
    BY <1>1 DEF IsWholeFixed, HasHeader, SerialNumber, frame, CI, IsLong
  <2>2. area.whole <=> IsWholeFixed(area)
    BY <1>2, SendersAssumption DEF SendersAreLegal
  <2> QED
    BY <1>3, <2>1, <2>2
<1>5. decodeFixed.err = IF area.whole THEN "none" ELSE "invalid"
  BY <1>4 DEF decodeFixed, Refused, fixedFrame, DecodedFrame
<1> QED
  BY <1>1, <1>2, <1>5, ReturnTells

LEMMA VariableTells ==
    ASSUME IInv, FInv, InParallel, Finish
    PROVE  RefusalTells'
<1>1. Return(decodeVariable) /\ at \in {"done", "failed"}
  BY DEF Finish, Over
<1>2. area \in Areas /\ IsLong /\ CI = ciVariableDataMode1
  BY DEF Finish, InParallel, IsVariable, IInv
<1>3. ~IsWholeFixed(area) /\ ~IsForeign(area)
  BY <1>2 DEF IsWholeFixed, IsForeign, CI, frame, ciVariableDataMode1, ciFixedDataMode1
<1>4. IsBroken(area) <=> at = "failed"
  <2>1. EndsWell(area) <=> at = "done"
    BY <1>1 DEF FInv, FoundIsLaid
  <2> QED
    BY <1>1, <1>2, <2>1 DEF IsBroken, CI, frame, IsLong
<1>5. area.whole <=> SerialNumber # {} /\ at # "failed"
  <2>1. IsWholeVariable(area) <=> SerialNumber # {} /\ ~IsBroken(area)
    BY <1>2 DEF IsWholeVariable, HasHeader, SerialNumber, frame, CI, IsLong, IsBroken
  <2> QED
    BY <1>2, <1>3, <1>4, <2>1, SendersAssumption DEF SendersAreLegal
<1>6. decodeVariable.err = IF at = "failed" THEN "record"
                           ELSE IF area.whole THEN "none" ELSE "invalid"
  BY <1>5 DEF decodeVariable, Refused, variableFrame, DecodedFrame
<1> QED
  BY <1>1, <1>3, <1>4, <1>5, <1>6, ReturnTells

LEMMA NextTells ==
    TInv /\ FInv /\ RefusalTells /\ [TelegramNext]_telegramVars => RefusalTells'
<1> SUFFICES ASSUME TInv, FInv, RefusalTells, [TelegramNext]_telegramVars
             PROVE  RefusalTells'
  OBVIOUS
<1>1. IInv /\ InParallel /\ area \in Areas
  BY DEF TInv, IInv
<1>2. area.whole <=> IsWholeVariable(area) \/ IsWholeFixed(area)
  BY <1>1, SendersAssumption DEF SendersAreLegal
<1>3. CASE TooShort
  <2>1. Return(Refused("invalid")) /\ ~(Len(area.frame) >= minFrameLen)
    BY <1>3 DEF TooShort, IsLong, frame
  <2>2. Refused("invalid").err = "invalid"
    BY DEF Refused
  <2>3. ~area.whole /\ ~IsForeign(area) /\ ~IsBroken(area)
    BY <1>2, <2>1 DEF IsWholeVariable, IsWholeFixed, HasHeader, IsForeign, IsBroken
  <2> QED
    BY <2>1, <2>2, <2>3, ReturnTells
<1>4. CASE UnsupportedCI
  <2>1. Return(Refused("unsupported")) /\ IsForeign(area)
    BY <1>4 DEF UnsupportedCI, CI, IsLong, frame, IsForeign
  <2>2. Refused("unsupported").err = "unsupported"
    BY DEF Refused
  <2>3. ~area.whole /\ ~IsBroken(area)
    BY <1>2, <2>1 DEF IsWholeVariable, IsWholeFixed, IsForeign, IsBroken
  <2> QED
    BY <2>1, <2>2, <2>3, ReturnTells
<1>5. CASE DecodeFixed
  BY <1>1, <1>5, FixedTells
<1>6. CASE DecodeVariable
  BY <1>6 DEF DecodeVariable, RefusalTells, IsOver
<1>7. CASE Walk
  BY <1>7 DEF Walk, RefusalTells, IsOver
<1>8. CASE Finish
  BY <1>1, <1>8, VariableTells
<1>9. CASE UNCHANGED telegramVars
  BY <1>9 DEF telegramVars, vars, RefusalTells, IsOver
<1> QED
  BY <1>3, <1>4, <1>5, <1>6, <1>7, <1>8, <1>9 DEF TelegramNext

\* Which error Decode returns says what is wrong, for any bytes: an error that is
\* neither ErrInvalidFrame nor ErrUnsupportedCI is returned just when the records of a
\* variable data response do not lie in its data, though its identification may be no
\* number either (LongFrame.Decode, decodeData).
THEOREM RefusalsTell == TelegramSpec => []RefusalTells
<1>1. TelegramInit => TInv /\ FInv /\ RefusalTells
  <2>1. TelegramInit => TInv /\ FInv
    BY InitTInv, InitFInv, TelegramInitWalks
  <2>2. TelegramInit => RefusalTells
    BY DEF TelegramInit, RefusalTells, IsOver
  <2> QED
    BY <2>1, <2>2
<1>2. TInv /\ FInv /\ [TelegramNext]_telegramVars => TInv' /\ FInv'
  BY NextTInv, NextFInv, TelegramStepWalks DEF TInv
<1> QED
  BY <1>1, <1>2, NextTells, PTL DEF TelegramSpec

-----------------------------------------------------------------------------
(* What is read of each record: its own bytes                              *)

\* The readings so far are of the records of the layout, each decoded from the
\* bytes of that record and of no other; the manufacturer's part is the last.
OwnBytes ==
    \A k \in 1..Len(readings) :
        /\ k <= Len(area.layout) => readings[k] = ReadingAt(data, area.layout[k])
        /\ k > Len(area.layout) =>
            /\ k = Len(area.layout) + 1 /\ SpecialAt(area)
            /\ readings[k] = SpecialReading(data[area.stop + 1])

\* The bytes kept of the record in progress are those of its pieces.
InHand ==
    /\ at \in {"dife", "vif"} => dife = SubSeq(data, rec.from + 2, i)
    /\ at \in {"dife", "vif", "text"} => vife = <<>> /\ text = <<>>
    /\ at = "text" =>
        \E v \in Nat : i = v + 1 /\ VIFLies(v) /\ dife = SubSeq(data, rec.from + 2, v)
    /\ at \in {"vife", "value"} =>
        \E v \in Nat : /\ VIFLies(v) /\ UnitLies(data, v) /\ UnitEnd(data, v) <= i
                       /\ dife = SubSeq(data, rec.from + 2, v)
                       /\ text = TextAt(data, v)
                       /\ vife = SubSeq(data, UnitEnd(data, v) + 1, i)

LEMMA SubSeqJoins ==
    ASSUME NEW d \in Seq(0..255), NEW a \in Nat \ {0}, NEW b \in Nat, NEW c \in Nat,
           a <= b + 1, b <= c, c <= Len(d)
    PROVE  SubSeq(d, a, b) \o SubSeq(d, b + 1, c) = SubSeq(d, a, c)
<1>1. a \in 1..(Len(d) + 1) /\ b \in (a - 1)..Len(d) /\ c \in b..Len(d)
  OBVIOUS
<1> QED
  BY <1>1, ConcatAdjacentSubSeq

LEMMA SubSeqIsEmpty ==
    ASSUME NEW d, NEW a \in Nat
    PROVE  SubSeq(d, a + 1, a) = <<>>
<1>1. a \in Int /\ a + 1 \in Int /\ a < a + 1
  OBVIOUS
<1> QED
  BY <1>1, SubSeqEmpty

\* The text behind its length, in the bytes that have been read of it.
LEMMA SubSeqTail ==
    ASSUME NEW d \in Seq(0..255), NEW a \in Nat \ {0}, NEW b \in Nat, a <= b, b <= Len(d)
    PROVE  SubSeq(SubSeq(d, a, b), 2, Len(SubSeq(d, a, b))) = SubSeq(d, a + 1, b)
<1>1. Len(SubSeq(d, a, b)) = b - a + 1
  OBVIOUS
<1>2. CASE a = b
  <2>1. SubSeq(d, a + 1, b) = <<>>
    BY <1>2, SubSeqIsEmpty
  <2>2. SubSeq(SubSeq(d, a, b), 1 + 1, 1) = <<>>
    BY SubSeqIsEmpty
  <2>3. Len(SubSeq(d, a, b)) = 1 /\ 1 + 1 = 2
    BY <1>1, <1>2
  <2> QED
    BY <2>1, <2>2, <2>3
<1>3. CASE a < b
  <2>1. /\ a \in 1..Len(d) /\ b \in 1..Len(d)
        /\ 2 \in 1..(b - a + 1) /\ b - a + 1 \in 1..(b - a + 1)
    BY <1>3
  <2>2. SubSeq(SubSeq(d, a, b), 2, b - a + 1) = SubSeq(d, a + 2 - 1, a + (b - a + 1) - 1)
    BY <2>1, SubSeqOfSubSeq
  <2>3. a + 2 - 1 = a + 1 /\ a + (b - a + 1) - 1 = b
    OBVIOUS
  <2> QED
    BY <1>1, <2>2, <2>3
<1> QED
  BY <1>2, <1>3

-----------------------------------------------------------------------------
(* The readings that a step of the walk leaves                             *)

LEMMA SameReadings ==
    ASSUME InParallel, IInv, Walk, records' = records
    PROVE  readings' = readings
<1>1. PICK S : readings \in Seq(S)
  BY DEF InParallel
<1>2. Len(readings) = Len(records)
  BY DEF InParallel
<1>3. readings' = SubSeq(readings, 1, Len(readings))
  BY <1>1, <1>2 DEF Walk
<1> QED
  BY <1>1, <1>3

LEMMA NoReadings ==
    ASSUME InParallel, IInv, Walk, records' = <<>>
    PROVE  readings' = <<>>
<1>1. PICK S : readings \in Seq(S)
  BY DEF InParallel
<1>2. Len(records') = 0 /\ Len(records) \in Nat
  BY DEF IInv, TypeOK
<1>3. readings' = SubSeq(readings, 1, 0)
  BY <1>2 DEF Walk
<1> QED
  BY <1>1, <1>3

LEMMA OneMoreReading ==
    ASSUME InParallel, IInv, Walk, NEW r, records' = Append(records, r), NEW x,
           x = IF at = "value" THEN Reading(ValueBytes) ELSE SpecialReading(Here)
    PROVE  /\ Len(readings') = Len(records) + 1
           /\ readings'[Len(records) + 1] = x
           /\ \A k \in 1..Len(records) : readings'[k] = readings[k]
<1>1. PICK S : readings \in Seq(S)
  BY DEF InParallel
<1>2. Len(readings) = Len(records)
  BY DEF InParallel
<1>3. records \in Seq(Decoded)
  BY DEF IInv, TypeOK
<1>4. ~(Len(records') <= Len(records))
  BY <1>3
<1>5. readings' = Append(readings, x)
  BY <1>4 DEF Walk
<1>6. readings \in Seq(S \cup {x})
  BY <1>1
<1> QED
  BY <1>2, <1>5, <1>6

\* Steps that end no record leave the readings alone; a failure leaves none.
LEMMA OwnBytesStay ==
    ASSUME InParallel, IInv, OwnBytes, Walk, area' = area,
           records' = records \/ records' = <<>>
    PROVE  OwnBytes'
<1>1. CASE records' = records
  <2>1. readings' = readings
    BY <1>1, SameReadings
  <2> QED
    BY <2>1 DEF OwnBytes, data
<1>2. CASE records' = <<>>
  <2>1. readings' = <<>>
    BY <1>2, NoReadings
  <2>2. ~\E k \in 1..Len(readings') : TRUE
    BY <2>1
  <2> QED
    BY <2>2 DEF OwnBytes
<1> QED
  BY <1>1, <1>2

-----------------------------------------------------------------------------
(* What a step of the walk keeps of the bytes it reads                     *)

RInv == OwnBytes /\ InHand

LEMMA FailReads ==
    ASSUME IInv, InParallel, RInv, Walk, Fail
    PROVE  RInv'
<1>1. records' = <<>> /\ area' = area /\ at' = "failed"
  BY DEF Fail
<1>2. OwnBytes'
  BY <1>1, OwnBytesStay DEF RInv
<1> QED
  BY <1>1, <1>2 DEF RInv, InHand

LEMMA DIFReads ==
    ASSUME IInv, InParallel, RInv, Walk, ReadDIF
    PROVE  RInv'
<1>1. /\ records' = records /\ area' = area /\ at = "dif" /\ at' \in {"dife", "vif"}
      /\ i' = i + 1 /\ rec'.from = i /\ i \in Nat
  BY DEF ReadDIF, IInv, TypeOK
<1>2. dife' = <<>> /\ vife' = <<>> /\ text' = <<>>
  BY <1>1 DEF Walk
<1>3. OwnBytes'
  BY <1>1, OwnBytesStay DEF RInv
<1>4. SubSeq(data', i' + 1, i') = <<>>
  BY <1>1, SubSeqIsEmpty
<1>5. rec'.from + 2 = i' + 1
  BY <1>1
<1>6. dife' = SubSeq(data', rec'.from + 2, i')
  BY <1>2, <1>4, <1>5
<1> QED
  BY <1>1, <1>2, <1>3, <1>6 DEF RInv, InHand

LEMMA VIFReads ==
    ASSUME IInv, FInv, InParallel, RInv, Walk, ReadVIF, Need(1)
    PROVE  RInv'
<1>1. /\ records' = records /\ area' = area /\ at = "vif" /\ i' = i + 1 /\ i \in Nat
      /\ rec' = [rec EXCEPT !.vif = Here]
      /\ at' = IF IsPlainText(Here) THEN "text" ELSE AfterUnit(Here)
      /\ area \in Areas /\ Len(data) \in Nat /\ rec.from \in Nat /\ rec.from < i
  BY LayoutFacts DEF ReadVIF, IInv, TypeOK, Pending, Pieces
<1>2. /\ dife' = dife /\ vife' = <<>> /\ text' = <<>> /\ dife = SubSeq(data, rec.from + 2, i)
  BY <1>1 DEF Walk, RInv, InHand
<1>3. OwnBytes'
  BY <1>1, OwnBytesStay DEF RInv
<1>4. data' = data
  BY <1>1 DEF data
<1>5. rec'.from = rec.from /\ rec'.dif = rec.dif /\ rec'.vif = data[i + 1]
  BY <1>1 DEF IInv, TypeOK, Here
<1>6. i < Len(data)
  BY <1>1 DEF Need
<1>7. PICK v \in Nat : v = i
  BY <1>1
<1>8. ExtensionsLie(data, rec.dif, rec.from + 1, v)
  BY <1>1, <1>7 DEF FInv, Pieces, InPiece
<1>9. VIFLies(v)'
  BY <1>1, <1>4, <1>5, <1>6, <1>7, <1>8 DEF VIFLies
<1>10. dife' = SubSeq(data', rec'.from + 2, v)
  BY <1>2, <1>4, <1>5, <1>7
<1>11. CASE IsPlainText(Here)
  <2>1. at' = "text" /\ i' = v + 1
    BY <1>1, <1>7, <1>11
  <2> QED
    BY <1>2, <1>3, <1>9, <1>10, <2>1 DEF RInv, InHand
<1>12. CASE ~IsPlainText(Here)
  <2>1. at' \in {"vife", "value"}
    BY <1>1, <1>12 DEF AfterUnit
  <2>2. ~IsPlainText(data'[v + 1])
    BY <1>4, <1>7, <1>12 DEF Here
  <2>3. UnitEnd(data', v) = v + 1 /\ TextAt(data', v) = <<>>
    BY <2>2 DEF UnitEnd, TextAt
  <2>4. UnitLies(data', v) /\ UnitEnd(data', v) <= i' /\ i' = v + 1
    BY <1>1, <1>4, <1>6, <1>7, <2>2, <2>3 DEF UnitLies
  <2>5. SubSeq(data', i' + 1, i') = <<>>
    BY <1>1, SubSeqIsEmpty
  <2>6. vife' = SubSeq(data', UnitEnd(data', v) + 1, i')
    BY <1>2, <2>3, <2>4, <2>5
  <2>7. text' = TextAt(data', v)
    BY <1>2, <2>3
  <2> QED
    BY <1>3, <1>9, <1>10, <2>1, <2>4, <2>6, <2>7 DEF RInv, InHand
<1> QED
  BY <1>11, <1>12

LEMMA TextReads ==
    ASSUME IInv, FInv, InParallel, RInv, Walk, ReadText, Need(1), Need(1 + Here)
    PROVE  RInv'
<1>1. /\ records' = records /\ area' = area /\ at = "text" /\ i' = i + 1 + Here /\ i \in Nat
      /\ rec' = rec /\ at' \in {"vife", "value"}
      /\ area \in Areas /\ Len(data) \in Nat /\ data \in Seq(0..255)
  BY LayoutFacts DEF ReadText, IInv, TypeOK, AfterUnit
<1>2. /\ dife' = dife /\ vife' = <<>>
      /\ text' = ASCIIText(SubSeq(BytesRead, 2, Len(BytesRead)))
  BY <1>1 DEF Walk, RInv, InHand
<1>3. OwnBytes'
  BY <1>1, OwnBytesStay DEF RInv
<1>4. data' = data
  BY <1>1 DEF data
<1>5. PICK v \in Nat : i = v + 1 /\ VIFLies(v) /\ dife = SubSeq(data, rec.from + 2, v)
  BY <1>1 DEF RInv, InHand
<1>6. i < Len(data) /\ Here \in 0..255
  <2>1. i < Len(data)
    BY <1>1 DEF Need
  <2> QED
    BY <1>1, <2>1, HereIsByte
<1>7. i' = v + 2 + Here /\ i' \in Nat /\ i' <= Len(data)
  BY <1>1, <1>5, <1>6 DEF Need
<1>8. IsPlainText(data[v + 1])
  BY <1>1, <1>5 DEF FInv, Pieces, InPiece, VIFLies
<1>9. UnitEnd(data, v) = i'
  BY <1>5, <1>7, <1>8 DEF UnitEnd, Here
<1>10. UnitLies(data, v)
  BY <1>1, <1>5, <1>6, <1>7, <1>9 DEF UnitLies
<1>11. text' = TextAt(data, v)
  <2>1. i + 1 \in Nat \ {0} /\ i + 1 <= i' /\ i + 1 + 1 = v + 3
    BY <1>1, <1>5, <1>6
  <2>2. SubSeq(BytesRead, 2, Len(BytesRead)) = SubSeq(data, i + 1 + 1, i')
    BY <1>1, <1>7, <2>1, SubSeqTail DEF BytesRead
  <2>3. text' = ASCIIText(SubSeq(data, v + 3, i'))
    BY <1>2, <2>1, <2>2
  <2> QED
    BY <1>8, <1>9, <2>3 DEF TextAt
<1>12. VIFLies(v)'
  BY <1>1, <1>4, <1>5 DEF VIFLies
<1>13. vife' = SubSeq(data', UnitEnd(data', v) + 1, i')
  <2>1. SubSeq(data', i' + 1, i') = <<>>
    BY <1>7, SubSeqIsEmpty
  <2> QED
    BY <1>2, <1>4, <1>9, <2>1
<1>14. dife' = SubSeq(data', rec'.from + 2, v)
  BY <1>1, <1>2, <1>4, <1>5
<1>15. UnitLies(data', v) /\ UnitEnd(data', v) <= i' /\ text' = TextAt(data', v)
  BY <1>4, <1>7, <1>9, <1>10, <1>11
<1> QED
  BY <1>1, <1>3, <1>12, <1>13, <1>14, <1>15 DEF RInv, InHand

LEMMA ExtensionReads ==
    ASSUME IInv, FInv, InParallel, RInv, Walk, ReadExtension, ~ChainIsFull, Need(1)
    PROVE  RInv'
<1>1. /\ records' = records /\ area' = area /\ i' = i + 1 /\ i \in Nat
      /\ area \in Areas /\ Len(data) \in Nat /\ data \in Seq(0..255)
      /\ rec.from \in Nat /\ rec.from < i
  BY LayoutFacts DEF ReadExtension, IInv, TypeOK, Pending, Pieces
<1>2. rec'.from = rec.from /\ rec'.dif = rec.dif /\ rec'.vif = rec.vif
  BY DEF ReadExtension, IInv, TypeOK
<1>3. OwnBytes'
  BY <1>1, OwnBytesStay DEF RInv
<1>4. data' = data
  BY <1>1 DEF data
<1>5. i' \in Nat /\ i <= i' /\ i' <= Len(data)
  BY <1>1 DEF Need
<1>6. CASE at = "dife"
  <2>1. at' \in {"dife", "vif"}
    BY <1>6 DEF ReadExtension
  <2>2. /\ dife' = dife \o SubSeq(data, i + 1, i') /\ vife' = <<>> /\ text' = <<>>
        /\ dife = SubSeq(data, rec.from + 2, i)
    BY <1>6 DEF Walk, RInv, InHand, BytesRead
  <2>3. rec.from + 2 \in Nat \ {0} /\ rec.from + 2 <= i + 1
    BY <1>1
  <2>4. dife' = SubSeq(data, rec.from + 2, i')
    BY <1>1, <1>5, <2>2, <2>3, SubSeqJoins
  <2> QED
    BY <1>2, <1>3, <1>4, <2>1, <2>2, <2>4 DEF RInv, InHand
<1>7. CASE at = "vife"
  <2>1. at' \in {"vife", "value"}
    BY <1>7 DEF ReadExtension
  <2>2. PICK v \in Nat : /\ VIFLies(v) /\ UnitLies(data, v) /\ UnitEnd(data, v) <= i
                         /\ dife = SubSeq(data, rec.from + 2, v)
                         /\ text = TextAt(data, v)
                         /\ vife = SubSeq(data, UnitEnd(data, v) + 1, i)
    BY <1>7 DEF RInv, InHand
  <2>3. /\ vife' = vife \o SubSeq(data, i + 1, i') /\ dife' = dife /\ text' = text
    BY <1>7 DEF Walk, BytesRead
  <2>4. PICK e \in Nat : e = UnitEnd(data, v)
    BY <1>1, <2>2, UnitEndIsNat DEF VIFLies
  <2>5. e + 1 \in Nat \ {0} /\ e + 1 <= i + 1 /\ e <= i'
    BY <1>1, <1>5, <2>2, <2>4
  <2>6. vife' = SubSeq(data, e + 1, i')
    <3>1. data \in Seq(0..255) /\ i \in Nat /\ i' \in Nat /\ i <= i' /\ i' <= Len(data)
      BY <1>1, <1>5
    <3>2. SubSeq(data, e + 1, i) \o SubSeq(data, i + 1, i') = SubSeq(data, e + 1, i')
      BY <2>5, <3>1, SubSeqJoins
    <3>3. vife = SubSeq(data, e + 1, i)
      BY <2>2, <2>4
    <3> QED
      BY <2>3, <3>2, <3>3
  <2>7. VIFLies(v)'
    BY <1>2, <1>4, <2>2 DEF VIFLies
  <2>8. /\ UnitLies(data', v) /\ UnitEnd(data', v) <= i' /\ text' = TextAt(data', v)
        /\ dife' = SubSeq(data', rec'.from + 2, v)
        /\ vife' = SubSeq(data', UnitEnd(data', v) + 1, i')
    BY <1>2, <1>4, <2>2, <2>3, <2>4, <2>5, <2>6
  <2> QED
    BY <1>3, <2>1, <2>7, <2>8 DEF RInv, InHand
<1> QED
  BY <1>6, <1>7 DEF ReadExtension

\* A reading added to those of the records before.
LEMMA OneMoreOwn ==
    ASSUME IInv, InParallel, OwnBytes, Walk, area' = area, NEW m \in Nat, m = Len(records),
           NEW r, records' = Append(records, r), NEW x,
           x = IF at = "value" THEN Reading(ValueBytes) ELSE SpecialReading(Here),
           m + 1 <= Len(area.layout) => x = ReadingAt(data, area.layout[m + 1]),
           m + 1 > Len(area.layout) =>
                /\ m = Len(area.layout) /\ SpecialAt(area)
                /\ x = SpecialReading(data[area.stop + 1])
    PROVE  OwnBytes'
<1>1. /\ Len(readings') = m + 1 /\ readings'[m + 1] = x
      /\ \A k \in 1..m : readings'[k] = readings[k]
  BY OneMoreReading
<1>2. Len(readings) = m /\ data' = data
  BY DEF InParallel, data
<1>3. ASSUME NEW k \in 1..(m + 1)
      PROVE  /\ k <= Len(area.layout) => readings'[k] = ReadingAt(data, area.layout[k])
             /\ k > Len(area.layout) =>
                  /\ k = Len(area.layout) + 1 /\ SpecialAt(area)
                  /\ readings'[k] = SpecialReading(data[area.stop + 1])
  <2>1. CASE k \in 1..m
    <3>1. readings'[k] = readings[k] /\ k \in 1..Len(readings)
      BY <1>1, <1>2, <2>1
    <3> QED
      BY <3>1 DEF OwnBytes
  <2>2. CASE k = m + 1
    BY <1>1, <2>2
  <2> QED
    BY <2>1, <2>2
<1> QED
  BY <1>1, <1>2, <1>3 DEF OwnBytes

LEMMA EmitReads ==
    ASSUME IInv, FInv, InParallel, RInv, Walk, at = "value", ValueLies(data, rec.dif, i),
           NEW n \in Nat, i + n = ValueEnd(data, rec.dif, i),
           NEW bad \in BOOLEAN, Emit(n, bad)
    PROVE  RInv'
<1> DEFINE r == [from |-> rec.from, to |-> i + n, bad |-> bad, more |-> FALSE]
<1>m. PICK m \in Nat : m = Len(records)
  BY DEF IInv, TypeOK
<1>1. records' = Append(records, r) /\ area' = area /\ at' = "dif"
  BY DEF Emit
<1>2. /\ area \in Areas /\ records \in Seq(Decoded) /\ rec.from + 1 \in Nat /\ rec.dif \in 0..255
      /\ data \in Seq(0..255)
  BY LayoutFacts DEF IInv, TypeOK
<1>3. PICK v \in Nat : /\ VIFLies(v)
                       /\ dife = SubSeq(data, rec.from + 2, v)
                       /\ text = TextAt(data, v)
                       /\ vife = SubSeq(data, UnitEnd(data, v) + 1, i)
  BY DEF RInv, InHand
<1> DEFINE p == area.layout[m + 1]
<1>4. /\ m + 1 \in 1..Len(area.layout) /\ p = [from |-> rec.from, vif |-> p.vif, value |-> i]
      /\ p.vif \in Nat /\ VIFLies(p.vif)
  BY <1>m, ValueIsThere
<1> HIDE DEF p
<1>5. p.vif = v
  <2>1. /\ ExtensionsLie(data, rec.dif, rec.from + 1, v)
        /\ ExtensionsLie(data, rec.dif, rec.from + 1, p.vif)
    BY <1>3, <1>4 DEF VIFLies
  <2> QED
    BY <1>2, <1>4, <2>1, ExtensionsAreUnique
<1>6. p.from = rec.from /\ p.value = i
  BY <1>4
<1>7. rec.dif = data[rec.from + 1] /\ rec.vif = data[v + 1]
  BY <1>3 DEF FInv, Pieces, InPiece, VIFLies
<1>8. ValueBytes = SubSeq(data, i + 1, i + n)
  <2>1. r.to = i + n
    OBVIOUS
  <2> HIDE DEF r
  <2>2. records'[Len(records')] = r
    BY <1>1, <1>2
  <2> QED
    BY <2>1, <2>2 DEF ValueBytes
<1>9. Reading(ValueBytes) = ReadingAt(data, p)
  BY <1>3, <1>5, <1>6, <1>7, <1>8, Zenon DEF Reading, ReadingAt
<1>10. PICK x : x = Reading(ValueBytes)
  OBVIOUS
<1>11. OwnBytes'
  <2>1. m + 1 <= Len(area.layout) /\ ~(m + 1 > Len(area.layout))
    BY <1>2, <1>4, LayoutFacts
  <2>2. x = ReadingAt(data, area.layout[m + 1])
    BY <1>9, <1>10 DEF p
  <2> HIDE DEF r
  <2> QED
    BY <1>m, <1>1, <1>10, <2>1, <2>2, OneMoreOwn DEF RInv
<1> QED
  BY <1>1, <1>11 DEF RInv, InHand

LEMMA SpecialReads ==
    ASSUME IInv, FInv, InParallel, RInv, Walk, Special
    PROVE  RInv'
<1> DEFINE r == [from |-> i, to |-> i + 1, bad |-> FALSE, more |-> Here = 31]
<1>m. PICK m \in Nat : m = Len(records)
  BY DEF IInv, TypeOK
<1>1. /\ records' = Append(records, r) /\ area' = area /\ at = "dif" /\ at' = "done"
      /\ i < Len(data) /\ Here \in SpecialDIFs
  BY DEF Special, SpecialDIFs
<1>2. area \in Areas /\ Len(area.layout) \in Nat
  BY LayoutFacts DEF IInv
<1>3. FInv'
  BY SpecialFinds
<1>4. records \in Seq(Decoded)
  BY DEF IInv, TypeOK
<1>5. Len(records') = m + 1 /\ records'[m + 1].from = i
  <2>1. r.from = i
    OBVIOUS
  <2> HIDE DEF r
  <2> QED
    BY <1>m, <1>1, <1>4, <2>1
<1>6. /\ EndsWell(area)
      /\ Len(records') = Len(area.layout) + (IF area.stop < Len(data) THEN 1 ELSE 0)
      /\ area.stop < Len(data) => records'[Len(records')].from = area.stop
  BY <1>1, <1>3 DEF FInv, FoundIsLaid, data
<1>7. area.stop < Len(data)
  <2>1. Matched(m) /\ m \in 0..Len(area.layout)
    BY <1>m, <1>1, BetweenFacts
  <2> SUFFICES ASSUME ~(area.stop < Len(data)) PROVE FALSE
    OBVIOUS
  <2>2. m + 1 = Len(area.layout) + 0
    BY <1>5, <1>6
  <2>3. Upcoming(area, m) = i
    BY <1>m, <1>1, BetweenFacts DEF SpecialDIFs
  <2>4. m < Len(area.layout)
    BY <1>2, <2>2
  <2> QED
    BY <1>1, <1>2, <2>1, <2>3, <2>4, UpcomingFacts DEF NoRecordDIFs, Here
<1>8. area.stop = i /\ m = Len(area.layout)
  BY <1>2, <1>5, <1>6, <1>7
<1>9. SpecialAt(area)
  BY <1>6, <1>7 DEF SpecialAt, data
<1>10. PICK x : x = SpecialReading(Here)
  OBVIOUS
<1>11. OwnBytes'
  <2>1. x = SpecialReading(data[area.stop + 1])
    BY <1>8, <1>10 DEF Here
  <2>2. ~(m + 1 <= Len(area.layout))
    BY <1>8
  <2>3. at # "value"
    BY <1>1
  <2> HIDE DEF r
  <2> QED
    BY <1>m, <1>1, <1>8, <1>9, <1>10, <2>1, <2>2, <2>3, OneMoreOwn DEF RInv
<1> QED
  BY <1>1, <1>11 DEF RInv, InHand

LEMMA WalkReads ==
    ASSUME IInv, FInv, InParallel, RInv, Walk
    PROVE  RInv'
<1>0. Next
  BY DEF Walk
<1>10. CASE Fail
  BY <1>10, FailReads
<1>1. CASE EndOfData
  <2>1. records' = records /\ area' = area /\ at' = "done"
    BY <1>1 DEF EndOfData
  <2> QED
    BY <2>1, OwnBytesStay DEF RInv, InHand
<1>2. CASE Special
  BY <1>2, SpecialReads
<1>3. CASE Filler
  <2>1. records' = records /\ area' = area /\ at' = "dif"
    BY <1>3 DEF Filler
  <2> QED
    BY <2>1, OwnBytesStay DEF RInv, InHand
<1>4. CASE ReadDIF
  BY <1>4, DIFReads
<1>5. CASE ReadVIF /\ ~Fail
  BY <1>5, VIFReads DEF ReadVIF
<1>6. CASE ReadExtension /\ ~Fail
  BY <1>6, ExtensionReads DEF ReadExtension
<1>7. CASE ReadText /\ ~Fail
  BY <1>7, TextReads DEF ReadText
<1>8. CASE ReadValue /\ ~Fail
  <2> DEFINE n == Width(field(rec.dif))
             bad == field(rec.dif) \in BCDFields /\ BCDSigned(SubSeq(data, i + 1, i + n)) = {}
  <2>1. at = "value" /\ field(rec.dif) # LVAR /\ Need(n) /\ Emit(n, bad)
    BY <1>8 DEF ReadValue
  <2>2. rec.dif \in 0..255
    BY DEF IInv, TypeOK
  <2>3. n \in Nat /\ bad \in BOOLEAN
    BY <2>1, <2>2, WidthIsNat
  <2>4. i + n = ValueEnd(data, rec.dif, i)
    BY <2>1 DEF ValueEnd
  <2> HIDE DEF n, bad
  <2>5. ValueLies(data, rec.dif, i)
    BY <2>1, <2>4 DEF ValueLies, Need
  <2> QED
    BY <2>1, <2>3, <2>4, <2>5, EmitReads
<1>9. CASE ReadLVAR /\ ~Fail
  <2> DEFINE n == 1 + PayloadSize(Here)
             bad == Here \in LVARBCD /\ BCDMagnitude(SubSeq(data, i + 2, i + n)) = {}
  <2>1. /\ at = "value" /\ field(rec.dif) = LVAR
        /\ Need(1) /\ Supported(Here) /\ Need(n) /\ Emit(n, bad)
    BY <1>9 DEF ReadLVAR
  <2>2. area \in Areas /\ i \in Nat /\ Len(data) \in Nat
    BY LayoutFacts DEF IInv, TypeOK
  <2>3. i < Len(data)
    BY <2>1, <2>2 DEF Need
  <2>4. PayloadSize(Here) \in Nat
    BY <2>2, <2>3, HereIsByte, PayloadIsNat
  <2>5. ValueEnd(data, rec.dif, i) = i + 1 + PayloadSize(Here)
    BY <2>1 DEF ValueEnd, Here
  <2>6. n \in Nat /\ i + n = ValueEnd(data, rec.dif, i) /\ bad \in BOOLEAN
    BY <2>2, <2>4, <2>5
  <2> HIDE DEF n, bad
  <2>7. ValueLies(data, rec.dif, i)
    BY <2>1, <2>3, <2>6 DEF ValueLies, Need, Here
  <2> QED
    BY <2>1, <2>6, <2>7, EmitReads
<1> QED
  BY <1>0, <1>10, <1>1, <1>2, <1>3, <1>4, <1>5, <1>6, <1>7, <1>8, <1>9 DEF Next

LEMMA NextRInv ==
    TInv /\ FInv /\ RInv /\ [TelegramNext]_telegramVars => RInv'
<1> SUFFICES ASSUME TInv, FInv, RInv, [TelegramNext]_telegramVars PROVE RInv'
  OBVIOUS
<1>1. IInv /\ InParallel
  BY DEF TInv
<1>2. CASE Walk
  BY <1>1, <1>2, WalkReads
<1>3. CASE UNCHANGED <<vars, contentVars>>
  BY <1>3 DEF vars, contentVars, RInv, OwnBytes, InHand, VIFLies, data
<1>4. CASE ~Walk
  <2>1. UNCHANGED <<vars, contentVars>>
    BY <1>4 DEF TelegramNext, TooShort, UnsupportedCI, DecodeFixed, DecodeVariable, Finish,
                Return, telegramVars
  <2> QED
    BY <1>3, <2>1
<1> QED
  BY <1>2, <1>4

LEMMA InitRInv == TelegramInit => RInv
<1> SUFFICES ASSUME TelegramInit PROVE RInv
  OBVIOUS
<1>1. readings = <<>> /\ at = "dif"
  BY DEF TelegramInit, Init
<1>2. ~\E k \in 1..Len(readings) : TRUE
  BY <1>1
<1> QED
  BY <1>1, <1>2 DEF RInv, OwnBytes, InHand

\* However the pieces come, each record is decoded from its own bytes, whole and
\* in order, and from no byte of another (decodeRecord, decodeRecordValue).
THEOREM EachReadsItsOwnBytes == TelegramSpec => []OwnBytes
<1>1. TelegramInit => TInv /\ FInv /\ RInv
  BY InitTInv, InitFInv, InitRInv, TelegramInitWalks
<1>2. TInv /\ FInv /\ [TelegramNext]_telegramVars => TInv' /\ FInv'
  BY NextTInv, NextFInv, TelegramStepWalks DEF TInv
<1>3. RInv => OwnBytes
  BY DEF RInv
<1> QED
  BY <1>1, <1>2, <1>3, NextRInv, PTL DEF TelegramSpec

-----------------------------------------------------------------------------
(* What is read of a telegram is what its sender meant                     *)

\* The k-th of the records rs is the k-th that is sent.
AllMeant(rs) ==
    /\ Len(rs) <= Len(area.meant)
    /\ \A k \in 1..Len(rs) : IsMeant(rs[k], area.meant[k])

MInv ==
    /\ stage = "head" => readings = <<>>
    /\ IsDecoded => AllMeant(result.records)

LEMMA SenderFacts ==
    ASSUME area \in Areas
    PROVE  /\ Len(area.meant) \in Nat /\ Len(frame) \in Nat
           /\ IsWholeFixed(area) => Len(area.meant) = 2
<1>1. /\ area.frame \in Seq(0..255) /\ Len(area.meant) \in Nat
      /\ IsWholeFixed(area) => Len(area.meant) = 2
  BY SendersAssumption DEF SendersAreLegal
<1> QED
  BY <1>1 DEF frame

LEMMA NoneIsMeant ==
    ASSUME area \in Areas
    PROVE  AllMeant(<<>>)
  BY SenderFacts DEF AllMeant

LEMMA RecordsOfFacts ==
    ASSUME area \in Areas
    PROVE  /\ Len(RecordsOf(area)) = Len(area.layout) + (IF SpecialAt(area) THEN 1 ELSE 0)
           /\ \A k \in 1..Len(area.layout) :
                RecordsOf(area)[k] = ReadingAt(area.data, area.layout[k])
           /\ SpecialAt(area) => RecordsOf(area)[Len(area.layout) + 1]
                                   = SpecialReading(area.data[area.stop + 1])
<1> DEFINE n    == Len(area.layout)
           more == IF SpecialAt(area) THEN 1 ELSE 0
<1>1. n \in Nat
  BY LayoutFacts
<1>2. more \in Nat /\ (SpecialAt(area) => more = 1)
  OBVIOUS
<1>3. RecordsOf(area) = [k \in 1..(n + more) |->
        IF k <= n THEN ReadingAt(area.data, area.layout[k])
        ELSE SpecialReading(area.data[area.stop + 1])]
  BY DEF RecordsOf
<1> HIDE DEF more, n
<1>4. Len(RecordsOf(area)) = n + more
  BY <1>1, <1>2, <1>3
<1>5. \A k \in 1..n : RecordsOf(area)[k] = ReadingAt(area.data, area.layout[k])
  <2>1. TAKE k \in 1..n
  <2>2. k \in 1..(n + more) /\ k <= n
    BY <1>1, <1>2
  <2> QED
    BY <1>3, <2>2
<1>6. ASSUME SpecialAt(area)
      PROVE  RecordsOf(area)[n + 1] = SpecialReading(area.data[area.stop + 1])
  <2>1. n + 1 \in 1..(n + more) /\ ~(n + 1 <= n)
    BY <1>1, <1>2, <1>6
  <2> QED
    BY <1>3, <2>1
<1> QED
  BY <1>4, <1>5, <1>6 DEF more, n

\* While a variable data response is walked over, its readings are those of the
\* area, as far as it has come, because each is of its own bytes.
LEMMA ReadSoFarIsOfArea ==
    ASSUME area \in Areas, InParallel, OwnBytes
    PROVE  /\ Len(readings) <= Len(RecordsOf(area))
           /\ \A k \in 1..Len(readings) : readings[k] = RecordsOf(area)[k]
<1> DEFINE n    == Len(area.layout)
           more == IF SpecialAt(area) THEN 1 ELSE 0
<1>1. n \in Nat
  BY LayoutFacts
<1>2. PICK S : readings \in Seq(S)
  BY DEF InParallel
<1>3. Len(readings) \in Nat
  BY <1>2
<1>4. more \in Nat /\ (SpecialAt(area) => more = 1)
  OBVIOUS
<1>5. /\ Len(RecordsOf(area)) = n + more
      /\ \A k \in 1..n : RecordsOf(area)[k] = ReadingAt(area.data, area.layout[k])
      /\ SpecialAt(area) => RecordsOf(area)[n + 1] = SpecialReading(area.data[area.stop + 1])
  BY RecordsOfFacts
<1> HIDE DEF more
<1>6. ASSUME NEW k \in 1..Len(readings)
      PROVE  k <= n + more /\ readings[k] = RecordsOf(area)[k]
  <2>1. k \in Nat /\ k >= 1
    BY <1>3
  <2>2. CASE k <= n
    <3>1. k \in 1..n
      BY <1>1, <2>1, <2>2
    <3>2. readings[k] = ReadingAt(area.data, area.layout[k])
      BY <1>6, <2>2 DEF OwnBytes, data
    <3>3. k <= n + more
      BY <1>1, <1>4, <2>1, <2>2
    <3> QED
      BY <1>5, <3>1, <3>2, <3>3
  <2>3. CASE k > n
    <3>1. /\ k = n + 1 /\ SpecialAt(area)
          /\ readings[k] = SpecialReading(area.data[area.stop + 1])
      BY <1>6, <2>3 DEF OwnBytes, data
    <3>2. k <= n + more
      BY <1>1, <1>4, <3>1
    <3> QED
      BY <1>5, <3>1, <3>2
  <2>4. k <= n \/ k > n
    BY <1>1, <2>1
  <2> QED
    BY <2>2, <2>3, <2>4
<1>7. Len(readings) <= n + more
  <2>1. CASE Len(readings) = 0
    BY <1>1, <1>4, <2>1
  <2>2. CASE Len(readings) # 0
    <3>1. Len(readings) \in 1..Len(readings)
      BY <1>3, <2>2
    <3> QED
      BY <1>6, <3>1
  <2> QED
    BY <2>1, <2>2
<1> QED
  BY <1>5, <1>6, <1>7

LEMMA ReadSoFar ==
    ASSUME RecordsReadAsMeant, area \in Areas, InParallel, OwnBytes, IsVariable
    PROVE  AllMeant(readings)
<1>1. /\ Len(RecordsOf(area)) <= Len(area.meant)
      /\ \A k \in 1..Len(RecordsOf(area)) : IsMeant(RecordsOf(area)[k], area.meant[k])
  <2>1. Len(area.frame) >= minFrameLen /\ area.frame[7] = ciVariableDataMode1
    BY DEF IsVariable, IsLong, CI, frame
  <2> QED
    BY <2>1 DEF RecordsReadAsMeant
<1>2. /\ Len(readings) <= Len(RecordsOf(area))
      /\ \A k \in 1..Len(readings) : readings[k] = RecordsOf(area)[k]
  BY ReadSoFarIsOfArea
<1>3. Len(readings) \in Nat /\ Len(RecordsOf(area)) \in Nat /\ Len(area.meant) \in Nat
  <2>1. Len(readings) \in Nat
    BY DEF InParallel
  <2>2. Len(area.layout) \in Nat
    BY LayoutFacts
  <2>3. Len(RecordsOf(area)) \in Nat
    BY <2>2, RecordsOfFacts
  <2> QED
    BY <2>1, <2>3, SenderFacts
<1>4. ASSUME NEW k \in 1..Len(readings) PROVE IsMeant(readings[k], area.meant[k])
  <2>1. k \in 1..Len(RecordsOf(area))
    BY <1>2, <1>3
  <2> QED
    BY <1>1, <1>2, <2>1
<1>5. Len(readings) <= Len(area.meant)
  BY <1>1, <1>2, <1>3
<1> QED
  BY <1>4, <1>5 DEF AllMeant

LEMMA FixedIsMeant ==
    ASSUME RecordsReadAsMeant, area \in Areas, DecodeFixed
    PROVE  MInv'
<1>1. /\ IsLong /\ CI = ciFixedDataMode1
      /\ result' = decodeFixed /\ area' = area /\ stage' = "over"
  BY DEF DecodeFixed, Return, vars
<1>2. CASE Len(frame) < fixedMinFrameLen \/ SerialNumber = {}
  <2>1. decodeFixed.err # "none"
    BY <1>2 DEF decodeFixed, Refused
  <2> QED
    BY <1>1, <2>1 DEF MInv, IsDecoded
<1>3. CASE ~(Len(frame) < fixedMinFrameLen \/ SerialNumber = {})
  <2>1. decodeFixed.records = fixedRecords(area.frame)
    BY <1>3 DEF decodeFixed, fixedFrame, DecodedFrame, frame
  <2>2. Len(frame) >= fixedMinFrameLen
    BY <1>3, SenderFacts DEF fixedMinFrameLen
  <2>3. IsWholeFixed(area)
    BY <1>1, <1>3, <2>2 DEF IsWholeFixed, HasHeader, SerialNumber, frame, CI, IsLong
  <2>4. Len(area.meant) = 2 /\ \A k \in 1..2 : IsMeant(fixedRecords(area.frame)[k], area.meant[k])
    BY <2>3, SenderFacts DEF RecordsReadAsMeant
  <2>5. Len(fixedRecords(area.frame)) = 2
    BY DEF fixedRecords
  <2>6. AllMeant(fixedRecords(area.frame))
    BY <2>4, <2>5 DEF AllMeant
  <2>7. AllMeant(result.records)'
    BY <1>1, <2>1, <2>6 DEF AllMeant
  <2> QED
    BY <1>1, <2>7 DEF MInv
<1> QED
  BY <1>2, <1>3

LEMMA NextMInv ==
    RecordsReadAsMeant /\ TInv /\ RInv /\ MInv /\ [TelegramNext]_telegramVars => MInv'
<1> SUFFICES ASSUME RecordsReadAsMeant, TInv, RInv, MInv, [TelegramNext]_telegramVars
             PROVE  MInv'
  OBVIOUS
<1>1. IInv /\ InParallel /\ OwnBytes /\ area \in Areas
  BY DEF TInv, IInv, RInv
<1>2. CASE TooShort \/ UnsupportedCI
  <2>1. stage' = "over" /\ result'.err # "none"
    BY <1>2 DEF TooShort, UnsupportedCI, Return, Refused
  <2> QED
    BY <2>1 DEF MInv, IsDecoded
<1>3. CASE DecodeFixed
  BY <1>1, <1>3, FixedIsMeant
<1>4. CASE DecodeVariable
  BY <1>4 DEF DecodeVariable, MInv, IsDecoded, IsOver
<1>5. CASE Walk
  BY <1>5 DEF Walk, MInv, IsDecoded, IsOver
<1>6. CASE Finish
  <2>1. /\ stage' = "over" /\ area' = area /\ result' = decodeVariable /\ IsVariable
    BY <1>1, <1>6 DEF Finish, Return, vars, InParallel
  <2>2. CASE at = "failed" \/ SerialNumber = {}
    <3>1. decodeVariable.err # "none"
      BY <2>2 DEF decodeVariable, Refused
    <3> QED
      BY <2>1, <3>1 DEF MInv, IsDecoded
  <2>3. CASE ~(at = "failed" \/ SerialNumber = {})
    <3>1. decodeVariable.records = readings
      BY <2>3 DEF decodeVariable, variableFrame, DecodedFrame
    <3>2. AllMeant(readings)
      BY <1>1, <2>1, ReadSoFar
    <3>3. AllMeant(result.records)'
      BY <2>1, <3>1, <3>2 DEF AllMeant
    <3> QED
      BY <2>1, <3>3 DEF MInv
  <2> QED
    BY <2>2, <2>3
<1>7. CASE UNCHANGED telegramVars
  BY <1>7 DEF telegramVars, vars, contentVars, MInv, AllMeant, IsDecoded, IsOver
<1> QED
  BY <1>2, <1>3, <1>4, <1>5, <1>6, <1>7 DEF TelegramNext

LEMMA AllIsMeant ==
    RecordsReadAsMeant /\ TInv /\ RInv /\ MInv => ReadingsAreMeant
<1> SUFFICES ASSUME RecordsReadAsMeant, TInv, RInv, MInv PROVE ReadingsAreMeant
  OBVIOUS
<1>1. InParallel /\ OwnBytes /\ area \in Areas
  BY DEF TInv, IInv, RInv
<1>2. CASE IsDecoded
  BY <1>2 DEF MInv, AllMeant, ReadingsAreMeant, DecodedSoFar
<1>3. CASE ~IsOver
  <2>1. stage \in {"head", "walk"}
    BY <1>1, <1>3 DEF InParallel, IsOver
  <2>2. AllMeant(readings)
    <3>1. CASE stage = "head"
      BY <1>1, <3>1, NoneIsMeant DEF MInv
    <3>2. CASE stage = "walk"
      BY <1>1, <3>2, ReadSoFar DEF InParallel
    <3> QED
      BY <2>1, <3>1, <3>2
  <2>3. DecodedSoFar = readings
    BY <1>3 DEF DecodedSoFar, IsDecoded
  <2> QED
    BY <2>2, <2>3 DEF AllMeant, ReadingsAreMeant
<1> QED
  BY <1>2, <1>3 DEF ReadingsAreMeant

\* If each record by itself reads as its sender means it, then so does every
\* record of every telegram, wherever it comes among others and whatever comes
\* before it; nothing is read from a place where nothing was sent (Decode).
THEOREM NoReadingIsMistaken ==
    ASSUME RecordsReadAsMeant
    PROVE  TelegramSpec => []ReadingsAreMeant
<1>1. TelegramInit => TInv /\ FInv /\ RInv /\ MInv
  <2>1. TelegramInit => MInv
    BY DEF TelegramInit, MInv, IsDecoded, IsOver
  <2> QED
    BY <2>1, InitTInv, InitFInv, InitRInv, TelegramInitWalks
<1>2. TInv /\ FInv /\ [TelegramNext]_telegramVars => TInv' /\ FInv'
  BY NextTInv, NextFInv, TelegramStepWalks DEF TInv
<1>3. TInv /\ RInv /\ MInv /\ [TelegramNext]_telegramVars => MInv'
  BY NextMInv
<1>4. TInv /\ RInv /\ MInv => ReadingsAreMeant
  BY AllIsMeant
<1> QED
  BY <1>1, <1>2, <1>3, <1>4, NextRInv, PTL DEF TelegramSpec

-----------------------------------------------------------------------------
(* What a caller is told of a decoded telegram                             *)

\* What is returned of a whole telegram: the frame's, with the area's records.
FrameOf == IF CI = ciVariableDataMode1 THEN variableFrame(frame, RecordsOf(area))
           ELSE fixedFrame(frame)

LInv == IsDecoded => /\ IsWholeVariable(area) \/ IsWholeFixed(area)
                     /\ result = FrameOf

\* A walk that is done has read each record of the area.
LEMMA ReadToTheEnd ==
    ASSUME area \in Areas, FInv, InParallel, OwnBytes, at = "done"
    PROVE  readings = RecordsOf(area)
<1> DEFINE more == IF SpecialAt(area) THEN 1 ELSE 0
           n    == Len(area.layout)
<1>1. /\ EndsWell(area)
      /\ Len(records) = n + (IF area.stop < Len(area.data) THEN 1 ELSE 0)
  BY DEF FInv, FoundIsLaid, data
<1>2. SpecialAt(area) <=> area.stop < Len(area.data)
  BY <1>1 DEF SpecialAt
<1>3. Len(readings) = n + more
  BY <1>1, <1>2 DEF InParallel
<1>4. \A k \in 1..Len(readings) : readings[k] = RecordsOf(area)[k]
  BY ReadSoFarIsOfArea
<1>5. n \in Nat /\ more \in Nat
  BY LayoutFacts
<1>6. RecordsOf(area) = [k \in 1..(n + more) |-> RecordsOf(area)[k]]
  BY DEF RecordsOf
<1> HIDE DEF more, n
<1>7. readings = [k \in 1..(n + more) |-> readings[k]]
  <2>1. PICK S : readings \in Seq(S)
    BY DEF InParallel
  <2>2. readings = [k \in 1..Len(readings) |-> readings[k]]
    BY <2>1
  <2> QED
    BY <1>3, <2>2
<1> QED
  BY <1>3, <1>4, <1>6, <1>7

LEMMA FixedIsReturned ==
    ASSUME area \in Areas, DecodeFixed
    PROVE  LInv'
<1>1. /\ IsLong /\ CI = ciFixedDataMode1
      /\ result' = decodeFixed /\ area' = area
  BY DEF DecodeFixed, Return, vars
<1>2. CASE Len(frame) < fixedMinFrameLen \/ SerialNumber = {}
  <2>1. decodeFixed.err # "none"
    BY <1>2 DEF decodeFixed, Refused
  <2> QED
    BY <1>1, <2>1 DEF LInv, IsDecoded
<1>3. CASE ~(Len(frame) < fixedMinFrameLen \/ SerialNumber = {})
  <2>1. decodeFixed = fixedFrame(frame)
    BY <1>3 DEF decodeFixed
  <2>2. Len(frame) >= fixedMinFrameLen
    BY <1>3, SenderFacts DEF fixedMinFrameLen
  <2>3. IsWholeFixed(area)
    BY <1>1, <1>3, <2>2 DEF IsWholeFixed, HasHeader, SerialNumber, frame, CI, IsLong
  <2>4. FrameOf = fixedFrame(frame)
    BY <1>1 DEF FrameOf, ciFixedDataMode1, ciVariableDataMode1
  <2>5. FrameOf' = FrameOf
    BY <1>1 DEF FrameOf, CI, frame
  <2> QED
    BY <1>1, <2>1, <2>3, <2>4, <2>5 DEF LInv
<1> QED
  BY <1>2, <1>3

LEMMA VariableIsReturned ==
    ASSUME area \in Areas, FInv, InParallel, OwnBytes, Finish
    PROVE  LInv'
<1>1. /\ at \in {"done", "failed"} /\ IsLong /\ CI = ciVariableDataMode1
      /\ result' = decodeVariable /\ area' = area
  BY DEF Finish, Return, vars, Over, InParallel, IsVariable
<1>2. CASE at = "failed" \/ SerialNumber = {}
  <2>1. decodeVariable.err # "none"
    BY <1>2 DEF decodeVariable, Refused
  <2> QED
    BY <1>1, <2>1 DEF LInv, IsDecoded
<1>3. CASE ~(at = "failed" \/ SerialNumber = {})
  <2>1. decodeVariable = variableFrame(frame, RecordsOf(area))
    BY <1>1, <1>3, ReadToTheEnd DEF decodeVariable
  <2>2. EndsWell(area)
    BY <1>1, <1>3 DEF FInv, FoundIsLaid
  <2>3. IsWholeVariable(area)
    BY <1>1, <1>3, <2>2 DEF IsWholeVariable, HasHeader, SerialNumber, frame, CI, IsLong
  <2>4. FrameOf = variableFrame(frame, RecordsOf(area))
    BY <1>1 DEF FrameOf
  <2>5. FrameOf' = FrameOf
    BY <1>1 DEF FrameOf, CI, frame
  <2> QED
    BY <1>1, <2>1, <2>3, <2>4, <2>5 DEF LInv
<1> QED
  BY <1>2, <1>3

LEMMA NextLInv ==
    TInv /\ FInv /\ RInv /\ LInv /\ [TelegramNext]_telegramVars => LInv'
<1> SUFFICES ASSUME TInv, FInv, RInv, LInv, [TelegramNext]_telegramVars
             PROVE  LInv'
  OBVIOUS
<1>1. InParallel /\ OwnBytes /\ area \in Areas
  BY DEF TInv, IInv, RInv
<1>2. CASE TooShort \/ UnsupportedCI
  <2>1. stage' = "over" /\ result'.err # "none"
    BY <1>2 DEF TooShort, UnsupportedCI, Return, Refused
  <2> QED
    BY <2>1 DEF LInv, IsDecoded
<1>3. CASE DecodeFixed
  BY <1>1, <1>3, FixedIsReturned
<1>4. CASE DecodeVariable
  BY <1>4 DEF DecodeVariable, LInv, IsDecoded, IsOver
<1>5. CASE Walk
  BY <1>5 DEF Walk, LInv, IsDecoded, IsOver
<1>6. CASE Finish
  BY <1>1, <1>6, VariableIsReturned
<1>7. CASE UNCHANGED telegramVars
  <2>1. area' = area /\ result' = result /\ stage' = stage
    BY <1>7 DEF telegramVars, vars
  <2>2. FrameOf' = FrameOf
    BY <2>1 DEF FrameOf, CI, frame
  <2> QED
    BY <2>1, <2>2 DEF LInv, IsDecoded, IsOver
<1> QED
  BY <1>2, <1>3, <1>4, <1>5, <1>6, <1>7 DEF TelegramNext

-----------------------------------------------------------------------------
(* The errors of values                                                    *)

\* Why there is no value.
ValueErrs == {"none", "bcd", "date", "unsupported"}

LEMMA RawErrs ==
    /\ NoValue.err = "none"
    /\ \A x : Raw(x).err = "none"
    /\ \A numbers, sign : RawBCD(numbers, sign).err \in {"none", "bcd"}
    /\ \A b, unit : RawInteger(b, unit).err = "none"
<1>1. NoValue = [raw |-> Zero, text |-> <<>>, err |-> "none", time |-> NoTime, summer |-> FALSE]
  BY DEF NoValue
<1>2. \A x : Raw(x).err = "none"
  BY <1>1 DEF Raw
<1>3. \A numbers, sign : RawBCD(numbers, sign).err \in {"none", "bcd"}
  BY <1>1, <1>2 DEF RawBCD
<1> QED
  BY <1>1, <1>2, <1>3 DEF RawInteger

LEMMA DateErrs ==
    ASSUME NEW b, NEW unit
    PROVE  RawDate(b, unit).err \in ValueErrs
<1>1. \A times, summer : Dated(times, summer).err \in {"none", "date"}
  BY DEF Dated
<1>2. Unsupported.err = "unsupported"
  BY DEF Unsupported
<1>3. \A date : decodeRecordTime(b, date).err \in ValueErrs
  <2>1. \A c : decodeTypeG(c).err \in {"none", "date"}
    BY <1>1, ZenonT(40) DEF decodeTypeG
  <2>2. \A c : decodeTypeF(c).err \in {"none", "date"}
    BY <1>1, ZenonT(40) DEF decodeTypeF
  <2>3. \A c : decodeTypeI(c).err \in {"none", "date"}
    BY <1>1, ZenonT(40) DEF decodeTypeI
  <2> QED
    BY <1>2, <2>1, <2>2, <2>3 DEF decodeRecordTime, ValueErrs
<1>4. RawDate(b, unit).err = decodeRecordTime(b, unit.date).err
  BY DEF RawDate, RawInteger, Raw, NoValue
<1> QED
  BY <1>3, <1>4

LEMMA RecordErrs ==
    ASSUME NEW f, NEW b, NEW unit
    PROVE  RecordValue(f, b, unit).err \in ValueErrs
<1>1. LVARValue(b, unit).err \in {"none", "bcd"}
  <2>1. \A t : [NoValue EXCEPT !.text = t].err = "none"
    BY DEF NoValue
  <2>2. CASE b[1] \in ASCII
    <3>0. b[1] \notin LVARBCD /\ b[1] # \hF4
      BY <2>2 DEF ASCII, LVARBCD
    <3>1. LVARValue(b, unit) = [NoValue EXCEPT !.text = ASCIIText(Tail(b))]
      BY <2>2, <3>0 DEF LVARValue
    <3> QED
      BY <2>1, <3>1
  <2>3. CASE b[1] \notin ASCII
    BY <2>3, RawErrs DEF LVARValue
  <2> QED
    BY <2>2, <2>3
<1>2. NoValue.err \in ValueErrs
  BY RawErrs DEF ValueErrs
<1> QED
  BY <1>1, <1>2, RawErrs, DateErrs DEF RecordValue, ValueErrs

LEMMA DecodedErrs ==
    ASSUME NEW f, NEW s, NEW t, NEW d, NEW u, NEW v
    PROVE  DecodedDataRecord(f, s, t, d, u, v).err = v.err
  BY DEF DecodedDataRecord

\* No record has the error of a record that is not there.
LEMMA ReturnedErrs ==
    ASSUME area \in Areas, LInv, IsDecoded, NEW k \in 1..Len(result.records)
    PROVE  result.records[k].err # "no record"
<1>1. CASE CI = ciVariableDataMode1
  <2>1. result.records = RecordsOf(area)
    BY <1>1 DEF LInv, FrameOf, variableFrame, DecodedFrame
  <2>2. \A r : ReadingAt(area.data, r).err \in ValueErrs
    BY RecordErrs, DecodedErrs DEF ReadingAt, ReadingOf
  <2>3. \A dif : SpecialReading(dif).err = "none"
    <3>1. TAKE dif
    <3>2. SpecialReading(dif).err
            = DecodedDataRecord(decodeRecordFunction(dif), 0, 0, 0, NoUnit, NoValue).err
      BY DEF SpecialReading, DecodedDataRecord
    <3> QED
      BY <3>2, RawErrs, DecodedErrs
  <2>4. /\ \A j \in 1..Len(area.layout) :
                RecordsOf(area)[j] = ReadingAt(area.data, area.layout[j])
        /\ SpecialAt(area) => RecordsOf(area)[Len(area.layout) + 1]
                                 = SpecialReading(area.data[area.stop + 1])
    BY RecordsOfFacts
  <2>5. \/ k \in 1..Len(area.layout)
        \/ k = Len(area.layout) + 1 /\ SpecialAt(area)
    <3> DEFINE n == Len(area.layout)
    <3>1. n \in Nat /\ Len(RecordsOf(area)) = n + (IF SpecialAt(area) THEN 1 ELSE 0)
      BY LayoutFacts, RecordsOfFacts
    <3>2. k \in 1..Len(RecordsOf(area))
      BY <2>1
    <3> HIDE DEF n
    <3>3. k \in 1..n \/ (k = n + 1 /\ SpecialAt(area))
      BY <3>1, <3>2
    <3> QED
      BY <3>3 DEF n
  <2> QED
    BY <2>1, <2>2, <2>3, <2>4, <2>5 DEF ValueErrs
<1>2. CASE CI # ciVariableDataMode1
  <2>1. result.records = fixedRecords(frame)
    BY <1>2 DEF LInv, FrameOf, fixedFrame, DecodedFrame
  <2>2. \A b, own, other, status, storage :
            fixedRecord(b, own, other, status, storage).err \in {"none", "bcd"}
    BY RawErrs, DecodedErrs DEF fixedRecord
  <2>3. Len(fixedRecords(frame)) = 2
    BY DEF fixedRecords
  <2>4. k = 1 \/ k = 2
    BY <2>1, <2>3
  <2> QED
    <3>1. \A j \in {1, 2} : fixedRecords(frame)[j].err \in {"none", "bcd"}
      <4>1. /\ fixedRecords(frame)[1]
                = fixedRecord(SubSeq(frame, 16, 19), frame[14], frame[15], frame[13], 0)
            /\ fixedRecords(frame)[2]
                = fixedRecord(SubSeq(frame, 20, 23), frame[15], frame[14], frame[13], 1)
        BY DEF fixedRecords
      <4> QED
        BY <2>2, <4>1
    <3> QED
      BY <2>1, <2>4, <3>1
<1> QED
  BY <1>1, <1>2

-----------------------------------------------------------------------------
(* What is looked up is what was sent                                      *)

\* Places that match in two sequences alike: either none is found in both, or
\* what stands at the same place.
LEMMA FoundAlike ==
    ASSUME NEW xs, NEW ys, NEW places \in SUBSET Nat
    PROVE  \/ Find(xs, places) = {} /\ Find(ys, places) = {}
           \/ \E k \in places : Find(xs, places) = {xs[k]} /\ Find(ys, places) = {ys[k]}
<1> DEFINE first == {k \in places : \A j \in places : k <= j}
<1>1. Find(xs, places) = {xs[k] : k \in first} /\ Find(ys, places) = {ys[k] : k \in first}
  BY DEF Find
<1>2. \A k, j \in first : k = j
  <2>1. TAKE k, j \in first
  <2>2. k \in Nat /\ j \in Nat /\ k <= j /\ j <= k
    OBVIOUS
  <2> QED
    BY <2>2
<1>3. first \subseteq places
  OBVIOUS
<1> HIDE DEF first
<1>4. CASE first = {}
  BY <1>1, <1>4
<1>5. CASE first # {}
  <2>1. PICK k \in first : TRUE
    BY <1>5
  <2>2. first = {k}
    BY <1>2, <2>1
  <2> QED
    BY <1>1, <1>3, <2>1, <2>2
<1> QED
  BY <1>4, <1>5

\* All that was sent has been read, and is as meant.
Heard ==
    /\ Len(result.records) = Len(area.meant) /\ Len(area.meant) \in Nat
    /\ \A k \in 1..Len(area.meant) :
        IsMeant(result.records[k], area.meant[k]) /\ result.records[k].err # "no record"

LEMMA SameRegisters ==
    ASSUME Heard, NEW type, NEW function
    PROVE  {k \in 1..Len(result.records) : MatchRegister(result.records[k], type, function)}
           = {k \in 1..Len(area.meant) : IsOfRegister(area.meant[k], type, function)}
<1>1. ASSUME NEW r, NEW m, IsMeant(r, m)
      PROVE  MatchRegister(r, type, function) <=> IsOfRegister(m, type, function)
  <2>1. /\ r.function = m.function /\ r.unit.type = m.type
        /\ r.storage = m.storage /\ r.tariff = m.tariff /\ r.device = m.device
    BY <1>1 DEF IsMeant
  <2>2. IsCurrent(m) <=> m.storage = 0 /\ m.tariff = 0 /\ m.device = 0
    BY DEF IsCurrent
  <2> QED
    BY <2>1, <2>2 DEF MatchRegister, MatchCurrent, IsOfRegister
<1> QED
  BY <1>1 DEF Heard

LEMMA SameTimes ==
    ASSUME Heard, \A k \in 1..Len(area.meant) : ~area.meant[k].undated
    PROVE  {k \in 1..Len(result.records) : MatchTime(result.records[k])
                                           /\ MatchCurrent(result.records[k])}
           = {k \in 1..Len(area.meant) : IsTime(area.meant[k]) /\ IsCurrent(area.meant[k])}
<1>1. ASSUME NEW r, NEW m, IsMeant(r, m), ~m.undated
      PROVE  MatchTime(r) /\ MatchCurrent(r) <=> IsTime(m) /\ IsCurrent(m)
  <2>1. /\ MatchTime(r) <=> IsTime(m)
        /\ r.storage = m.storage /\ r.tariff = m.tariff /\ r.device = m.device
    BY <1>1 DEF IsMeant
  <2>2. IsCurrent(m) <=> m.storage = 0 /\ m.tariff = 0 /\ m.device = 0
    BY DEF IsCurrent
  <2> QED
    BY <2>1, <2>2 DEF MatchCurrent
<1> QED
  BY <1>1 DEF Heard

\* A record is shown as what it has.
LEMMA ShownAs ==
    ASSUME NEW r
    PROVE  /\ recordValue(r).as \in {"error", "time", "text", "number"}
           /\ recordValue(r).as = "error" => r.err # "none"
           /\ recordValue(r).as = "time" => recordValue(r).time = r.time
           /\ recordValue(r).as = "number" => r.err = "none" /\ recordValue(r).number = r.value
  BY DEF recordValue

LEMMA ValueOfSent ==
    ASSUME NEW r, NEW m, NEW got, IsMeant(r, m), r.err # "no record",
           got = IF r.err # "none" THEN [err |-> r.err, number |-> Zero]
                 ELSE [err |-> "none", number |-> r.value]
    PROVE  \/ m.reads.as \in {"nothing", "text", "time"}
           \/ m.reads.as = "error" /\ got.err \notin {"none", "no record"}
           \/ m.reads.as = "number" /\ got.err = "none" /\ SameNumber(got.number, m.reads.number)
<1>1. ReadsAs(recordValue(r), m.reads)
  BY DEF IsMeant
<1>2. CASE recordValue(r).as = "number"
  <2>1. r.err = "none" /\ recordValue(r).number = r.value
    BY <1>2, ShownAs
  <2>2. got.err = "none" /\ got.number = r.value
    BY <2>1
  <2>3. \/ m.reads.as = "nothing"
        \/ m.reads.as = "number" /\ SameNumber(recordValue(r).number, m.reads.number)
    BY <1>1, <1>2 DEF ReadsAs
  <2> QED
    BY <2>1, <2>2, <2>3
<1>3. CASE recordValue(r).as # "number"
  <2>1. m.reads.as = "nothing" \/ m.reads.as = recordValue(r).as
    BY <1>1, <1>3 DEF ReadsAs
  <2>2. recordValue(r).as = "error" => got.err \notin {"none", "no record"}
    BY ShownAs
  <2> QED
    BY <1>3, <2>1, <2>2, ShownAs
<1> QED
  BY <1>2, <1>3

LEMMA ValuesAreHeard ==
    ASSUME Heard, NEW type, NEW function
    PROVE  LET sent == Find(area.meant, {k \in 1..Len(area.meant) :
                                            IsOfRegister(area.meant[k], type, function)})
               got  == Value(type, function)
           IN  \/ sent = {} /\ got.err = "no record"
               \/ \E x \in sent : x.reads.as \in {"nothing", "text", "time"}
               \/ \E x \in sent : x.reads.as = "error" /\ got.err \notin {"none", "no record"}
               \/ \E x \in sent : /\ x.reads.as = "number" /\ got.err = "none"
                                  /\ SameNumber(got.number, x.reads.number)
<1> DEFINE places == {k \in 1..Len(area.meant) : IsOfRegister(area.meant[k], type, function)}
           sent   == Find(area.meant, places)
           found  == Record(type, function)
           got    == Value(type, function)
<1> SUFFICES \/ sent = {} /\ got.err = "no record"
             \/ \E x \in sent : x.reads.as \in {"nothing", "text", "time"}
             \/ \E x \in sent : x.reads.as = "error" /\ got.err \notin {"none", "no record"}
             \/ \E x \in sent : /\ x.reads.as = "number" /\ got.err = "none"
                                /\ SameNumber(got.number, x.reads.number)
  OBVIOUS
<1>0. Len(area.meant) \in Nat
  BY DEF Heard
<1>1. found = Find(result.records, places)
  BY SameRegisters DEF Record
<1>2. places \subseteq 1..Len(area.meant) /\ places \in SUBSET Nat
  BY <1>0
<1> HIDE DEF places
<1>3. CASE found = {} /\ sent = {}
  <2>1. got = [err |-> "no record", number |-> Zero]
    BY <1>3 DEF Value
  <2> HIDE DEF got
  <2>2. got.err = "no record"
    BY <2>1
  <2> QED
    BY <1>3, <2>2
<1>4. CASE \E k \in places : found = {result.records[k]} /\ sent = {area.meant[k]}
  <2>1. PICK k \in places : found = {result.records[k]} /\ sent = {area.meant[k]}
    BY <1>4
  <2> DEFINE r == result.records[k]
             m == area.meant[k]
  <2>2. IsMeant(r, m) /\ r.err # "no record"
    BY <1>2, <2>1 DEF Heard
  <2>3. (CHOOSE x \in found : TRUE) = r
    BY <2>1
  <2>4. got = IF r.err # "none" THEN [err |-> r.err, number |-> Zero]
              ELSE [err |-> "none", number |-> r.value]
    BY <2>1, <2>3 DEF Value
  <2>5. m \in sent
    BY <2>1
  <2> HIDE DEF r, m, got, sent
  <2>6. \/ m.reads.as \in {"nothing", "text", "time"}
        \/ m.reads.as = "error" /\ got.err \notin {"none", "no record"}
        \/ m.reads.as = "number" /\ got.err = "none" /\ SameNumber(got.number, m.reads.number)
    BY <2>2, <2>4, ValueOfSent
  <2> QED
    BY <2>5, <2>6
<1>5. \/ found = {} /\ sent = {}
      \/ \E k \in places : found = {result.records[k]} /\ sent = {area.meant[k]}
  BY <1>1, <1>2, FoundAlike
<1> QED
  BY <1>3, <1>4, <1>5

LEMMA TimesAreHeard ==
    ASSUME Heard, \A k \in 1..Len(area.meant) : ~area.meant[k].undated
    PROVE  Timestamp = {x.reads.time : x \in Find(area.meant,
               {k \in 1..Len(area.meant) : IsTime(area.meant[k]) /\ IsCurrent(area.meant[k])})}
<1> DEFINE places == {k \in 1..Len(area.meant) :
                          IsTime(area.meant[k]) /\ IsCurrent(area.meant[k])}
           sent   == Find(area.meant, places)
           found  == Find(result.records, places)
<1> SUFFICES Timestamp = {x.reads.time : x \in sent}
  OBVIOUS
<1>0. Len(area.meant) \in Nat
  BY DEF Heard
<1>1. Timestamp = {r.time : r \in found}
  BY SameTimes DEF Timestamp
<1>2. /\ places \in SUBSET Nat
      /\ \A k \in places : k \in 1..Len(area.meant) /\ IsTime(area.meant[k])
  BY <1>0
<1> HIDE DEF places
<1>3. CASE found = {} /\ sent = {}
  BY <1>1, <1>3
<1>4. CASE \E k \in places : found = {result.records[k]} /\ sent = {area.meant[k]}
  <2>1. PICK k \in places : found = {result.records[k]} /\ sent = {area.meant[k]}
    BY <1>4
  <2>2. IsMeant(result.records[k], area.meant[k]) /\ IsTime(area.meant[k])
    BY <1>2, <2>1 DEF Heard
  <2>3. result.records[k].time = area.meant[k].reads.time
    <3>1. \A r, m : IsMeant(r, m) /\ IsTime(m) => recordValue(r) = m.reads
      BY DEF IsMeant, IsTime, ReadsAs
    <3>2. recordValue(result.records[k]) = area.meant[k].reads
      BY <2>2, <3>1
    <3> QED
      BY <2>2, <3>2, ShownAs DEF IsTime
  <2>4. /\ {r.time : r \in found} = {result.records[k].time}
        /\ {x.reads.time : x \in sent} = {area.meant[k].reads.time}
    BY <2>1
  <2> QED
    BY <1>1, <2>3, <2>4
<1>5. \/ found = {} /\ sent = {}
      \/ \E k \in places : found = {result.records[k]} /\ sent = {area.meant[k]}
  BY <1>2, FoundAlike
<1> QED
  BY <1>3, <1>4, <1>5

-----------------------------------------------------------------------------
(* What a caller asks for is what was sent                                 *)

LEMMA AllIsHeard ==
    ASSUME TInv, LInv, MInv, WholeOrRefused, IsDecoded
    PROVE  Heard
<1>1. area \in Areas
  BY DEF TInv, IInv
<1>2. area.whole
  BY DEF WholeOrRefused, IsDecoded
<1>3. Len(result.records) = Len(area.meant)
  BY <1>2 DEF WholeOrRefused, IsDecoded
<1>4. \A k \in 1..Len(result.records) : IsMeant(result.records[k], area.meant[k])
  BY DEF MInv, AllMeant
<1>5. \A k \in 1..Len(result.records) : result.records[k].err # "no record"
  BY <1>1, ReturnedErrs
<1> QED
  BY <1>1, <1>3, <1>4, <1>5, SenderFacts DEF Heard

LEMMA HeaderIsHeard ==
    ASSUME HeadersReadAsMeant, area \in Areas, LInv, IsDecoded, NEW name \in DOMAIN area.sent
    PROVE  result[name] = area.sent[name]
<1>1. CASE IsWholeVariable(area)
  <2>1. result = variableFrame(area.frame, RecordsOf(area))
    BY <1>1 DEF LInv, FrameOf, IsWholeVariable, CI, frame
  <2> QED
    BY <1>1, <2>1 DEF HeadersReadAsMeant
<1>2. CASE IsWholeFixed(area)
  <2>1. result = fixedFrame(area.frame)
    BY <1>2 DEF LInv, FrameOf, IsWholeFixed, CI, frame, ciVariableDataMode1, ciFixedDataMode1
  <2> QED
    BY <1>2, <2>1 DEF HeadersReadAsMeant
<1> QED
  BY <1>1, <1>2 DEF LInv

DecodeInv == TInv /\ FInv /\ RInv /\ MInv /\ LInv /\ WholeOrRefused

LEMMA InvHolds ==
    ASSUME RecordsReadAsMeant
    PROVE  TelegramSpec => []DecodeInv
<1>1. TelegramInit => DecodeInv
  <2>1. TelegramInit => MInv /\ LInv /\ WholeOrRefused
    BY DEF TelegramInit, MInv, LInv, WholeOrRefused, IsDecoded, IsOver
  <2> QED
    BY <2>1, InitTInv, InitFInv, InitRInv, TelegramInitWalks DEF DecodeInv
<1>2. DecodeInv /\ [TelegramNext]_telegramVars => DecodeInv'
  BY NextTInv, NextFInv, TelegramStepWalks, NextRInv, NextMInv, NextLInv, NextWhole DEF DecodeInv, TInv
<1> QED
  BY <1>1, <1>2, PTL DEF TelegramSpec

\* If header and records by themselves read as the sender means them, then the
\* caller who asks for a register's current value, of whichever telegram, gets
\* the number sent for that register and no other, an error for what is no value,
\* and is told if none was sent (DecodedFrame.Value, Record, Find).
THEOREM NoValueIsMistaken ==
    ASSUME RecordsReadAsMeant, HeadersReadAsMeant
    PROVE  TelegramSpec => []ValueIsSent
<1>1. DecodeInv => ValueIsSent
  <2> SUFFICES ASSUME DecodeInv, IsDecoded PROVE ValueIsSent
    BY DEF ValueIsSent
  <2>1. Heard /\ area \in Areas /\ LInv
    BY AllIsHeard DEF DecodeInv, TInv, IInv
  <2>2. \A name \in DOMAIN area.sent : result[name] = area.sent[name]
    BY <2>1, HeaderIsHeard
  <2> QED
    BY <2>1, <2>2, ValuesAreHeard DEF ValueIsSent
<1> QED
  BY <1>1, InvHolds, PTL

\* If the records by themselves read as the sender means them, then the caller
\* who asks for the meter's clock gets the first current date that was sent, and
\* nothing if none was (DecodedFrame.Timestamp, MatchTimestamp).
THEOREM NoTimeIsMistaken ==
    ASSUME RecordsReadAsMeant
    PROVE  TelegramSpec => []TimestampIsSent
<1>1. DecodeInv => TimestampIsSent
  BY AllIsHeard, TimesAreHeard DEF DecodeInv, TimestampIsSent
<1> QED
  BY <1>1, InvHolds, PTL

-----------------------------------------------------------------------------
(* Wireless telegrams: no slice is taken past the end                      *)

\* The transport header so far.
HeaderIsRead ==
    /\ tr = [ci |-> tr.ci, access |-> tr.access, status |-> tr.status, mode |-> tr.mode,
             encryptedBytes |-> tr.encryptedBytes, address |-> tr.address,
             counter |-> tr.counter, data |-> tr.data]
    /\ turn \notin {"application", "done", "failed"} => tr.data \in Seq(Byte)
    /\ turn \notin {"decrypt", "application", "done", "failed"} => tr.encryptedBytes = 0
    /\ turn \in {"layers", "decrypt", "application"} =>
        tr.address \in Seq(Byte) /\ Len(tr.address) = 8

SliceInv ==
    /\ case \in Cases
    /\ SlicesFit
    /\ HeaderIsRead
    /\ payload \in Seq(Byte)
    /\ turn \in {"A", "B", "stripped", "blocks"} => format = "none"
    /\ turn \in {"layers", "decrypt", "application", "done"} => format # "none"
    /\ turn = "A" => payload = <<>>
    /\ turn = "blocks" => Len(raw) >= 12 /\ L >= 9 /\ Len(payload) <= L - 9

\* A slice of what is there has the length it says.
LEMMA SliceFits ==
    ASSUME NEW S, NEW s \in Seq(S), NEW from \in Nat, NEW to \in Nat, from <= to, to <= Len(s)
    PROVE  Slice(s, from, to) \in Seq(S) /\ Len(Slice(s, from, to)) = to - from
<1>1. \A k \in (from + 1)..to : s[k] \in S
  OBVIOUS
<1> QED
  BY <1>1, SubSeqProperties DEF Slice

LEMMA ConcatFits ==
    ASSUME NEW S, NEW s \in Seq(S), NEW t \in Seq(S)
    PROVE  s \o t \in Seq(S) /\ Len(s \o t) = Len(s) + Len(t)
OBVIOUS

\* The sequences of n bytes.
Sized(n) == {s \in Seq(Byte) : Len(s) = n}

LEMMA SizedConcat ==
    ASSUME NEW m \in Nat, NEW n \in Nat, NEW s \in Sized(m), NEW t \in Sized(n)
    PROVE  s \o t \in Sized(m + n)
BY ConcatFits DEF Sized

\* An address in the order of the link layer, of its three parts.
LEMMA EightBytes ==
    ASSUME NEW a \in Sized(2), NEW b \in Sized(4), NEW c \in Sized(2)
    PROVE  a \o b \o c \in Sized(8)
<1>1. a \o b \in Sized(2 + 4)
  BY SizedConcat
<1>2. (a \o b) \o c \in Sized((2 + 4) + 2)
  BY <1>1, SizedConcat
<1>3. (2 + 4) + 2 = 8
  OBVIOUS
<1> QED
  BY <1>2, <1>3

LEMMA InitSlices == BytesComeIn /\ WirelessInit => SliceInv
  BY DEF BytesComeIn, WirelessInit, SliceInv, SlicesFit, HeaderIsRead, ModeNone, raw

LEMMA RawIsBytes ==
    ASSUME SliceInv, BytesComeIn
    PROVE  /\ raw \in Seq(Byte) /\ payload \in Seq(Byte)
           /\ Len(raw) \in Nat /\ Len(payload) \in Nat
           /\ Len(raw) >= 1 => L \in Nat
<1>1. raw \in Seq(Byte) /\ payload \in Seq(Byte)
  BY DEF SliceInv, BytesComeIn, raw
<1>2. Len(raw) >= 1 => L \in Byte
  BY <1>1 DEF L
<1>3. \A b \in Byte : b \in Nat
  BY DEF Byte
<1> QED
  BY <1>1, <1>2, <1>3

LEMMA RefuseSlices == ASSUME SliceInv, NEW e, Refuse(e) PROVE SliceInv'
  BY DEF Refuse, SliceInv, SlicesFit, HeaderIsRead, raw, L

LEMMA RefuseASlices == ASSUME SliceInv, NEW e, RefuseA(e), turn \in {"A", "blocks"} PROVE SliceInv'
<1>1. CASE case.parse = "any"
  BY <1>1 DEF RefuseA, SliceInv, SlicesFit, HeaderIsRead, raw, L
<1>2. CASE case.parse # "any"
  BY <1>2, RefuseSlices DEF RefuseA
<1> QED
  BY <1>1, <1>2

\* A frame that a parser returns begins the walk over the layers.
LEMMA FrameSlices ==
    ASSUME SliceInv, BytesComeIn, NEW p \in Seq(Byte), NEW f \in {"A", "B", "stripped"},
           Frame(f, p), Len(raw) >= 10,
           turn \in {"A", "blocks", "B", "stripped"}
    PROVE  SliceInv'
<1>1. raw \in Seq(Byte)
  BY DEF BytesComeIn, SliceInv, raw
<1>2. /\ Slice(raw, 2, 10) \in Seq(Byte)
      /\ Len(Slice(raw, 2, 10)) = 8
  <2>1. Len(raw) \in Nat /\ 10 <= Len(raw)
    BY <1>1
  <2> QED
    BY <1>1, <2>1, SliceFits DEF Slice
<1>3. tr' = [tr EXCEPT !.address = Slice(raw, 2, 10)]
  BY DEF Frame
<1>4. /\ tr'.data = tr.data /\ tr'.encryptedBytes = tr.encryptedBytes
      /\ tr'.counter = tr.counter /\ tr'.address = Slice(raw, 2, 10)
      /\ tr' = [ci |-> tr'.ci, access |-> tr'.access, status |-> tr'.status, mode |-> tr'.mode,
             encryptedBytes |-> tr'.encryptedBytes, address |-> tr'.address,
             counter |-> tr'.counter, data |-> tr'.data]
  BY <1>3 DEF SliceInv, HeaderIsRead
<1>5. UNCHANGED case /\ turn' = "layers" /\ format' = f /\ payload' = p /\ pos' = 0
  BY DEF Frame
<1>6. /\ tr'.data \in Seq(Byte) /\ tr'.encryptedBytes \in 0..Len(tr'.data)
      /\ tr'.encryptedBytes = 0
  BY <1>4 DEF SliceInv, SlicesFit, HeaderIsRead
<1> QED
  BY <1>2, <1>4, <1>5, <1>6 DEF SliceInv, SlicesFit, HeaderIsRead, raw, L
LEMMA ParseASlices ==
    ASSUME SliceInv, BytesComeIn, ParseFormatA
    PROVE  SliceInv'
<1>1. CASE UNCHANGED <<case, errors, format, payload, tr>> /\ turn' = "blocks"
  <2>1. Len(raw) >= 12 /\ L >= 9 /\ pos' = 12 /\ turn = "A"
    BY <1>1 DEF ParseFormatA, RefuseA, Refuse, dllHeaderLen
  <2>2. payload = <<>> /\ format = "none" /\ L \in Nat
    BY <2>1, RawIsBytes DEF SliceInv
  <2>3. pos' \in 0..Len(raw) /\ Len(payload) <= L - 9
    BY <2>1, <2>2, RawIsBytes
  <2> QED
    BY <1>1, <2>1, <2>2, <2>3 DEF SliceInv, SlicesFit, HeaderIsRead, raw, L
<1> QED
  BY <1>1, RefuseASlices DEF ParseFormatA

LEMMA BlockSlices ==
    ASSUME SliceInv, BytesComeIn, StripFormatABlock
    PROVE  SliceInv'
<1> DEFINE remaining == L - 9 - Len(payload)
           n == IF remaining < 16 THEN remaining ELSE 16
<1>1. /\ raw \in Seq(Byte) /\ payload \in Seq(Byte) /\ L \in Nat /\ Len(raw) >= 12
      /\ Len(raw) \in Nat /\ Len(payload) \in Nat
      /\ turn = "blocks" /\ Len(payload) <= L - 9 /\ format = "none"
      /\ pos \in Nat /\ pos <= Len(raw)
  <2>1. /\ turn = "blocks" /\ Len(raw) >= 12 /\ Len(payload) <= L - 9 /\ format = "none"
        /\ pos \in 0..Len(raw)
    BY DEF SliceInv, SlicesFit, StripFormatABlock
  <2> QED
    BY <2>1, RawIsBytes
<1>2. /\ remaining \in Nat /\ n \in Nat /\ n <= remaining
  BY <1>1
<1>3. \/ Frame("A", payload)
      \/ RefuseA({"ErrInvalidFrame"})
      \/ RefuseA({"ErrCRC"})
      \/ /\ Len(raw) >= pos + n + 2
         /\ payload' = payload \o Slice(raw, pos, pos + n)
         /\ pos' = pos + n + 2
         /\ UNCHANGED <<case, turn, errors, format, tr>>
  BY DEF StripFormatABlock, dllHeaderLen, blockLen
<1>4. CASE Frame("A", payload)
  BY <1>1, <1>4, FrameSlices
<1>5. CASE RefuseA({"ErrInvalidFrame"}) \/ RefuseA({"ErrCRC"})
  BY <1>1, <1>5, RefuseASlices
<1>6. CASE /\ Len(raw) >= pos + n + 2
           /\ payload' = payload \o Slice(raw, pos, pos + n)
           /\ pos' = pos + n + 2
           /\ UNCHANGED <<case, turn, errors, format, tr>>
  <2> HIDE DEF remaining, n
  <2>1. Slice(raw, pos, pos + n) \in Seq(Byte) /\ Len(Slice(raw, pos, pos + n)) = n
    BY <1>1, <1>2, <1>6, SliceFits DEF Slice
  <2>2. payload' \in Seq(Byte) /\ Len(payload') = Len(payload) + n
    BY <1>1, <1>6, <2>1, ConcatFits
  <2>3. Len(payload') <= L - 9
    BY <1>1, <1>2, <2>2 DEF remaining
  <2>4. pos' \in 0..Len(raw)
    BY <1>1, <1>2, <1>6
  <2> QED
    BY <1>1, <1>6, <2>2, <2>3, <2>4 DEF SliceInv, SlicesFit, HeaderIsRead, raw, L
<1> QED
  BY <1>3, <1>4, <1>5, <1>6

LEMMA ParseBSlices ==
    ASSUME SliceInv, BytesComeIn, ParseFormatB
    PROVE  SliceInv'
<1> DEFINE total == L + 1
           p == IF total <= 128 THEN Slice(raw, 10, total - 2)
                ELSE Slice(raw, 10, 126) \o Slice(raw, 128, total - 2)
<1>1. \/ \E e : Refuse(e)
      \/ Frame("B", p) /\ Len(raw) >= 12 /\ FormatBFits(total)
  BY DEF ParseFormatB, dllHeaderLen, formatBFirstCRCEnd
<1>2. CASE \E e : Refuse(e)
  BY <1>2, RefuseSlices
<1>3. CASE Frame("B", p) /\ Len(raw) >= 12 /\ FormatBFits(total)
  <2>1. /\ raw \in Seq(Byte) /\ L \in Nat /\ Len(raw) \in Nat /\ Len(raw) >= 12
    BY <1>3, RawIsBytes
  <2>2. /\ total \in Nat /\ total >= 12 /\ total <= Len(raw)
        /\ total <= 128 \/ total >= 131
    BY <1>3, <2>1 DEF FormatBFits, dllHeaderLen, formatBFirstCRCEnd
  <2> HIDE DEF total
  <2>3. ASSUME total <= 128 PROVE Slice(raw, 10, total - 2) \in Seq(Byte)
    <3>1. total - 2 \in Nat /\ 10 <= total - 2 /\ total - 2 <= Len(raw)
      BY <2>1, <2>2, <2>3
    <3> QED
      BY <2>1, <3>1, SliceFits DEF Slice
  <2>4. ASSUME total > 128
        PROVE  Slice(raw, 10, 126) \o Slice(raw, 128, total - 2) \in Seq(Byte)
    <3>1. /\ total - 2 \in Nat /\ 128 <= total - 2 /\ total - 2 <= Len(raw)
          /\ 126 <= Len(raw)
      BY <2>1, <2>2, <2>4
    <3>2. Slice(raw, 10, 126) \in Seq(Byte)
      <4>1. \A k \in 11..126 : raw[k] \in Byte
        BY <2>1, <3>1
      <4> QED
        BY <4>1, SubSeqProperties DEF Slice
    <3>3. Slice(raw, 128, total - 2) \in Seq(Byte)
      BY <2>1, <3>1, SliceFits DEF Slice
    <3> QED
      BY <3>2, <3>3
  <2>5. p \in Seq(Byte)
    BY <2>2, <2>3, <2>4
  <2> HIDE DEF p
  <2> QED
    BY <1>3, <2>1, <2>5, FrameSlices DEF ParseFormatB
<1> HIDE DEF p, total
<1> QED
  BY <1>1, <1>2, <1>3

LEMMA ParseStrippedSlices ==
    ASSUME SliceInv, BytesComeIn, ParseWithoutCRC
    PROVE  SliceInv'
<1>1. \/ \E e : Refuse(e)
      \/ /\ Frame("stripped", Slice(raw, 10, L + 1))
         /\ Len(raw) >= 10 /\ L + 1 >= 10 /\ Len(raw) >= L + 1
  BY DEF ParseWithoutCRC, StrippedFits, dllHeaderLen
<1>2. CASE \E e : Refuse(e)
  BY <1>2, RefuseSlices
<1>3. CASE /\ Frame("stripped", Slice(raw, 10, L + 1))
           /\ Len(raw) >= 10 /\ L + 1 >= 10 /\ Len(raw) >= L + 1
  <2>1. raw \in Seq(Byte) /\ L \in Nat
    BY <1>3, RawIsBytes
  <2>2. Slice(raw, 10, L + 1) \in Seq(Byte)
    BY <1>3, <2>1, SliceFits DEF Slice
  <2> QED
    BY <1>3, <2>1, <2>2, FrameSlices DEF ParseWithoutCRC
<1> QED
  BY <1>1, <1>2, <1>3

\* In front of the layers that are left.
LEMMA LayersAreThere ==
    ASSUME SliceInv, turn = "layers"
    PROVE  /\ payload \in Seq(Byte) /\ format # "none"
           /\ pos \in Nat /\ Rest \in Nat /\ pos + Rest = Len(payload)
           /\ \A k \in Nat : k < Rest => At(k) \in Nat
<1>1. payload \in Seq(Byte) /\ format # "none" /\ pos \in 0..Len(payload)
  BY DEF SliceInv, SlicesFit
<1>2. Len(payload) \in Nat /\ pos \in Nat /\ Rest \in Nat /\ pos + Rest = Len(payload)
  BY <1>1 DEF Rest
<1>3. ASSUME NEW k \in Nat, k < Rest PROVE At(k) \in Nat
  <2>1. pos + k + 1 \in 1..Len(payload)
    BY <1>2, <1>3
  <2>2. At(k) \in Byte
    BY <1>1, <2>1 DEF At
  <2> QED
    BY <2>2 DEF Byte
<1> QED
  BY <1>1, <1>2, <1>3

LEMMA BytesFit ==
    ASSUME SliceInv, turn = "layers", NEW k \in Nat, NEW n \in Nat, k + n <= Rest
    PROVE  Bytes(k, n) \in Seq(Byte) /\ Len(Bytes(k, n)) = n
<1>1. /\ payload \in Seq(Byte) /\ pos \in Nat /\ Rest \in Nat /\ pos + Rest = Len(payload)
  BY LayersAreThere
<1> DEFINE from == pos + k
           to == pos + k + n
<1>2. from \in Nat /\ to \in Nat /\ from <= to /\ to <= Len(payload) /\ to - from = n
  BY <1>1
<1>3. Bytes(k, n) = SubSeq(payload, from + 1, to)
  BY DEF Bytes, Slice
<1> HIDE DEF from, to
<1>4. SubSeq(payload, from + 1, to) \in Seq(Byte) /\ Len(SubSeq(payload, from + 1, to)) = to - from
  BY <1>1, <1>2, SliceFits DEF Slice
<1> QED
  BY <1>2, <1>3, <1>4

LEMMA StepSlices ==
    ASSUME SliceInv, turn = "layers", NEW n \in Nat, n <= Rest, Step(n),
           \/ tr' = tr
           \/ \E c \in Seq(Byte) : Len(c) = 4 /\ tr' = [tr EXCEPT !.counter = c]
    PROVE  SliceInv'
<1>1. pos + n \in 0..Len(payload) /\ format # "none"
  BY LayersAreThere
<1>2. /\ tr'.data = tr.data /\ tr'.encryptedBytes = tr.encryptedBytes
      /\ tr'.address = tr.address /\ Len(tr'.counter) \in {0, 4}
      /\ tr' = [ci |-> tr'.ci, access |-> tr'.access, status |-> tr'.status, mode |-> tr'.mode,
             encryptedBytes |-> tr'.encryptedBytes, address |-> tr'.address,
             counter |-> tr'.counter, data |-> tr'.data]
  BY DEF SliceInv, SlicesFit, HeaderIsRead
<1> QED
  BY <1>1, <1>2 DEF SliceInv, SlicesFit, HeaderIsRead, Step, raw, L

LEMMA ExtendedLinkSlices ==
    ASSUME SliceInv, ExtendedLink
    PROVE  SliceInv'
  BY StepSlices, RefuseSlices DEF ExtendedLink

\* The counter lies within the fields.
LEMMA CounterFits ==
    ASSUME NEW control \in Nat
    PROVE  /\ BeforeCounter(control) \in Nat /\ FieldsLen(control) \in Nat
           /\ HasMessageCounter(control) => FieldsLen(control) = BeforeCounter(control) + 4
<1>1. BeforeCounter(control) \in Nat
  BY DEF BeforeCounter
<1> QED
  BY <1>1 DEF FieldsLen

LEMMA AuthLayerSlices ==
    ASSUME SliceInv, AuthLayer
    PROVE  SliceInv'
<1>1. turn = "layers" /\ Rest >= 1 /\ (Refuse({"ErrInvalidFrame"}) \/ AuthLayerFits)
  BY DEF AuthLayer
<1>2. CASE Refuse({"ErrInvalidFrame"})
  BY <1>2, RefuseSlices
<1>3. CASE AuthLayerFits /\ ~Refuse({"ErrInvalidFrame"})
  <2>1. /\ Rest \in Nat /\ Rest >= 2 /\ At(1) \in Nat /\ At(1) >= 2 /\ Rest >= 2 + At(1)
        /\ At(1) >= FieldsLen(At(3))
    BY <1>1, <1>3, LayersAreThere DEF AuthLayerFits
  <2>2. At(3) \in Nat
    BY <1>1, <2>1, LayersAreThere
  <2> DEFINE counter == Bytes(2 + BeforeCounter(At(3)), 4)
  <2>3. Step(2 + At(1)) /\ tr' = IF HasMessageCounter(At(3))
                                 THEN [tr EXCEPT !.counter = counter] ELSE tr
    BY <1>3 DEF AuthLayer
  <2>4. ASSUME HasMessageCounter(At(3)) PROVE counter \in Seq(Byte) /\ Len(counter) = 4
    <3>1. /\ BeforeCounter(At(3)) \in Nat /\ FieldsLen(At(3)) \in Nat
          /\ FieldsLen(At(3)) = BeforeCounter(At(3)) + 4
      BY <2>2, <2>4, CounterFits
    <3>2. 2 + BeforeCounter(At(3)) \in Nat /\ (2 + BeforeCounter(At(3))) + 4 <= Rest
      BY <2>1, <3>1
    <3> QED
      BY <1>1, <3>2, BytesFit
  <2> HIDE DEF counter
  <2>5. 2 + At(1) \in Nat /\ 2 + At(1) <= Rest
    BY <2>1
  <2> QED
    BY <1>1, <2>3, <2>4, <2>5, StepSlices
<1> QED
  BY <1>1, <1>2, <1>3

\* The header ends the walk over the layers, its data behind it.
LEMMA HeaderSlices ==
    ASSUME SliceInv, turn = "layers", turn' = "decrypt",
           UNCHANGED <<case, errors, format, payload, pos>>,
           tr'.data \in Seq(Byte), tr'.encryptedBytes \in 0..Len(tr'.data),
           tr'.address \in Seq(Byte), Len(tr'.address) = 8, tr'.counter = tr.counter,
           tr' = [ci |-> tr'.ci, access |-> tr'.access, status |-> tr'.status, mode |-> tr'.mode,
             encryptedBytes |-> tr'.encryptedBytes, address |-> tr'.address,
             counter |-> tr'.counter, data |-> tr'.data]
    PROVE  SliceInv'
  BY DEF SliceInv, SlicesFit, HeaderIsRead, raw, L

LEMMA NoHeaderSlices ==
    ASSUME SliceInv, NoHeader
    PROVE  SliceInv'
<1>1. /\ turn = "layers" /\ turn' = "decrypt" /\ Rest >= 1
      /\ UNCHANGED <<case, errors, format, payload, pos>>
      /\ tr' = [tr EXCEPT !.ci = At(0), !.data = Bytes(1, Rest - 1)]
  BY DEF NoHeader
<1>2. Rest \in Nat
  BY <1>1, LayersAreThere
<1>3. Bytes(1, Rest - 1) \in Seq(Byte) /\ Len(Bytes(1, Rest - 1)) = Rest - 1
  <2>1. Rest - 1 \in Nat /\ 1 + (Rest - 1) <= Rest
    BY <1>1, <1>2
  <2> QED
    BY <1>1, <2>1, BytesFit
<1>4. /\ tr'.data = Bytes(1, Rest - 1) /\ tr'.encryptedBytes = 0
      /\ tr'.address = tr.address /\ tr'.counter = tr.counter
      /\ tr' = [ci |-> tr'.ci, access |-> tr'.access, status |-> tr'.status, mode |-> tr'.mode,
             encryptedBytes |-> tr'.encryptedBytes, address |-> tr'.address,
             counter |-> tr'.counter, data |-> tr'.data]
  BY <1>1 DEF SliceInv, HeaderIsRead
<1>5. tr'.address \in Seq(Byte) /\ Len(tr'.address) = 8
  BY <1>1, <1>4 DEF SliceInv, HeaderIsRead
<1>6. tr'.data \in Seq(Byte) /\ tr'.encryptedBytes \in 0..Len(tr'.data)
  BY <1>1, <1>2, <1>3, <1>4
<1> QED
  BY <1>1, <1>4, <1>5, <1>6, HeaderSlices

LEMMA HeaderAddressFits ==
    ASSUME SliceInv, turn = "layers", Rest >= 9
    PROVE  HeaderAddress \in Sized(8)
<1>1. Rest \in Nat
  BY LayersAreThere
<1>2. ASSUME NEW k \in Nat, NEW n \in Nat, k + n <= 9
      PROVE  Bytes(k, n) \in Sized(n)
  BY <1>1, <1>2, BytesFit DEF Sized
<1>3. Bytes(5, 2) \in Sized(2) /\ Bytes(1, 4) \in Sized(4) /\ Bytes(7, 2) \in Sized(2)
  BY <1>2
<1> QED
  BY <1>3, EightBytes DEF HeaderAddress

LEMMA HeaderIsSliced ==
    ASSUME SliceInv, Header
    PROVE  SliceInv'
<1> DEFINE s == IF At(0) = CILongHeader THEN 9 ELSE 1
           mode == At(s + 3) % 32
           encrypted == (At(s + 2) \div 16) * 16
           from == s + 4 + (IF mode = ModeAESCBCDerived THEN 1 ELSE 0)
<1>1. turn = "layers" /\ Rest >= 1
  BY DEF Header
<1>2. \/ \E e : Refuse(e)
      \/ /\ Rest >= s + 4 /\ Rest >= from + encrypted
         /\ tr' = [tr EXCEPT
                     !.ci = At(0), !.access = At(s), !.status = At(s + 1),
                     !.mode = mode, !.encryptedBytes = encrypted,
                     !.address = IF At(0) = CILongHeader THEN HeaderAddress ELSE @,
                     !.data = Bytes(from, Rest - from)]
         /\ turn' = "decrypt"
         /\ UNCHANGED <<case, errors, format, payload, pos>>
  BY DEF Header, longPrefix, shortHeaderLen, encryptionBlockLen
<1>3. CASE \E e : Refuse(e)
  BY <1>3, RefuseSlices
<1>4. ASSUME /\ Rest >= s + 4 /\ Rest >= from + encrypted
             /\ tr' = [tr EXCEPT
                         !.ci = At(0), !.access = At(s), !.status = At(s + 1),
                         !.mode = mode, !.encryptedBytes = encrypted,
                         !.address = IF At(0) = CILongHeader THEN HeaderAddress ELSE @,
                         !.data = Bytes(from, Rest - from)]
             /\ turn' = "decrypt"
             /\ UNCHANGED <<case, errors, format, payload, pos>>
      PROVE  SliceInv'
  <2>1. Rest \in Nat /\ s \in Nat /\ At(s + 2) \in Nat
    <3>1. Rest \in Nat /\ s \in Nat
      BY <1>1, LayersAreThere
    <3>2. s + 2 \in Nat /\ s + 2 < Rest
      BY <1>4, <3>1
    <3> HIDE DEF s
    <3>3. At(s + 2) \in Nat
      BY <1>1, <3>2, LayersAreThere
    <3> QED
      BY <3>1, <3>3
  <2>2. encrypted \in Nat /\ from \in Nat
    <3> HIDE DEF mode
    <3> QED
      BY <2>1
  <2>3. At(0) = CILongHeader => HeaderAddress \in Seq(Byte) /\ Len(HeaderAddress) = 8
    <3>1. At(0) = CILongHeader => HeaderAddress \in Sized(8)
      BY <1>1, <1>4, <2>1, HeaderAddressFits
    <3> QED
      BY <3>1 DEF Sized
  <2> HIDE DEF s, mode, encrypted, from
  <2>4. /\ tr'.encryptedBytes = encrypted /\ tr'.counter = tr.counter
        /\ tr'.address = IF At(0) = CILongHeader THEN HeaderAddress ELSE tr.address
        /\ tr'.data = Bytes(from, Rest - from)
        /\ tr' = [ci |-> tr'.ci, access |-> tr'.access, status |-> tr'.status, mode |-> tr'.mode,
               encryptedBytes |-> tr'.encryptedBytes, address |-> tr'.address,
               counter |-> tr'.counter, data |-> tr'.data]
    BY <1>4 DEF SliceInv, HeaderIsRead
  <2>5. Bytes(from, Rest - from) \in Seq(Byte) /\ Len(Bytes(from, Rest - from)) = Rest - from
    <3>1. Rest - from \in Nat /\ from + (Rest - from) <= Rest
      BY <1>4, <2>1, <2>2
    <3> QED
      BY <1>1, <2>2, <3>1, BytesFit
  <2>6. tr'.data \in Seq(Byte) /\ tr'.encryptedBytes \in 0..Len(tr'.data)
    BY <1>4, <2>1, <2>2, <2>4, <2>5
  <2>7. tr'.address \in Seq(Byte) /\ Len(tr'.address) = 8
    BY <1>1, <2>3, <2>4 DEF SliceInv, HeaderIsRead
  <2> QED
    BY <1>1, <1>4, <2>4, <2>6, <2>7, HeaderSlices
<1> QED
  BY <1>2, <1>3, <1>4

\* Opened or not, a cipher keeps its length.
LEMMA DecryptedFits ==
    ASSUME NEW S, NEW cipher \in Seq(S), NEW key, NEW init
    PROVE  \E T : /\ decryptCBC(key, init, cipher) \in Seq(T)
                  /\ Len(decryptCBC(key, init, cipher)) = Len(cipher)
<1> DEFINE plain == case.lock.plain
           T == {plain[k] : k \in 1..Len(cipher)} \cup {0}
           opened == SubSeq(plain, 1, Len(cipher))
           noise == [k \in DOMAIN cipher |-> 0]
<1>1. Len(cipher) \in Nat /\ DOMAIN cipher = 1..Len(cipher)
  OBVIOUS
<1>2. \A k \in 1..Len(cipher) : plain[k] \in T
  OBVIOUS
<1>3. opened \in Seq(T) /\ Len(opened) = Len(cipher)
  <2> HIDE DEF T, plain
  <2> QED
    BY <1>1, <1>2, SubSeqProperties
<1>4. noise \in Seq(T) /\ Len(noise) = Len(cipher)
  BY <1>1
<1>5. decryptCBC(key, init, cipher) \in {opened, noise}
  BY DEF decryptCBC
<1> HIDE DEF T, opened, noise
<1> QED
  BY <1>3, <1>4, <1>5

LEMMA DecryptSlices ==
    ASSUME SliceInv, Decrypt
    PROVE  SliceInv'
<1> DEFINE n == tr.encryptedBytes
           cipher == Slice(tr.data, 0, n)
           plain == decryptCBC(Key, Initialisation, cipher)
           behind == Slice(tr.data, n, Len(tr.data))
<1>1. /\ turn = "decrypt" /\ tr.data \in Seq(Byte) /\ n \in 0..Len(tr.data)
      /\ tr.address \in Seq(Byte) /\ Len(tr.address) = 8
  BY DEF Decrypt, SliceInv, SlicesFit, HeaderIsRead
<1>2. \/ \E e : Refuse(e)
      \/ turn' = "application" /\ UNCHANGED <<case, errors, format, payload, pos, tr>>
      \/ /\ turn' = "application" /\ UNCHANGED <<case, errors, format, payload, pos>>
         /\ tr' = [tr EXCEPT !.data = plain \o behind]
  BY DEF Decrypt
<1>3. CASE \E e : Refuse(e)
  BY <1>3, RefuseSlices
<1>4. CASE turn' = "application" /\ UNCHANGED <<case, errors, format, payload, pos, tr>>
  BY <1>1, <1>4 DEF SliceInv, SlicesFit, HeaderIsRead, raw, L
<1>5. ASSUME /\ turn' = "application" /\ UNCHANGED <<case, errors, format, payload, pos>>
             /\ tr' = [tr EXCEPT !.data = plain \o behind]
      PROVE  SliceInv'
  <2>1. /\ n \in Nat /\ Len(tr.data) \in Nat /\ n <= Len(tr.data)
        /\ cipher \in Seq(Byte) /\ behind \in Seq(Byte) /\ Len(cipher) = n
        /\ Len(behind) = Len(tr.data) - n
    <3>1. n \in Nat /\ Len(tr.data) \in Nat /\ n <= Len(tr.data)
      BY <1>1
    <3>2. cipher \in Seq(Byte) /\ Len(cipher) = n
      BY <1>1, <3>1, SliceFits DEF Slice
    <3>3. behind \in Seq(Byte) /\ Len(behind) = Len(tr.data) - n
      BY <1>1, <3>1, SliceFits DEF Slice
    <3> QED
      BY <3>1, <3>2, <3>3
  <2> HIDE DEF cipher, behind
  <2>2. PICK T : plain \in Seq(T) /\ Len(plain) = n
    BY <2>1, DecryptedFits
  <2> HIDE DEF plain
  <2>3. Len(plain \o behind) = Len(tr.data)
    <3>1. plain \in Seq(T \cup Byte) /\ behind \in Seq(T \cup Byte)
      BY <2>1, <2>2
    <3>2. Len(plain \o behind) = Len(plain) + Len(behind)
      BY <3>1, ConcatFits
    <3> QED
      BY <2>1, <2>2, <3>2
  <2>4. /\ tr'.data = plain \o behind /\ tr'.encryptedBytes = n
        /\ tr'.address = tr.address /\ tr'.counter = tr.counter
        /\ tr' = [ci |-> tr'.ci, access |-> tr'.access, status |-> tr'.status, mode |-> tr'.mode,
               encryptedBytes |-> tr'.encryptedBytes, address |-> tr'.address,
               counter |-> tr'.counter, data |-> tr'.data]
    BY <1>5 DEF SliceInv, HeaderIsRead
  <2>5. tr'.encryptedBytes \in 0..Len(tr'.data)
    BY <2>1, <2>3, <2>4
  <2> QED
    BY <1>1, <1>5, <2>4, <2>5 DEF SliceInv, SlicesFit, HeaderIsRead, raw, L
<1> QED
  BY <1>2, <1>3, <1>4, <1>5

LEMMA ApplicationSlices ==
    ASSUME SliceInv, DecodeApplication
    PROVE  SliceInv'
<1> DEFINE zeroed == Slice(tr.address, 0, 2) \o <<0, 0, 0, 0>> \o Slice(tr.address, 6, 8)
<1>1. turn = "application" /\ tr.address \in Seq(Byte) /\ Len(tr.address) = 8
  BY DEF DecodeApplication, SliceInv, HeaderIsRead
<1>2. \/ \E e : Refuse(e)
      \/ /\ turn' = "done" /\ UNCHANGED <<case, errors, format, payload, pos>>
         /\ tr' = [tr EXCEPT !.address = IF IsBCD(Ident) THEN @ ELSE zeroed]
  BY DEF DecodeApplication
<1>3. CASE \E e : Refuse(e)
  BY <1>3, RefuseSlices
<1>4. ASSUME /\ turn' = "done" /\ UNCHANGED <<case, errors, format, payload, pos>>
             /\ tr' = [tr EXCEPT !.address = IF IsBCD(Ident) THEN @ ELSE zeroed]
      PROVE  SliceInv'
  <2>1. zeroed \in Seq(Byte) /\ Len(zeroed) = 8
    <3>1. ASSUME NEW k \in Nat, NEW n \in Nat, k + n <= 8
          PROVE  SubSeq(tr.address, k + 1, k + n) \in Sized(n)
      <4>1. \A j \in (k + 1)..(k + n) : tr.address[j] \in Byte
        BY <1>1, <3>1
      <4> QED
        BY <4>1, SubSeqProperties DEF Sized
    <3>2. Slice(tr.address, 0, 2) \in Sized(2) /\ Slice(tr.address, 6, 8) \in Sized(2)
      BY <3>1 DEF Slice
    <3>3. <<0, 0, 0, 0>> \in Sized(4)
      BY DEF Byte, Sized
    <3>4. zeroed \in Sized(8)
      BY <3>2, <3>3, EightBytes
    <3> QED
      BY <3>4 DEF Sized
  <2> HIDE DEF zeroed
  <2>2. /\ tr'.data = tr.data /\ tr'.encryptedBytes = tr.encryptedBytes
        /\ tr'.address \in {tr.address, zeroed} /\ tr'.counter = tr.counter
        /\ tr' = [ci |-> tr'.ci, access |-> tr'.access, status |-> tr'.status, mode |-> tr'.mode,
               encryptedBytes |-> tr'.encryptedBytes, address |-> tr'.address,
               counter |-> tr'.counter, data |-> tr'.data]
    BY <1>4 DEF SliceInv, HeaderIsRead
  <2>3. Len(tr'.address) = 8
    BY <1>1, <2>1, <2>2
  <2> QED
    BY <1>1, <1>4, <2>2, <2>3 DEF SliceInv, SlicesFit, HeaderIsRead, raw, L
<1> QED
  BY <1>2, <1>3, <1>4

LEMMA NextSlices == BytesComeIn /\ SliceInv /\ [WirelessNext]_wirelessVars => SliceInv'
<1> SUFFICES ASSUME BytesComeIn, SliceInv, [WirelessNext]_wirelessVars PROVE SliceInv'
  OBVIOUS
<1>1. CASE UNCHANGED wirelessVars
  BY <1>1 DEF wirelessVars, SliceInv, SlicesFit, HeaderIsRead, raw, L
<1>2. CASE OtherCI
  BY <1>2, RefuseSlices DEF OtherCI
<1> QED
  BY <1>1, <1>2, ParseASlices, BlockSlices, ParseBSlices, ParseStrippedSlices,
     ExtendedLinkSlices, AuthLayerSlices, NoHeaderSlices, HeaderIsSliced, DecryptSlices,
     ApplicationSlices DEF WirelessNext

\* Whatever bytes a receiver hands over and whatever key a caller gives, the
\* decoder reads no byte that is not there: each layer's length is checked
\* before it is stepped over (tpl.go 84-243, link.go 107-217).
THEOREM NoSliceIsTooLong == WirelessSpec => []SlicesFit
<1>1. SliceInv => SlicesFit
  BY DEF SliceInv
<1>2. WirelessInit => SliceInv
  BY InitSlices, ReceivedAssumption
<1>3. SliceInv /\ [WirelessNext]_wirelessVars => SliceInv'
  BY NextSlices, ReceivedAssumption
<1> QED
  BY <1>1, <1>2, <1>3, PTL DEF WirelessSpec

-----------------------------------------------------------------------------
(* Wireless telegrams: what the CRCs make of damage                        *)

KeyErrors == {"ErrKeyRequired", "ErrInvalidKey", "ErrDecrypt"}

Sent == case.payload
N == Len(case.payload)

\* What is accepted is what was sent, or the empty telegram that begins one of
\* format A.
Accepted ==
    \/ payload = <<>> /\ (case.intact => N = 0)
    \/ format = case.form /\ payload = Sent /\ case.intact

BlockIsThere(j) ==
    /\ <<BlockAt(j), BlockAt(j) + BlockSize(case, j)>> \in case.blocks
    /\ Len(raw) >= BlockAt(j) + BlockSize(case, j) + 2

\* The first k blocks are stripped of their CRCs.
StrippedBefore(k) ==
    /\ \A j \in BlocksSent(case) : j < k => BlockIsThere(j)
    /\ 16 * k < N => payload = Slice(Sent, 0, 16 * k) /\ pos = BlockAt(k)
    /\ 16 * k >= N => payload = Sent

InBlocks ==
    /\ Len(raw) >= 12 /\ <<0, 10>> \in case.blocks
    /\ case.form = "A" => L = N + 9 /\ \E k \in Nat : StrippedBefore(k)
    /\ case.form # "A" => case.form = "B" /\ N = 0 /\ L = 11 /\ pos = 12 /\ payload = <<>>

KeyTold ==
    IF case.intact THEN "ErrCRC" \notin errors ELSE errors \cap KeyErrors = {}

LinkInv ==
    /\ turn \in {"A", "blocks"} => case.parse \in {"any", "A"}
    /\ turn = "B" =>
        case.parse \in {"any", "B"} /\ (case.intact => case.form = "B") /\ errors \cap KeyErrors = {}
    /\ turn = "stripped" => case.parse = "stripped"
    /\ turn = "blocks" => InBlocks
    /\ turn \in {"A", "blocks", "stripped", "layers", "decrypt", "application", "done"} =>
        errors = {}
    /\ turn \in {"layers", "decrypt", "application", "done"} => Accepted
    /\ turn = "layers" => pos <= Len(payload)
    /\ turn \in {"decrypt", "application", "done"} => case.intact
    /\ turn = "failed" => PayloadIsSent /\ KeyTold /\ (format = "none" => ~case.intact)

LEMMA EmptySlice == ASSUME NEW s, NEW k \in Int PROVE Slice(s, k, k) = <<>>
BY SubSeqEmpty DEF Slice

LEMMA WholeSlice == ASSUME NEW s \in Seq(Byte) PROVE Slice(s, 0, Len(s)) = s
<1>1. SubSeq(s, 1, Len(s)) = s
  BY SubSeqFull
<1> QED
  BY <1>1 DEF Slice

LEMMA AdjacentSlices ==
    ASSUME NEW s \in Seq(Byte), NEW m \in Nat, NEW n \in Nat, m <= n, n <= Len(s)
    PROVE  Slice(s, 0, m) \o Slice(s, m, n) = Slice(s, 0, n)
<1>1. 1 \in 1..(Len(s) + 1) /\ m \in (1 - 1)..Len(s) /\ n \in m..Len(s)
  OBVIOUS
<1>2. SubSeq(s, 1, m) \o SubSeq(s, m + 1, n) = SubSeq(s, 1, n)
  BY <1>1, ConcatAdjacentSubSeq
<1> QED
  BY <1>2 DEF Slice

LEMMA InitLink == DamageShows /\ WirelessInit => LinkInv
  BY DEF DamageShows, WirelessInit, LinkInv, KeyErrors

\* A refusal is told for what it is.
LEMMA RefuseLink ==
    ASSUME SliceInv, LinkInv, NEW e, Refuse(e), PayloadIsSent, format = "none" => ~case.intact,
           case.intact => "ErrCRC" \notin errors \cup e,
           ~case.intact => (errors \cup e) \cap KeyErrors = {}
    PROVE  LinkInv'
  BY DEF Refuse, LinkInv, PayloadIsSent, KeyTold

\* Format A refuses what is damaged or of format B.
LEMMA RefuseALink ==
    ASSUME SliceInv, LinkInv, DamageShows, NEW e \in {"ErrInvalidFrame", "ErrCRC"}, RefuseA({e}),
           turn \in {"A", "blocks"}, ~(case.intact /\ case.form = "A")
    PROVE  LinkInv'
<1>1. /\ case \in Cases /\ case.parse \in {"any", "A"} /\ errors = {} /\ format = "none"
      /\ e \notin KeyErrors
  BY DEF SliceInv, LinkInv, KeyErrors
<1>2. case.intact => case.form = "B" /\ case.parse = "any"
  BY <1>1 DEF DamageShows
<1>3. CASE case.parse = "any"
  BY <1>1, <1>2, <1>3 DEF RefuseA, LinkInv, KeyErrors
<1>4. CASE case.parse # "any"
  BY <1>1, <1>2, <1>4, RefuseLink DEF RefuseA, PayloadIsSent
<1> QED
  BY <1>3, <1>4

LEMMA FrameLink ==
    ASSUME SliceInv, LinkInv, NEW f, NEW p \in Seq(Byte), Frame(f, p),
           \/ p = <<>> /\ (case.intact => N = 0)
           \/ f = case.form /\ p = Sent /\ case.intact
    PROVE  LinkInv'
  BY DEF Frame, LinkInv, Accepted, Sent, N

\* A CRC behind the header alone: the first block of format A, or an empty
\* telegram of format B.
LEMMA HeaderIsRight ==
    ASSUME SliceInv, DamageShows, case.form # "stripped", <<0, 10>> \in case.blocks
    PROVE  \/ case.form = "A" /\ L = N + 9
           \/ case.form = "B" /\ L = N + 11 /\ N = 0
<1>1. case \in Cases /\ N \in Nat
  BY DEF SliceInv, DamageShows, N
<1>2. CASE case.form = "A"
  <2>1. RightInA(case, <<0, 10>>)
    BY <1>1, <1>2 DEF DamageShows
  <2>2. \A k \in BlocksSent(case) : BlockAt(k) # 0
    BY DEF BlockAt, BlocksSent
  <2> QED
    BY <1>2, <2>1, <2>2 DEF RightInA, L, N, raw
<1>3. CASE case.form = "B"
  <2>1. RightInB(case, <<0, 10>>)
    BY <1>1, <1>3 DEF DamageShows
  <2> QED
    BY <1>1, <1>3, <2>1 DEF RightInB, L, N, raw
<1> QED
  BY <1>1, <1>2, <1>3 DEF DamageShows

LEMMA ParseALink ==
    ASSUME SliceInv, LinkInv, DamageShows, ParseFormatA
    PROVE  LinkInv'
<1>1. /\ case \in Cases /\ turn = "A" /\ payload = <<>> /\ errors = {} /\ N \in Nat
      /\ case.parse \in {"any", "A"}
  BY DEF ParseFormatA, SliceInv, LinkInv, DamageShows, N
<1>2. case.form # "stripped"
  BY <1>1 DEF DamageShows
<1>3. \/ Len(raw) < 12 /\ RefuseA({"ErrInvalidFrame"})
      \/ Len(raw) >= 12 /\ L < 9 /\ RefuseA({"ErrInvalidFrame"})
      \/ <<0, 10>> \notin case.blocks /\ RefuseA({"ErrCRC"})
      \/ /\ Len(raw) >= 12 /\ <<0, 10>> \in case.blocks
         /\ turn' = "blocks" /\ pos' = 12
         /\ UNCHANGED <<case, errors, format, payload, tr>>
  BY DEF ParseFormatA, dllHeaderLen, checkCRC
<1>4. case.intact /\ case.form = "A" => Len(raw) >= 12 /\ <<0, 10>> \in case.blocks /\ L >= 9
  <2>1. case.intact /\ case.form = "A" => Len(raw) >= 12 /\ <<0, 10>> \in case.blocks
    BY <1>1 DEF DamageShows, WholeInA, raw
  <2> QED
    BY <1>1, <1>2, <2>1, HeaderIsRight
<1>5. Len(raw) \in Nat
  BY ReceivedAssumption, RawIsBytes
<1>6. CASE Len(raw) < 12 /\ RefuseA({"ErrInvalidFrame"})
  BY <1>1, <1>4, <1>5, <1>6, RefuseALink
<1>7. CASE Len(raw) >= 12 /\ L < 9 /\ RefuseA({"ErrInvalidFrame"})
  <2>1. L \in Nat
    BY <1>5, <1>7, ReceivedAssumption, RawIsBytes
  <2> QED
    BY <1>1, <1>4, <1>7, <2>1, RefuseALink
<1>8. CASE <<0, 10>> \notin case.blocks /\ RefuseA({"ErrCRC"})
  BY <1>1, <1>4, <1>8, RefuseALink
<1>9. CASE /\ Len(raw) >= 12 /\ <<0, 10>> \in case.blocks
           /\ turn' = "blocks" /\ pos' = 12
           /\ UNCHANGED <<case, errors, format, payload, tr>>
  <2>1. \/ case.form = "A" /\ L = N + 9
        \/ case.form = "B" /\ L = 11 /\ N = 0
    BY <1>2, <1>9, HeaderIsRight
  <2>2. Slice(Sent, 0, 16 * 0) = <<>> /\ BlockAt(0) = 12 /\ (N = 0 => Sent = <<>>)
    <3>1. Sent \in Seq(Byte) /\ N = Len(Sent)
      BY <1>1 DEF DamageShows, Sent, N
    <3>2. Slice(Sent, 0, 0) = <<>>
      BY EmptySlice
    <3> QED
      BY <3>1, <3>2 DEF BlockAt
  <2>3. StrippedBefore(0)'
    <3>1. \A j \in BlocksSent(case) : ~(j < 0)
      BY DEF BlocksSent
    <3> QED
      BY <1>1, <1>9, <2>2, <3>1 DEF StrippedBefore, Sent, N
  <2>4. InBlocks'
    BY <1>1, <1>9, <2>1, <2>3 DEF InBlocks, raw, L, N
  <2> QED
    BY <1>1, <1>9, <2>4 DEF LinkInv
<1> QED
  BY <1>3, <1>6, <1>7, <1>8, <1>9

\* A right CRC behind n bytes at the place of the k-th block is that of the block.
LEMMA BlockIsSent ==
    ASSUME SliceInv, DamageShows, case.form = "A", NEW k \in Nat, NEW n \in Nat,
           <<BlockAt(k), BlockAt(k) + n>> \in case.blocks
    PROVE  /\ k \in BlocksSent(case) /\ n = BlockSize(case, k)
           /\ Carries(case, BlockAt(k), BlockAt(k) + n, 16 * k, 16 * k + n)
<1>1. case \in Cases /\ N \in Nat
  BY DEF SliceInv, DamageShows, N
<1>2. RightInA(case, <<BlockAt(k), BlockAt(k) + n>>)
  BY <1>1 DEF DamageShows
<1>3. BlockAt(k) \in Nat /\ BlockAt(k) # 0
  BY DEF BlockAt
<1>4. PICK j \in BlocksSent(case) :
        /\ BlockAt(k) = BlockAt(j) /\ BlockAt(k) + n = BlockAt(j) + BlockSize(case, j)
        /\ Carries(case, BlockAt(j), BlockAt(j) + BlockSize(case, j),
                   16 * j, 16 * j + BlockSize(case, j))
  BY <1>2, <1>3 DEF RightInA
<1>5. j = k
  BY <1>4 DEF BlockAt, BlocksSent
<1>6. BlockSize(case, k) \in Int
  BY <1>1 DEF BlockSize, N
<1>7. n = BlockSize(case, k)
  BY <1>3, <1>4, <1>5, <1>6
<1> QED
  BY <1>4, <1>5, <1>7

LEMMA BlockLink ==
    ASSUME SliceInv, LinkInv, DamageShows, StripFormatABlock
    PROVE  LinkInv'
<1> DEFINE remaining == L - 9 - Len(payload)
           n == IF remaining < 16 THEN remaining ELSE 16
<1>1. /\ case \in Cases /\ turn = "blocks" /\ InBlocks /\ errors = {}
      /\ N \in Nat /\ Sent \in Seq(Byte) /\ N = Len(Sent)
  BY DEF StripFormatABlock, SliceInv, LinkInv, DamageShows, Sent, N
<1>2. /\ raw \in Seq(Byte) /\ payload \in Seq(Byte) /\ Len(raw) \in Nat /\ Len(payload) \in Nat
      /\ L \in Nat /\ Len(payload) <= L - 9
  BY <1>1, ReceivedAssumption, RawIsBytes DEF SliceInv
<1>3. /\ remaining \in Nat /\ n \in Nat /\ n <= remaining
      /\ remaining < 16 => n = remaining
      /\ remaining >= 16 => n = 16
  BY <1>2
<1>4. \/ remaining = 0 /\ Frame("A", payload)
      \/ remaining > 0 /\ Len(raw) < pos + n + 2 /\ RefuseA({"ErrInvalidFrame"})
      \/ remaining > 0 /\ <<pos, pos + n>> \notin case.blocks /\ RefuseA({"ErrCRC"})
      \/ /\ remaining > 0 /\ Len(raw) >= pos + n + 2 /\ <<pos, pos + n>> \in case.blocks
         /\ payload' = payload \o Slice(raw, pos, pos + n)
         /\ pos' = pos + n + 2
         /\ UNCHANGED <<case, turn, errors, format, tr>>
  <2>1. L - (10 - 1) - Len(payload) = remaining
    BY <1>2
  <2> HIDE DEF remaining
  <2> QED
    BY <2>1 DEF StripFormatABlock, dllHeaderLen, blockLen, checkCRC, BlockIsRight
<1> HIDE DEF remaining, n
<1>5. CASE case.form # "A"
  <2>1. case.form = "B" /\ N = 0 /\ L = 11 /\ pos = 12 /\ Len(payload) = 0
    BY <1>1, <1>5 DEF InBlocks
  <2>2. remaining = 2 /\ n = 2
    BY <2>1 DEF remaining, n
  <2>3. <<12, 14>> \notin case.blocks
    <3>1. ~RightInB(case, <<12, 14>>)
      BY <2>1 DEF RightInB, N
    <3> QED
      BY <1>1, <2>1, <3>1 DEF DamageShows
  <2>4. RefuseA({"ErrInvalidFrame"}) \/ RefuseA({"ErrCRC"})
    BY <1>4, <2>1, <2>2, <2>3
  <2> QED
    BY <1>1, <1>5, <2>4, RefuseALink
<1>6. ASSUME case.form = "A" PROVE LinkInv'
  <2>1. L = N + 9
    BY <1>1, <1>6 DEF InBlocks
  <2>2. PICK k \in Nat : StrippedBefore(k)
    BY <1>1, <1>6 DEF InBlocks
  <2>3. ASSUME 16 * k >= N PROVE LinkInv'
    <3>1. payload = Sent /\ remaining = 0
      BY <1>1, <2>1, <2>2, <2>3 DEF StrippedBefore, remaining
    <3>2. Frame("A", payload)
      BY <1>4, <3>1
    <3>3. case.intact
      <4>1. \A j \in BlocksSent(case) : BlockIsThere(j)
        BY <1>1, <2>2, <2>3 DEF StrippedBefore, BlocksSent, N
      <4>2. WholeInA(case)
        BY <1>1, <4>1 DEF WholeInA, InBlocks, BlockIsThere, raw
      <4> QED
        BY <1>1, <1>6, <4>2 DEF DamageShows
    <3> QED
      BY <1>2, <1>6, <3>1, <3>2, <3>3, FrameLink
  <2>4. ASSUME 16 * k < N PROVE LinkInv'
    <3>1. /\ payload = Slice(Sent, 0, 16 * k) /\ pos = BlockAt(k)
          /\ pos \in Nat /\ pos = 18 * k + 12
      BY <2>2, <2>4 DEF StrippedBefore, BlockAt
    <3>2. Len(payload) = 16 * k
      BY <1>1, <2>4, <3>1, SliceFits DEF Slice
    <3>3. remaining = N - 16 * k /\ n = BlockSize(case, k) /\ remaining > 0
      BY <1>1, <2>1, <2>4, <3>2 DEF remaining, n, BlockSize, N
    <3>4. k \in BlocksSent(case)
      BY <1>1, <2>4 DEF BlocksSent, N
    <3>5. case.intact => /\ <<pos, pos + n>> \in case.blocks
                         /\ Len(raw) >= pos + n + 2
      BY <1>1, <1>6, <3>1, <3>3, <3>4 DEF DamageShows, WholeInA, raw
    <3>6. CASE Len(raw) < pos + n + 2 /\ RefuseA({"ErrInvalidFrame"})
      BY <1>1, <1>2, <1>3, <3>1, <3>5, <3>6, RefuseALink
    <3>7. CASE <<pos, pos + n>> \notin case.blocks /\ RefuseA({"ErrCRC"})
      BY <1>1, <3>5, <3>7, RefuseALink
    <3>8. ASSUME /\ Len(raw) >= pos + n + 2 /\ <<pos, pos + n>> \in case.blocks
                 /\ payload' = payload \o Slice(raw, pos, pos + n)
                 /\ pos' = pos + n + 2
                 /\ UNCHANGED <<case, turn, errors, format, tr>>
          PROVE  LinkInv'
      <4>1. Carries(case, pos, pos + n, 16 * k, 16 * k + n)
        BY <1>3, <1>6, <3>1, <3>8, BlockIsSent
      <4>2. payload' = Slice(Sent, 0, 16 * k) \o Slice(Sent, 16 * k, 16 * k + n)
        BY <3>1, <3>8, <4>1 DEF Carries, Sent, raw
      <4>3. 16 * k + n <= N
        BY <1>1, <1>3, <3>3
      <4>4. payload' = Slice(Sent, 0, 16 * k + n)
        BY <1>1, <1>3, <4>2, <4>3, AdjacentSlices
      <4>5. \A j \in BlocksSent(case) : j < k + 1 => BlockIsThere(j)
        <5>1. BlockIsThere(k)
          BY <3>1, <3>3, <3>8 DEF BlockIsThere
        <5> QED
          BY <2>2, <5>1 DEF StrippedBefore, BlocksSent
      <4>6. ASSUME 16 * (k + 1) < N
            PROVE  payload' = Slice(Sent, 0, 16 * (k + 1)) /\ pos' = BlockAt(k + 1)
        <5>1. n = 16 /\ 16 * k + n = 16 * (k + 1) /\ pos + n + 2 = 18 * (k + 1) + 12
          BY <1>1, <1>3, <3>1, <3>3, <4>6
        <5> QED
          BY <3>8, <4>4, <5>1 DEF BlockAt
      <4>7. ASSUME 16 * (k + 1) >= N PROVE payload' = Sent
        <5>1. 16 * k + n = N
          BY <1>1, <1>3, <3>3, <4>7
        <5> QED
          BY <1>1, <4>4, <5>1, WholeSlice
      <4>8. StrippedBefore(k + 1)'
        BY <3>8, <4>5, <4>6, <4>7 DEF StrippedBefore, Sent, N, BlockIsThere, raw
      <4>9. InBlocks'
        <5>1. (\E m \in Nat : StrippedBefore(m))'
          BY <4>8
        <5> QED
          BY <1>1, <1>6, <2>1, <3>8, <5>1 DEF InBlocks, raw, L, N
      <4> QED
        BY <1>1, <3>8, <4>9 DEF LinkInv
    <3>9. remaining # 0
      BY <3>3
    <3> QED
      BY <1>4, <3>6, <3>7, <3>8, <3>9
  <2> QED
    BY <1>1, <2>2, <2>3, <2>4
<1> QED
  BY <1>5, <1>6

\* Both blocks of a format B telegram, or the only one, are right.
LEMMA BlocksInB ==
    ASSUME SliceInv, DamageShows, case.form = "B", NEW total \in Nat, total = L + 1,
           FormatBFits(total), \A b \in FormatBBlocks(total) : b \in case.blocks,
           NEW p, p = IF total <= 128 THEN Slice(raw, 10, total - 2)
                      ELSE Slice(raw, 10, 126) \o Slice(raw, 128, total - 2)
    PROVE  p = Sent /\ case.intact
<1>1. /\ case \in Cases /\ N \in Nat /\ Sent \in Seq(Byte) /\ N = Len(Sent)
      /\ Len(raw) >= total /\ (total <= 128 \/ total >= 131)
  BY DEF SliceInv, DamageShows, N, Sent, FormatBFits, formatBFirstCRCEnd
<1>2. \A b \in case.blocks : RightInB(case, b)
  BY <1>1 DEF DamageShows
<1>3. ASSUME total <= 128 PROVE p = Sent /\ case.intact
  <2>1. <<0, total - 2>> \in case.blocks
    BY <1>3 DEF FormatBBlocks, formatBFirstCRCEnd
  <2>2. /\ N <= 116 /\ total - 2 = N + 10 /\ total = N + 12
        /\ Carries(case, 10, N + 10, 0, N)
    <3>1. RightInB(case, <<0, total - 2>>)
      BY <1>2, <2>1
    <3> QED
      BY <1>1, <1>3, <3>1 DEF RightInB, N, L, raw
  <2>3. p = Slice(raw, 10, N + 10)
    BY <1>3, <2>2
  <2>4. p = Slice(Sent, 0, N)
    BY <2>2, <2>3 DEF Carries, Sent, raw
  <2>5. case.intact
    <3>1. total - 2 = N + 10
      BY <1>1, <2>2
    <3>2. WholeInB(case)
      BY <1>1, <2>1, <2>2, <3>1 DEF WholeInB, N, raw
    <3> QED
      BY <1>1, <3>2 DEF DamageShows
  <2> QED
    BY <1>1, <2>4, <2>5, WholeSlice
<1>4. ASSUME total > 128 PROVE p = Sent /\ case.intact
  <2>1. <<0, 126>> \in case.blocks /\ <<128, total - 2>> \in case.blocks
    BY <1>4 DEF FormatBBlocks, formatBFirstCRCEnd
  <2>2. /\ N > 116 /\ total - 2 = N + 12 /\ total = N + 14
        /\ Carries(case, 10, 126, 0, 116)
    <3>1. RightInB(case, <<0, 126>>)
      BY <1>2, <2>1
    <3> QED
      BY <1>1, <1>4, <3>1 DEF RightInB, N, L, raw
  <2>3. Carries(case, 128, N + 12, 116, N)
    <3>1. RightInB(case, <<128, N + 12>>)
      BY <1>2, <2>1, <2>2
    <3> QED
      BY <1>1, <2>2, <3>1 DEF RightInB, N
  <2>4. p = Slice(raw, 10, 126) \o Slice(raw, 128, N + 12)
    BY <1>4, <2>2
  <2>5. p = Slice(Sent, 0, 116) \o Slice(Sent, 116, N)
    BY <2>2, <2>3, <2>4 DEF Carries, Sent, raw
  <2>6. 116 \in Nat /\ 116 <= N
    BY <1>1, <2>2
  <2>7. p = Slice(Sent, 0, N)
    <3>1. \A m \in Nat : m <= N => Slice(Sent, 0, m) \o Slice(Sent, m, N) = Slice(Sent, 0, N)
      <4>1. ASSUME NEW m \in Nat, m <= N
            PROVE  Slice(Sent, 0, m) \o Slice(Sent, m, N) = Slice(Sent, 0, N)
        <5>1. N <= Len(Sent)
          BY <1>1
        <5> QED
          BY <1>1, <4>1, <5>1, AdjacentSlices, Zenon
      <4> QED
        BY <4>1
    <3>2. Slice(Sent, 0, 116) \o Slice(Sent, 116, N) = Slice(Sent, 0, N)
      BY <2>6, <3>1, Zenon
    <3> QED
      BY <2>5, <3>2, Zenon
  <2>8. case.intact
    <3>1. total - 2 = N + 12
      BY <1>1, <2>2
    <3>2. <<0, 126>> \in case.blocks /\ <<128, N + 12>> \in case.blocks
      BY <2>1, <3>1
    <3>3. WholeInB(case)
      BY <1>1, <2>2, <3>2 DEF WholeInB, N, raw
    <3> QED
      BY <1>1, <3>3 DEF DamageShows
  <2> QED
    BY <1>1, <2>7, <2>8, WholeSlice
<1> QED
  BY <1>3, <1>4

\* What format B makes of a telegram of format A is nothing, or has no payload.
LEMMA BlocksOfA ==
    ASSUME SliceInv, DamageShows, case.form = "A", NEW total \in Nat, total >= 12,
           \A b \in FormatBBlocks(total) : b \in case.blocks
    PROVE  total = 12
<1>1. case \in Cases /\ \A b \in case.blocks : RightInA(case, b)
  BY DEF SliceInv, DamageShows
<1>2. \A k \in BlocksSent(case) : BlockAt(k) # 0
  BY DEF BlockAt, BlocksSent
<1>3. CASE total <= 128
  <2>1. <<0, total - 2>> \in case.blocks
    BY <1>3 DEF FormatBBlocks, formatBFirstCRCEnd
  <2> QED
    BY <1>1, <1>2, <2>1 DEF RightInA
<1>4. CASE total > 128
  <2>1. <<0, 126>> \in case.blocks
    BY <1>4 DEF FormatBBlocks, formatBFirstCRCEnd
  <2> QED
    BY <1>1, <1>2, <2>1 DEF RightInA
<1> QED
  BY <1>3, <1>4

LEMMA ParseBLink ==
    ASSUME SliceInv, LinkInv, DamageShows, ParseFormatB
    PROVE  LinkInv'
<1> DEFINE total == L + 1
           p == IF total <= 128 THEN Slice(raw, 10, total - 2)
                ELSE Slice(raw, 10, 126) \o Slice(raw, 128, total - 2)
           Right == \A b \in FormatBBlocks(total) : b \in case.blocks
           Fits == Len(raw) >= 12 /\ FormatBFits(total)
<1>1. /\ case \in Cases /\ turn = "B" /\ case.parse \in {"any", "B"} /\ format = "none"
      /\ case.intact => case.form = "B"
      /\ errors \cap KeyErrors = {}
  BY DEF ParseFormatB, SliceInv, LinkInv
<1>2. case.form # "stripped" /\ case.form \in {"A", "B", "stripped"}
  BY <1>1 DEF DamageShows
<1>3. Len(raw) \in Nat /\ (Len(raw) >= 1 => L \in Nat)
  BY ReceivedAssumption, RawIsBytes
<1>4. \/ ~Fits /\ Refuse({"ErrInvalidFrame"})
      \/ Fits /\ Right /\ Frame("B", p)
      \/ Fits /\ ~Right /\ Refuse({"ErrCRC"})
  <2>1. \A b \in FormatBBlocks(total) : checkCRC(b[1], b[2]) <=> b \in case.blocks
    BY DEF FormatBBlocks, checkCRC
  <2> QED
    BY <2>1 DEF ParseFormatB, dllHeaderLen, formatBFirstCRCEnd
<1>5. case.intact => Fits /\ Right
  <2>1. SUFFICES ASSUME case.intact PROVE Fits /\ Right
    OBVIOUS
  <2>2. /\ case.form = "B" /\ WholeInB(case) /\ N \in Nat
        /\ \A b \in case.blocks : RightInB(case, b)
    BY <1>1, <2>1 DEF DamageShows, N
  <2>3. CASE N <= 116
    <3>1. <<0, N + 10>> \in case.blocks /\ Len(raw) >= N + 12
      BY <2>2, <2>3 DEF WholeInB, N, raw
    <3>2. RightInB(case, <<0, N + 10>>)
      BY <2>2, <3>1
    <3>3. L = N + 11
      BY <2>2, <2>3, <3>2 DEF RightInB, N, L, raw
    <3>4. total = N + 12 /\ total - 2 = N + 10 /\ total <= 128
      BY <2>2, <2>3, <3>3
    <3> HIDE DEF total
    <3> QED
      BY <1>3, <2>2, <2>3, <3>1, <3>4
      DEF FormatBFits, FormatBBlocks, dllHeaderLen, formatBFirstCRCEnd
  <2>4. CASE N > 116
    <3>1. /\ <<0, 126>> \in case.blocks /\ <<128, N + 12>> \in case.blocks
          /\ Len(raw) >= N + 14
      BY <2>2, <2>4 DEF WholeInB, N, raw
    <3>2. RightInB(case, <<0, 126>>)
      BY <2>2, <3>1
    <3>3. L = N + 13
      BY <2>2, <2>4, <3>2 DEF RightInB, N, L, raw
    <3>4. total = N + 14 /\ total - 2 = N + 12 /\ total > 128 /\ total >= 131
      BY <2>2, <2>4, <3>3
    <3> HIDE DEF total
    <3> QED
      BY <1>3, <2>2, <2>4, <3>1, <3>4
      DEF FormatBFits, FormatBBlocks, dllHeaderLen, formatBFirstCRCEnd
  <2> QED
    BY <2>2, <2>3, <2>4
<1>6. ASSUME NEW e \in {"ErrInvalidFrame", "ErrCRC"}, Refuse({e}), ~case.intact PROVE LinkInv'
  <2>1. (errors \cup {e}) \cap KeyErrors = {}
    BY <1>1, <1>6 DEF KeyErrors
  <2> QED
    BY <1>1, <1>6, <2>1, RefuseLink DEF PayloadIsSent
<1>7. ASSUME Fits /\ Right /\ Frame("B", p) PROVE LinkInv'
  <2>1. total \in Nat /\ total >= 12 /\ total <= Len(raw)
    BY <1>3, <1>7 DEF FormatBFits, dllHeaderLen
  <2>2. CASE case.form = "A"
    <3>1. total = 12
      BY <1>7, <2>1, <2>2, BlocksOfA
    <3>2. total <= 128 /\ total - 2 = 10
      BY <3>1
    <3> HIDE DEF total
    <3>3. p = <<>>
      BY <3>2, EmptySlice
    <3> HIDE DEF p
    <3>4. p \in Seq(Byte)
      BY <3>3
    <3> QED
      BY <1>1, <1>7, <2>2, <3>3, <3>4, FrameLink
  <2>3. CASE case.form = "B"
    <3>1. p = Sent /\ case.intact
      <4>1. /\ FormatBFits(total) /\ total = L + 1
            /\ \A b \in FormatBBlocks(total) : b \in case.blocks
        BY <1>7
      <4>2. p = IF total <= 128 THEN Slice(raw, 10, total - 2)
                ELSE Slice(raw, 10, 126) \o Slice(raw, 128, total - 2)
        OBVIOUS
      <4> HIDE DEF total, p
      <4> QED
        BY <2>1, <2>3, <4>1, <4>2, BlocksInB
    <3>2. p \in Seq(Byte)
      BY <1>1, <3>1 DEF DamageShows, Sent
    <3> HIDE DEF p
    <3> QED
      BY <1>7, <2>3, <3>1, <3>2, FrameLink
  <2> QED
    BY <1>2, <2>2, <2>3
<1> HIDE DEF Fits, Right, p
<1> QED
  BY <1>4, <1>5, <1>6, <1>7

LEMMA StrippedLink ==
    ASSUME SliceInv, LinkInv, DamageShows, ParseWithoutCRC
    PROVE  LinkInv'
<1>1. /\ case \in Cases /\ turn = "stripped" /\ case.parse = "stripped" /\ format = "none"
      /\ errors = {}
  BY DEF ParseWithoutCRC, SliceInv, LinkInv
<1>2. /\ case.form = "stripped" /\ RightIfStripped(case)
      /\ case.intact <=> Len(raw) >= N + 10
      /\ N \in Nat /\ Sent \in Seq(Byte) /\ N = Len(Sent)
  BY <1>1 DEF DamageShows, raw, N, Sent
<1>3. /\ Len(raw) \in Nat /\ (Len(raw) >= 1 => L = N + 9)
      /\ Len(raw) >= N + 10 => Slice(raw, 10, N + 10) = Slice(Sent, 0, N)
  <2>1. Len(raw) \in Nat
    BY ReceivedAssumption, RawIsBytes
  <2> QED
    BY <1>2, <2>1 DEF RightIfStripped, Carries, raw, N, Sent, L
<1>4. \/ ~(Len(raw) >= 10 /\ L + 1 >= 10 /\ Len(raw) >= L + 1) /\ Refuse({"ErrInvalidFrame"})
      \/ /\ Len(raw) >= 10 /\ Len(raw) >= L + 1
         /\ Frame("stripped", Slice(raw, 10, L + 1))
  BY DEF ParseWithoutCRC, StrippedFits, dllHeaderLen
<1>5. CASE ~(Len(raw) >= 10 /\ L + 1 >= 10 /\ Len(raw) >= L + 1) /\ Refuse({"ErrInvalidFrame"})
  <2>1. ~case.intact
    BY <1>2, <1>3, <1>5
  <2> QED
    BY <1>1, <1>5, <2>1, RefuseLink DEF PayloadIsSent, KeyErrors
<1>6. CASE /\ Len(raw) >= 10 /\ Len(raw) >= L + 1
           /\ Frame("stripped", Slice(raw, 10, L + 1))
  <2>1. L + 1 = N + 10 /\ case.intact
    BY <1>2, <1>3, <1>6
  <2>2. Slice(raw, 10, L + 1) = Sent
    BY <1>2, <1>3, <1>6, <2>1, WholeSlice
  <2> QED
    BY <1>2, <1>6, <2>1, <2>2, FrameLink
<1> QED
  BY <1>4, <1>5, <1>6

\* Behind the link layer nothing is told of damage, and what has a layer is whole.
LEMMA LayersLink ==
    ASSUME SliceInv, LinkInv, turn = "layers", OtherCI \/ ExtendedLink \/ AuthLayer \/ NoHeader \/ Header
    PROVE  LinkInv'
<1>1. Accepted /\ errors = {} /\ payload \in Seq(Byte) /\ pos \in Nat /\ format # "none"
  BY LayersAreThere DEF LinkInv
<1>2. Rest >= 1 => case.intact
  BY <1>1 DEF Accepted, Rest
<1>3. PayloadIsSent
  BY <1>1 DEF PayloadIsSent, Accepted, Sent
<1>4. ASSUME NEW e \in {"ErrInvalidFrame", "ErrUnsupportedMode", "ErrUnsupportedCI"}, Refuse({e})
      PROVE  LinkInv'
  <2>1. "ErrCRC" \notin errors \cup {e} /\ (errors \cup {e}) \cap KeyErrors = {}
    BY <1>1, <1>4 DEF KeyErrors
  <2> QED
    BY <1>1, <1>3, <1>4, <2>1, RefuseLink
<1>5. ASSUME NEW n \in Nat, n <= Rest, Step(n)
      PROVE  LinkInv'
  <2>1. pos + n <= Len(payload)
    BY <1>5, LayersAreThere
  <2> QED
    BY <1>1, <1>5, <2>1 DEF Step, LinkInv, Accepted, Sent, N
<1>6. ASSUME Rest >= 1, turn' = "decrypt", UNCHANGED <<case, errors, format, payload, pos>>
      PROVE  LinkInv'
  BY <1>1, <1>2, <1>6 DEF LinkInv, Accepted, Sent, N
<1>7. CASE OtherCI
  BY <1>4, <1>7 DEF OtherCI
<1>8. CASE ExtendedLink
  BY <1>4, <1>5, <1>8, LayersAreThere DEF ExtendedLink
<1>9. CASE AuthLayer
  <2>1. CASE Refuse({"ErrInvalidFrame"})
    BY <1>4, <2>1
  <2>2. CASE AuthLayerFits /\ Step(2 + At(1))
    <3>1. 2 + At(1) \in Nat /\ 2 + At(1) <= Rest
      BY <2>2, LayersAreThere DEF AuthLayerFits
    <3> QED
      BY <1>5, <2>2, <3>1
  <2> QED
    BY <1>9, <2>1, <2>2 DEF AuthLayer
<1>10. CASE NoHeader
  BY <1>6, <1>10 DEF NoHeader
<1>11. CASE Header
  BY <1>4, <1>6, <1>11 DEF Header
<1> QED
  BY <1>7, <1>8, <1>9, <1>10, <1>11

LEMMA OpeningLink ==
    ASSUME SliceInv, LinkInv, Decrypt \/ DecodeApplication
    PROVE  LinkInv'
<1>1. /\ turn \in {"decrypt", "application"} /\ Accepted /\ errors = {} /\ case.intact
      /\ format # "none"
  BY DEF Decrypt, DecodeApplication, LinkInv, SliceInv
<1>2. PayloadIsSent
  BY <1>1 DEF PayloadIsSent, Accepted, Sent
<1>3. ASSUME NEW e \in KeyErrors \cup {"ErrInvalidFrame"}, Refuse({e}) PROVE LinkInv'
  <2>1. "ErrCRC" \notin errors \cup {e}
    BY <1>1 DEF KeyErrors
  <2> QED
    BY <1>1, <1>2, <1>3, <2>1, RefuseLink
<1>4. ASSUME turn' \in {"application", "done"}, UNCHANGED <<case, errors, format, payload, pos>>
      PROVE  LinkInv'
  BY <1>1, <1>4 DEF LinkInv, Accepted, Sent, N
<1>5. CASE Decrypt
  BY <1>3, <1>4, <1>5 DEF Decrypt, KeyErrors
<1>6. CASE DecodeApplication
  BY <1>3, <1>4, <1>6 DEF DecodeApplication
<1> QED
  BY <1>5, <1>6

LEMMA NextLink ==
    DamageShows /\ SliceInv /\ LinkInv /\ [WirelessNext]_wirelessVars => LinkInv'
<1> SUFFICES ASSUME DamageShows, SliceInv, LinkInv, [WirelessNext]_wirelessVars PROVE LinkInv'
  OBVIOUS
<1>1. CASE UNCHANGED wirelessVars
  BY <1>1 DEF wirelessVars, LinkInv, InBlocks, StrippedBefore, BlockIsThere, Accepted,
     KeyTold, PayloadIsSent, Sent, N, L, raw
<1>2. CASE OtherCI \/ ExtendedLink \/ AuthLayer \/ NoHeader \/ Header
  <2>1. turn = "layers"
    BY <1>2 DEF OtherCI, ExtendedLink, AuthLayer, NoHeader, Header
  <2> QED
    BY <1>2, <2>1, LayersLink
<1> QED
  BY <1>1, <1>2, ParseALink, BlockLink, ParseBLink, StrippedLink, OpeningLink
  DEF WirelessNext

LEMMA WirelessInv == WirelessSpec => [](SliceInv /\ LinkInv)
<1>1. BytesComeIn /\ DamageShows
  BY ReceivedAssumption, CRCAssumption
<1>2. WirelessInit => SliceInv /\ LinkInv
  BY <1>1, InitSlices, InitLink
<1>3. SliceInv /\ LinkInv /\ [WirelessNext]_wirelessVars => (SliceInv /\ LinkInv)'
  BY <1>1, NextSlices, NextLink
<1> QED
  BY <1>2, <1>3, PTL DEF WirelessSpec

\* No damaged byte gets past the link layer: a payload that is accepted is the
\* one that was sent, whatever its length, in every format and however Parse
\* falls from one format to the other (link.go 95-217).
THEOREM NoDamageIsAccepted == WirelessSpec => []PayloadIsSent
<1>1. SliceInv /\ LinkInv => PayloadIsSent
  BY DEF SliceInv, SlicesFit, LinkInv, PayloadIsSent, Accepted, Sent
<1> QED
  BY <1>1, WirelessInv, PTL

\* Damage is never decoded and never reported as a missing or wrong key, and no
\* whole telegram is reported as damaged (wmbus/doc.go 66-67).
THEOREM DamageIsNeverHidden == WirelessSpec => []DamageIsTold
<1>1. SliceInv /\ LinkInv => DamageIsTold
  BY DEF SliceInv, SlicesFit, LinkInv, DamageIsTold, KeyTold, KeyErrors
<1> QED
  BY <1>1, WirelessInv, PTL

-----------------------------------------------------------------------------
(* Wireless telegrams: what is read is what the meter sent                 *)

\* The transport header of the telegram that was sent, and where it is.
LastLayer == case.layers[Len(case.layers)]
HeaderAt == LastLayer.from

\* The walk over the layers is in front of one that was sent.
AtLayer(k) == pos = case.layers[k].from /\ tr.counter = case.layers[k].counter

HeaderIsSent ==
    /\ HeaderFits(Sent, HeaderAt)
    /\ tr.address = case.meter /\ tr.counter = LastLayer.counter
    /\ tr.mode = ModeAt(Sent, HeaderAt) /\ tr.encryptedBytes = LockedAt(Sent, HeaderAt)
    /\ tr.data = Slice(Sent, DataAt(Sent, HeaderAt), N)
    /\ tr.mode # ModeNone => tr.access = Sent[ShortAt(Sent, HeaderAt) + 1]

LayerInv ==
    /\ turn \in {"A", "blocks", "B", "stripped"} => tr.counter = <<>>
    /\ turn \in {"A", "blocks", "B", "stripped", "layers"} => tr.mode = ModeNone
    /\ turn = "layers" =>
        tr.address = Slice(raw, 2, 10) /\ \E k \in 1..Len(case.layers) : AtLayer(k)
    /\ turn = "decrypt" => HeaderIsSent
    /\ turn = "application" => tr.address = case.meter /\ tr.data = case.clear
    /\ turn = "done" => NoWrongReading
    /\ turn = "failed" => IntactIsDecoded

LEMMA SentLayers ==
    ASSUME SliceInv, LayersAreSent, DamageShows
    PROVE  /\ Len(case.layers) \in Nat \ {0}
           /\ \A k \in 1..Len(case.layers) : case.layers[k] \in [from : Nat, counter : Seq(Byte)]
           /\ case.layers[1] = [from |-> 0, counter |-> <<>>]
           /\ \A k \in 1..(Len(case.layers) - 1) :
                /\ FrontFits(Sent, case.layers[k].from)
                /\ case.layers[k + 1] = NextLayer(Sent, case.layers[k])
           /\ ~FrontFits(Sent, HeaderAt)
           /\ HeaderFits(Sent, HeaderAt) => DataAreSent(case, LastLayer)
           /\ ~HeaderFits(Sent, HeaderAt) => ~case.legal
           /\ Sent \in Seq(Byte) /\ N = Len(Sent) /\ N \in Nat
<1>1. case \in Cases
  BY DEF SliceInv
<1> DEFINE n == Len(case.layers)
           h == case.layers[n]
<1>2. /\ case.layers \in Seq([from : Nat, counter : Seq(Byte)]) /\ n > 0
      /\ case.layers[1] = [from |-> 0, counter |-> <<>>]
      /\ \A k \in 1..(n - 1) : /\ FrontFits(case.payload, case.layers[k].from)
                              /\ case.layers[k + 1] = NextLayer(case.payload, case.layers[k])
      /\ ~FrontFits(case.payload, h.from)
      /\ IF HeaderFits(case.payload, h.from) THEN DataAreSent(case, h) ELSE ~case.legal
  BY <1>1, Zenon DEF LayersAreSent
<1>3. Len(case.layers) \in Nat \ {0}
  <2>1. ASSUME NEW S, NEW s \in Seq(S), Len(s) > 0 PROVE Len(s) \in Nat \ {0}
    BY <2>1
  <2> QED
    BY <1>2, <2>1
<1>4. \A k \in 1..Len(case.layers) : case.layers[k] \in [from : Nat, counter : Seq(Byte)]
  <2>1. ASSUME NEW S, NEW s \in Seq(S) PROVE \A k \in 1..Len(s) : s[k] \in S
    BY <2>1
  <2> QED
    BY <1>2, <2>1
<1>5. Sent \in Seq(Byte) /\ N = Len(Sent) /\ N \in Nat
  BY <1>1 DEF DamageShows, Sent, N
<1>6. h = LastLayer /\ h.from = HeaderAt /\ Sent = case.payload
  BY DEF LastLayer, HeaderAt, Sent
<1> HIDE DEF h
<1>7. /\ ~FrontFits(Sent, HeaderAt)
      /\ HeaderFits(Sent, HeaderAt) => DataAreSent(case, LastLayer)
      /\ ~HeaderFits(Sent, HeaderAt) => ~case.legal
  BY <1>2, <1>6, Zenon
<1>8. \A k \in 1..(n - 1) : /\ FrontFits(Sent, case.layers[k].from)
                            /\ case.layers[k + 1] = NextLayer(Sent, case.layers[k])
  BY <1>2, <1>6, Zenon
<1> QED
  BY <1>2, <1>3, <1>4, <1>5, <1>7, <1>8

LEMMA InitLayers == BytesComeIn /\ WirelessInit => LayerInv
BY DEF WirelessInit, LayerInv, BytesComeIn

\* Before the layers nothing is known of them but where the first begins.
LEMMA FrameLayers ==
    ASSUME SliceInv, LayerInv, LayersAreSent, DamageShows, NEW f, NEW p, Frame(f, p),
           turn \in {"blocks", "B", "stripped"}
    PROVE  LayerInv'
<1>1. turn' = "layers" /\ pos' = 0 /\ case' = case /\ tr' = [tr EXCEPT !.address = Slice(raw, 2, 10)]
  BY DEF Frame
<1>2. tr.counter = <<>> /\ tr.mode = ModeNone
  BY DEF LayerInv
<1>3. tr'.counter = <<>> /\ tr'.mode = ModeNone /\ tr'.address = Slice(raw, 2, 10)
  BY <1>1, <1>2 DEF SliceInv, HeaderIsRead
<1>4. 1 \in 1..Len(case.layers) /\ case.layers[1].from = 0 /\ case.layers[1].counter = <<>>
  BY SentLayers
<1>5. AtLayer(1)'
  BY <1>1, <1>3, <1>4 DEF AtLayer
<1> QED
  BY <1>1, <1>3, <1>4, <1>5 DEF LayerInv, raw

\* A link layer that is refused is not whole.
LEMMA RefuseLayers ==
    ASSUME LinkInv', NEW e, Refuse(e), format = "none"
    PROVE  LayerInv'
<1>1. turn' = "failed" /\ ~case'.intact
  BY DEF Refuse, LinkInv
<1> QED
  BY <1>1 DEF LayerInv, IntactIsDecoded

LEMMA LinkLayers ==
    ASSUME SliceInv, LayerInv, LinkInv', LayersAreSent, DamageShows,
           ParseFormatA \/ StripFormatABlock \/ ParseFormatB \/ ParseWithoutCRC
    PROVE  LayerInv'
<1>1. turn \in {"A", "blocks", "B", "stripped"} /\ format = "none"
  BY DEF ParseFormatA, StripFormatABlock, ParseFormatB, ParseWithoutCRC, SliceInv
<1>2. tr.counter = <<>> /\ tr.mode = ModeNone
  BY <1>1 DEF LayerInv
<1>3. ASSUME NEW e, Refuse(e) PROVE LayerInv'
  BY <1>1, <1>3, RefuseLayers
<1>4. ASSUME turn' \in {"A", "blocks", "B"}, tr' = tr PROVE LayerInv'
  BY <1>2, <1>4 DEF LayerInv
<1>5. ASSUME NEW e, RefuseA(e) PROVE LayerInv'
  BY <1>3, <1>4, <1>5 DEF RefuseA
<1>6. ASSUME NEW f, NEW p, Frame(f, p), turn # "A" PROVE LayerInv'
  BY <1>1, <1>6, FrameLayers
<1>7. CASE ParseFormatA
  BY <1>4, <1>5, <1>7 DEF ParseFormatA
<1>8. CASE StripFormatABlock
  <2>1. turn = "blocks"
    BY <1>8 DEF StripFormatABlock
  <2>2. \/ Frame("A", payload) \/ RefuseA({"ErrInvalidFrame"}) \/ RefuseA({"ErrCRC"})
        \/ turn' = turn /\ tr' = tr
    BY <1>8 DEF StripFormatABlock
  <2> QED
    BY <1>4, <1>5, <1>6, <2>1, <2>2
<1>9. CASE ParseFormatB
  BY <1>3, <1>6, <1>9 DEF ParseFormatB
<1>10. CASE ParseWithoutCRC
  BY <1>3, <1>6, <1>10 DEF ParseWithoutCRC
<1> QED
  BY <1>7, <1>8, <1>9, <1>10

\* What is in front of the walk, in the words of the sender.
LEMMA FrontIsSeen ==
    ASSUME SliceInv, turn = "layers"
    PROVE  /\ FrontFits(payload, pos) <=> \/ Rest >= 3 /\ At(0) = CIExtendedLinkI
                                          \/ At(0) = CIAuthFragmentation /\ AuthLayerFits
           /\ HeaderFits(payload, pos) =>
                Rest >= 1 /\ At(0) \in {CILongHeader, CIShortHeader, CINoHeader}
<1>1. pos \in Nat /\ Rest \in Nat /\ Len(payload) = pos + Rest /\ Rest = Len(payload) - pos
  BY LayersAreThere DEF Rest
<1>2. At(0) = payload[pos + 0 + 1] /\ payload[pos + 0 + 1] = payload[pos + 1]
  BY <1>1 DEF At
<1>3. FrontFits(payload, pos) <=> \/ Rest >= 3 /\ At(0) = CIExtendedLinkI
                                  \/ At(0) = CIAuthFragmentation /\ AuthLayerFits
  BY DEF FrontFits, At, Rest, AuthLayerFits
<1>4. HeaderFits(payload, pos) =>
        Rest >= 1 /\ At(0) \in {CILongHeader, CIShortHeader, CINoHeader}
  BY <1>1, <1>2 DEF HeaderFits
<1> QED
  BY <1>3, <1>4

LEMMA WholeIsAccepted ==
    ASSUME SliceInv, LinkInv, DamageShows, turn = "layers", Rest >= 1 \/ case.intact
    PROVE  payload = Sent /\ case.intact
<1>1. Accepted /\ Rest \in Nat /\ payload \in Seq(Byte)
  BY LayersAreThere DEF LinkInv
<1>2. Sent \in Seq(Byte) /\ N = Len(Sent)
  BY DEF SliceInv, DamageShows, Sent, N
<1>3. CASE payload = <<>> /\ (case.intact => N = 0)
  <2>1. Rest < 1
    <3>1. pos \in Nat /\ pos + Rest = 0
      BY <1>3, LayersAreThere
    <3> QED
      BY <1>1, <3>1
  <2>2. case.intact /\ N = 0
    BY <1>1, <1>3, <2>1
  <2>3. Sent = <<>>
    <3>1. ASSUME NEW s \in Seq(Byte), Len(s) = 0 PROVE s = <<>>
      BY <3>1
    <3> QED
      BY <1>2, <2>2, <3>1
  <2> QED
    BY <1>3, <2>2, <2>3
<1> QED
  BY <1>1, <1>3 DEF Accepted

\* A layer that fits is followed by the next that was sent, and one that does not
\* is the last.
LEMMA LayersInTurn ==
    ASSUME SliceInv, LayersAreSent, DamageShows, NEW k \in 1..Len(case.layers), AtLayer(k)
    PROVE  /\ ~FrontFits(Sent, pos) => pos = HeaderAt /\ tr.counter = LastLayer.counter
           /\ FrontFits(Sent, pos) => /\ k + 1 \in 1..Len(case.layers)
                                      /\ case.layers[k + 1] = NextLayer(Sent, case.layers[k])
<1> DEFINE n == Len(case.layers)
<1>1. /\ n \in Nat \ {0} /\ ~FrontFits(Sent, HeaderAt)
      /\ \A j \in 1..(n - 1) : /\ FrontFits(Sent, case.layers[j].from)
                               /\ case.layers[j + 1] = NextLayer(Sent, case.layers[j])
  BY SentLayers
<1>2. pos = case.layers[k].from /\ tr.counter = case.layers[k].counter
  BY DEF AtLayer
<1>3. CASE k = n
  <2>1. pos = HeaderAt /\ tr.counter = LastLayer.counter
    BY <1>2, <1>3 DEF LastLayer, HeaderAt
  <2> QED
    BY <1>1, <2>1
<1>4. CASE k # n
  <2>1. k \in 1..(n - 1) /\ k + 1 \in 1..n
    BY <1>1, <1>4
  <2>2. FrontFits(Sent, case.layers[k].from) /\ case.layers[k + 1] = NextLayer(Sent, case.layers[k])
    BY <1>1, <2>1
  <2> QED
    BY <1>2, <2>1, <2>2
<1> QED
  BY <1>3, <1>4

\* Where the telegram breaks off nothing legal was sent.
LEMMA RefuseAtLayer ==
    ASSUME SliceInv, LinkInv, LayerInv, LayersAreSent, DamageShows, turn = "layers",
           NEW e, Refuse(e), ~FrontFits(payload, pos), ~HeaderFits(payload, pos)
    PROVE  LayerInv'
<1>1. PICK k \in 1..Len(case.layers) : AtLayer(k)
  BY DEF LayerInv
<1>2. ASSUME case.intact PROVE ~case.legal
  <2>1. payload = Sent
    BY <1>2, WholeIsAccepted
  <2>2. pos = HeaderAt
    BY <1>1, <2>1, LayersInTurn
  <2>3. ~HeaderFits(Sent, HeaderAt)
    BY <2>1, <2>2
  <2> QED
    BY <2>3, SentLayers
<1>3. turn' = "failed" /\ case' = case
  BY DEF Refuse
<1> QED
  BY <1>2, <1>3 DEF LayerInv, IntactIsDecoded

\* A layer is stepped over to the next.
LEMMA StepOverLayer ==
    ASSUME SliceInv, LinkInv, LayerInv, LayersAreSent, DamageShows, turn = "layers", Rest >= 1,
           FrontFits(payload, pos), NEW n, Step(n),
           tr'.address = tr.address, tr'.mode = tr.mode,
           \A l \in [from : Nat, counter : Seq(Byte)] : l.from = pos /\ l.counter = tr.counter
             => pos + n = NextLayer(payload, l).from /\ tr'.counter = NextLayer(payload, l).counter
    PROVE  LayerInv'
<1>1. PICK k \in 1..Len(case.layers) : AtLayer(k)
  BY DEF LayerInv
<1>2. payload = Sent
  BY WholeIsAccepted
<1>3. /\ k + 1 \in 1..Len(case.layers)
      /\ case.layers[k + 1] = NextLayer(Sent, case.layers[k])
  BY <1>1, <1>2, LayersInTurn
<1>4. case.layers[k] \in [from : Nat, counter : Seq(Byte)]
  BY SentLayers
<1>5. /\ pos + n = NextLayer(payload, case.layers[k]).from
      /\ tr'.counter = NextLayer(payload, case.layers[k]).counter
  BY <1>1, <1>4 DEF AtLayer
<1>6. turn' = turn /\ case' = case /\ pos' = pos + n
  BY DEF Step
<1>7. AtLayer(k + 1)'
  BY <1>2, <1>3, <1>5, <1>6 DEF AtLayer
<1>8. tr.mode = ModeNone /\ tr.address = Slice(raw, 2, 10)
  BY DEF LayerInv
<1> QED
  BY <1>3, <1>6, <1>7, <1>8 DEF LayerInv, raw

LEMMA ExtendedLinkLayers ==
    ASSUME SliceInv, LinkInv, LayerInv, LayersAreSent, DamageShows, ExtendedLink
    PROVE  LayerInv'
<1>1. /\ turn = "layers" /\ Rest >= 1 /\ At(0) = CIExtendedLinkI
      /\ \/ Rest < 3 /\ Refuse({"ErrInvalidFrame"})
         \/ Rest >= 3 /\ Step(3) /\ tr' = tr
  BY DEF ExtendedLink
<1>2. Rest \in Nat /\ pos \in Nat
  BY <1>1, LayersAreThere
<1>3. CASE Rest < 3 /\ Refuse({"ErrInvalidFrame"})
  <2>1. ~FrontFits(payload, pos) /\ ~HeaderFits(payload, pos)
    BY <1>1, <1>2, <1>3, FrontIsSeen
    DEF CIExtendedLinkI, CIAuthFragmentation, CILongHeader, CIShortHeader, CINoHeader
  <2> QED
    BY <1>1, <1>3, <2>1, RefuseAtLayer
<1>4. CASE Rest >= 3 /\ Step(3) /\ tr' = tr
  <2>1. FrontFits(payload, pos)
    BY <1>1, <1>4, FrontIsSeen
  <2>2. ASSUME NEW l \in [from : Nat, counter : Seq(Byte)], l.from = pos, l.counter = tr.counter
        PROVE  /\ pos + 3 = NextLayer(payload, l).from
               /\ tr'.counter = NextLayer(payload, l).counter
    <3>1. payload[l.from + 0 + 1] = CIExtendedLinkI
      BY <1>1, <2>2 DEF At
    <3>2. NextLayer(payload, l) = [from |-> l.from + 3, counter |-> l.counter]
      BY <3>1 DEF NextLayer
    <3> QED
      BY <1>4, <2>2, <3>2
  <2> QED
    BY <1>1, <1>4, <2>1, <2>2, StepOverLayer
<1> QED
  BY <1>1, <1>3, <1>4

LEMMA OtherLayers ==
    ASSUME SliceInv, LinkInv, LayerInv, LayersAreSent, DamageShows, OtherCI
    PROVE  LayerInv'
<1>1. turn = "layers" /\ \E e : Refuse(e)
  BY DEF OtherCI
<1>2. \/ Rest < 1
      \/ At(0) \notin {CILongHeader, CIShortHeader, CINoHeader, CIExtendedLinkI,
                       CIAuthFragmentation}
  BY DEF OtherCI, CILongHeader, CIShortHeader, CINoHeader, CIExtendedLinkI, CIExtendedLinkII,
     CIAuthFragmentation
<1>3. Rest \in Nat
  BY <1>1, LayersAreThere
<1>4. ~FrontFits(payload, pos) /\ ~HeaderFits(payload, pos)
  <2>1. AuthLayerFits => Rest >= 1
    BY <1>3 DEF AuthLayerFits
  <2> QED
    BY <1>1, <1>2, <1>3, <2>1, FrontIsSeen
<1> QED
  BY <1>1, <1>4, RefuseAtLayer

LEMMA AuthLayers ==
    ASSUME SliceInv, LinkInv, LayerInv, LayersAreSent, DamageShows, AuthLayer
    PROVE  LayerInv'
<1>1. /\ turn = "layers" /\ Rest >= 1 /\ At(0) = CIAuthFragmentation
      /\ \/ ~AuthLayerFits /\ Refuse({"ErrInvalidFrame"})
         \/ /\ AuthLayerFits /\ Step(2 + At(1))
            /\ tr' = IF HasMessageCounter(At(3))
                     THEN [tr EXCEPT !.counter = Bytes(2 + BeforeCounter(At(3)), 4)]
                     ELSE tr
  BY DEF AuthLayer
<1>2. CASE ~AuthLayerFits /\ Refuse({"ErrInvalidFrame"})
  <2>1. ~FrontFits(payload, pos) /\ ~HeaderFits(payload, pos)
    BY <1>1, <1>2, FrontIsSeen
    DEF CIExtendedLinkI, CIAuthFragmentation, CILongHeader, CIShortHeader, CINoHeader
  <2> QED
    BY <1>1, <1>2, <2>1, RefuseAtLayer
<1>3. CASE /\ AuthLayerFits /\ Step(2 + At(1))
           /\ tr' = IF HasMessageCounter(At(3))
                    THEN [tr EXCEPT !.counter = Bytes(2 + BeforeCounter(At(3)), 4)]
                    ELSE tr
  <2>1. FrontFits(payload, pos)
    BY <1>1, <1>3, FrontIsSeen
  <2>2. /\ pos \in Nat /\ Rest \in Nat /\ At(1) \in Nat /\ At(3) \in Nat
    <3>1. pos \in Nat /\ Rest \in Nat /\ Rest >= 2 /\ Rest >= 2 + At(1) /\ At(1) >= 2
      BY <1>1, <1>3, LayersAreThere DEF AuthLayerFits
    <3>2. At(1) \in Nat
      BY <1>1, <3>1, LayersAreThere
    <3>3. At(3) \in Nat
      BY <1>1, <3>1, <3>2, LayersAreThere
    <3> QED
      BY <3>1, <3>2, <3>3
  <2>3. BeforeCounter(At(3)) \in Nat
    BY <2>2, CounterFits
  <2>4. /\ tr'.address = tr.address /\ tr'.mode = tr.mode
        /\ tr'.counter = IF HasMessageCounter(At(3)) THEN Bytes(2 + BeforeCounter(At(3)), 4)
                         ELSE tr.counter
    BY <1>3 DEF SliceInv, HeaderIsRead
  <2>5. ASSUME NEW l \in [from : Nat, counter : Seq(Byte)], l.from = pos, l.counter = tr.counter
        PROVE  /\ pos + (2 + At(1)) = NextLayer(payload, l).from
               /\ tr'.counter = NextLayer(payload, l).counter
    <3> DEFINE control == payload[l.from + 3 + 1]
               from == l.from + 2 + BeforeCounter(control)
    <3>1. payload[l.from + 0 + 1] = At(0) /\ payload[l.from + 1 + 1] = At(1) /\ control = At(3)
      BY <2>5 DEF At
    <3>2. NextLayer(payload, l) =
            [from    |-> l.from + 2 + At(1),
             counter |-> IF HasMessageCounter(control)
                         THEN Slice(payload, from, from + 4) ELSE l.counter]
      BY <1>1, <3>1 DEF NextLayer, CIAuthFragmentation, CIExtendedLinkI
    <3>3. Bytes(2 + BeforeCounter(At(3)), 4) = Slice(payload, from, from + 4)
      <4>1. from = pos + (2 + BeforeCounter(At(3)))
        BY <2>2, <2>3, <2>5, <3>1
      <4> QED
        BY <4>1 DEF Bytes
    <3> HIDE DEF control, from
    <3>4. NextLayer(payload, l).from = l.from + 2 + At(1)
      BY <3>2
    <3>5. NextLayer(payload, l).counter =
            IF HasMessageCounter(control) THEN Slice(payload, from, from + 4) ELSE l.counter
      BY <3>2
    <3>6. pos + (2 + At(1)) = l.from + 2 + At(1)
      BY <2>2, <2>5
    <3> QED
      BY <2>4, <2>5, <3>1, <3>3, <3>4, <3>5, <3>6, Zenon
  <2> QED
    BY <1>1, <1>3, <2>1, <2>4, <2>5, StepOverLayer
<1> QED
  BY <1>1, <1>2, <1>3

\* The header the walk stops at is the one that was sent.
LEMMA AtHeader ==
    ASSUME SliceInv, LinkInv, LayerInv, LayersAreSent, DamageShows, turn = "layers", Rest >= 1,
           At(0) \in {CILongHeader, CIShortHeader, CINoHeader}
    PROVE  /\ payload = Sent /\ case.intact /\ ~FrontFits(payload, pos)
           /\ pos = HeaderAt /\ tr.counter = LastLayer.counter
           /\ tr.address = Slice(raw, 2, 10) /\ tr.mode = ModeNone /\ tr.encryptedBytes = 0
<1>1. PICK k \in 1..Len(case.layers) : AtLayer(k)
  BY DEF LayerInv
<1>2. payload = Sent /\ case.intact
  BY WholeIsAccepted
<1>3. ~FrontFits(payload, pos)
  BY FrontIsSeen
  DEF CIExtendedLinkI, CIAuthFragmentation, CILongHeader, CIShortHeader, CINoHeader
<1>4. pos = HeaderAt /\ tr.counter = LastLayer.counter
  BY <1>1, <1>2, <1>3, LayersInTurn
<1> QED
  BY <1>2, <1>3, <1>4 DEF LayerInv, SliceInv, HeaderIsRead

LEMMA NoHeaderLayers ==
    ASSUME SliceInv, LinkInv, LayerInv, LayersAreSent, DamageShows, NoHeader
    PROVE  LayerInv'
<1>1. /\ turn = "layers" /\ Rest >= 1 /\ At(0) = CINoHeader /\ turn' = "decrypt" /\ case' = case
      /\ tr' = [tr EXCEPT !.ci = At(0), !.data = Bytes(1, Rest - 1)]
  BY DEF NoHeader
<1>2. /\ payload = Sent /\ case.intact
      /\ pos = HeaderAt /\ tr.counter = LastLayer.counter
      /\ tr.address = Slice(raw, 2, 10) /\ tr.mode = ModeNone /\ tr.encryptedBytes = 0
  BY <1>1, AtHeader
<1>3. /\ tr'.data = Bytes(1, Rest - 1) /\ tr'.encryptedBytes = 0 /\ tr'.mode = ModeNone
      /\ tr'.address = Slice(raw, 2, 10) /\ tr'.counter = LastLayer.counter
  BY <1>1, <1>2 DEF SliceInv, HeaderIsRead
<1>4. pos \in Nat /\ Rest \in Nat /\ pos + Rest = N
  BY <1>1, <1>2, LayersAreThere DEF N, Sent
<1>5. Sent[HeaderAt + 1] = CINoHeader
  <2>1. pos + 0 + 1 = pos + 1
    BY <1>4
  <2> QED
    BY <1>1, <1>2, <2>1 DEF At
<1>6. HeaderFits(Sent, HeaderAt)
  <2>1. Len(Sent) >= HeaderAt + 1
    BY <1>1, <1>2, <1>4 DEF N, Sent
  <2> QED
    BY <1>5, <2>1 DEF HeaderFits
<1>7. /\ ModeAt(Sent, HeaderAt) = ModeNone /\ LockedAt(Sent, HeaderAt) = 0
      /\ DataAt(Sent, HeaderAt) = HeaderAt + 1
  BY <1>5 DEF ModeAt, LockedAt, DataAt
<1>8. tr'.data = Slice(Sent, HeaderAt + 1, N)
  <2>1. pos + 1 + (Rest - 1) = N
    BY <1>4
  <2> QED
    BY <1>2, <1>3, <2>1 DEF Bytes
<1>9. case.meter = Slice(raw, 2, 10)
  <2>1. DataAreSent(case, LastLayer)
    BY <1>6, SentLayers
  <2>2. Sent[HeaderAt + 1] # CILongHeader
    BY <1>5 DEF CILongHeader, CINoHeader
  <2> QED
    BY <1>2, <2>1, <2>2 DEF DataAreSent, Sent, HeaderAt, raw
<1>10. HeaderIsSent'
  BY <1>1, <1>3, <1>6, <1>7, <1>8, <1>9 DEF HeaderIsSent, LastLayer, HeaderAt, Sent, N
<1> QED
  BY <1>1, <1>10 DEF LayerInv

LEMMA HeaderLayers ==
    ASSUME SliceInv, LinkInv, LayerInv, LayersAreSent, DamageShows, Header
    PROVE  LayerInv'
<1> DEFINE s == IF At(0) = CILongHeader THEN 9 ELSE 1
           mode == At(s + 3) % 32
           encrypted == (At(s + 2) \div 16) * 16
           from == s + 4 + (IF mode = ModeAESCBCDerived THEN 1 ELSE 0)
           modes == {ModeNone, ModeAESCBCIV, ModeAESCBCDerived}
<1>1. /\ turn = "layers" /\ Rest >= 1 /\ At(0) \in {CILongHeader, CIShortHeader}
      /\ \/ /\ \/ Rest < s + 4 \/ mode \notin modes \/ Rest < from + encrypted
            /\ \E e : Refuse(e)
         \/ /\ Rest >= s + 4 /\ mode \in modes /\ Rest >= from + encrypted
            /\ tr' = [tr EXCEPT
                        !.ci = At(0), !.access = At(s), !.status = At(s + 1),
                        !.mode = mode, !.encryptedBytes = encrypted,
                        !.address = IF At(0) = CILongHeader THEN HeaderAddress ELSE @,
                        !.data = Bytes(from, Rest - from)]
            /\ turn' = "decrypt" /\ case' = case
  BY DEF Header, longPrefix, shortHeaderLen, encryptionBlockLen
<1>2. /\ payload = Sent /\ case.intact /\ ~FrontFits(payload, pos)
      /\ pos = HeaderAt /\ tr.counter = LastLayer.counter
      /\ tr.address = Slice(raw, 2, 10)
  BY <1>1, AtHeader
<1>3. pos \in Nat /\ Rest \in Nat /\ pos + Rest = N /\ N = Len(Sent)
  BY <1>1, <1>2, LayersAreThere DEF N, Sent
<1>4. s \in {1, 9}
  OBVIOUS
<1>5. /\ Sent[HeaderAt + 1] = At(0) /\ Sent[HeaderAt + 1] # CINoHeader
      /\ Sent[HeaderAt + 1] \in {CILongHeader, CIShortHeader}
  <2>1. pos + 0 + 1 = pos + 1
    BY <1>3
  <2>2. Sent[HeaderAt + 1] = At(0)
    BY <1>2, <2>1 DEF At
  <2> QED
    BY <1>1, <2>2 DEF CILongHeader, CIShortHeader, CINoHeader
<1>6. ShortAt(Sent, HeaderAt) = pos + s
  BY <1>2, <1>5 DEF ShortAt, longPrefix
<1> HIDE DEF s
<1>7. /\ At(s) = Sent[ShortAt(Sent, HeaderAt) + 1]
      /\ At(s + 2) = Sent[ShortAt(Sent, HeaderAt) + 3]
      /\ At(s + 3) = Sent[ShortAt(Sent, HeaderAt) + 4]
  <2>1. /\ pos + s + 1 = (pos + s) + 1 /\ pos + (s + 2) + 1 = (pos + s) + 3
        /\ pos + (s + 3) + 1 = (pos + s) + 4
    BY <1>3, <1>4
  <2> QED
    BY <1>2, <1>6, <2>1 DEF At
<1>8. ModeAt(Sent, HeaderAt) = mode /\ LockedAt(Sent, HeaderAt) = encrypted
  BY <1>5, <1>7 DEF ModeAt, LockedAt, encryptionBlockLen
<1>9. DataAt(Sent, HeaderAt) = pos + from
  <2> DEFINE d == IF mode = ModeAESCBCDerived THEN 1 ELSE 0
  <2>1. DataAt(Sent, HeaderAt) = (pos + s) + 4 + d
    BY <1>5, <1>6, <1>8 DEF DataAt, shortHeaderLen
  <2>2. d \in {0, 1} /\ from = s + 4 + d
    OBVIOUS
  <2> HIDE DEF d, from
  <2> QED
    BY <1>3, <1>4, <2>1, <2>2
<1>10. HeaderFits(Sent, HeaderAt) <=>
         N >= (pos + s) + 4 /\ mode \in modes /\ N >= (pos + from) + encrypted
  <2>1. Len(Sent) >= HeaderAt + 1
    BY <1>1, <1>2, <1>3
  <2> QED
    BY <1>3, <1>5, <1>6, <1>8, <1>9, <2>1 DEF HeaderFits, shortHeaderLen
<1>11. Rest >= s + 4 => encrypted \in Nat /\ from \in Nat
  <2>1. ASSUME Rest >= s + 4 PROVE At(s + 2) \in Nat
    <3>1. s + 2 \in Nat /\ s + 2 < Rest
      BY <1>3, <1>4, <2>1
    <3> QED
      BY <1>1, <3>1, LayersAreThere
  <2>2. \A b \in Nat : (b \div 16) * 16 \in Nat
    OBVIOUS
  <2>3. from \in Nat
    BY <1>4
  <2> QED
    BY <2>1, <2>2, <2>3
<1> HIDE DEF mode, encrypted, from, modes
<1>12. ASSUME \/ Rest < s + 4 \/ mode \notin modes \/ Rest < from + encrypted,
              NEW e, Refuse(e)
       PROVE  LayerInv'
  <2>1. ~HeaderFits(payload, pos)
    <3>1. Rest < s + 4 => ~(N >= (pos + s) + 4)
      BY <1>3, <1>4
    <3>2. Rest >= s + 4 /\ Rest < from + encrypted => ~(N >= (pos + from) + encrypted)
      BY <1>3, <1>11
    <3>3. Rest < s + 4 \/ Rest >= s + 4
      BY <1>3, <1>4
    <3> QED
      BY <1>2, <1>10, <1>12, <3>1, <3>2, <3>3
  <2> QED
    BY <1>1, <1>2, <1>12, <2>1, RefuseAtLayer
<1>13. ASSUME Rest >= s + 4, mode \in modes, Rest >= from + encrypted,
              tr' = [tr EXCEPT
                        !.ci = At(0), !.access = At(s), !.status = At(s + 1),
                        !.mode = mode, !.encryptedBytes = encrypted,
                        !.address = IF At(0) = CILongHeader THEN HeaderAddress ELSE @,
                        !.data = Bytes(from, Rest - from)],
              turn' = "decrypt", case' = case
       PROVE  LayerInv'
  <2>1. /\ tr'.access = At(s) /\ tr'.mode = mode /\ tr'.encryptedBytes = encrypted
        /\ tr'.address = IF At(0) = CILongHeader THEN HeaderAddress ELSE tr.address
        /\ tr'.data = Bytes(from, Rest - from) /\ tr'.counter = tr.counter
    BY <1>13 DEF SliceInv, HeaderIsRead
  <2>2. HeaderFits(Sent, HeaderAt)
    <3>1. N >= (pos + s) + 4 /\ N >= (pos + from) + encrypted
      BY <1>3, <1>4, <1>11, <1>13
    <3> QED
      BY <1>10, <1>13, <3>1
  <2>3. tr'.data = Slice(Sent, DataAt(Sent, HeaderAt), N)
    <3>1. (pos + from) + (Rest - from) = N
      BY <1>3, <1>11, <1>13
    <3> QED
      BY <1>2, <1>9, <2>1, <3>1 DEF Bytes
  <2>4. tr'.address = case.meter
    <3>1. DataAreSent(case, LastLayer)
      BY <2>2, SentLayers
    <3>2. CASE At(0) = CILongHeader
      <4>1. case.meter = Slice(Sent, HeaderAt + 5, HeaderAt + 7)
                           \o Slice(Sent, HeaderAt + 1, HeaderAt + 5)
                           \o Slice(Sent, HeaderAt + 7, HeaderAt + 9)
        BY <1>5, <3>1, <3>2 DEF DataAreSent, Sent, HeaderAt
      <4>2. pos + 5 + 2 = pos + 7 /\ pos + 1 + 4 = pos + 5 /\ pos + 7 + 2 = pos + 9
        BY <1>3
      <4>3. HeaderAddress = Slice(payload, pos + 5, pos + 7) \o Slice(payload, pos + 1, pos + 5)
                              \o Slice(payload, pos + 7, pos + 9)
        BY <4>2 DEF HeaderAddress, Bytes
      <4> QED
        BY <1>2, <2>1, <3>2, <4>1, <4>3
    <3>3. CASE At(0) # CILongHeader
      BY <1>2, <1>5, <2>1, <3>1, <3>3 DEF DataAreSent, Sent, HeaderAt, raw
    <3> QED
      BY <3>2, <3>3
  <2>5. HeaderIsSent'
    BY <1>2, <1>7, <1>8, <1>13, <2>1, <2>2, <2>3, <2>4 DEF HeaderIsSent, LastLayer, HeaderAt, Sent, N
  <2> QED
    BY <1>13, <2>5 DEF LayerInv
<1> QED
  BY <1>1, <1>12, <1>13

LEMMA SliceOfSlice ==
    ASSUME NEW s, NEW from \in Nat, NEW to \in Nat, NEW m \in Nat, NEW n \in Nat, n <= to - from
    PROVE  Slice(Slice(s, from, to), m, n) = Slice(s, from + m, from + n)
<1>1. ASSUME NEW t, NEW a \in Int, NEW b \in Int
      PROVE  SubSeq(t, a, b) = [j \in 1..(b - a + 1) |-> t[j + a - 1]]
  OBVIOUS
<1> DEFINE t == SubSeq(s, from + 1, to)
<1>2. t = [j \in 1..(to - (from + 1) + 1) |-> s[j + (from + 1) - 1]]
  BY <1>1
<1>3. \A j \in 1..(to - from) : t[j] = s[from + j]
  BY <1>2
<1> HIDE DEF t
<1>4. SubSeq(t, m + 1, n) = [j \in 1..(n - (m + 1) + 1) |-> t[j + (m + 1) - 1]]
  BY <1>1
<1>5. SubSeq(s, from + m + 1, from + n) =
        [j \in 1..(from + n - (from + m + 1) + 1) |-> s[j + (from + m + 1) - 1]]
  BY <1>1
<1>6. from + n - (from + m + 1) + 1 = n - m /\ n - (m + 1) + 1 = n - m
  OBVIOUS
<1>7. \A j \in 1..(n - m) : t[j + (m + 1) - 1] = s[j + (from + m + 1) - 1]
  <2>1. ASSUME NEW j \in 1..(n - m)
        PROVE  /\ j + (m + 1) - 1 \in 1..(to - from)
               /\ from + (j + (m + 1) - 1) = j + (from + m + 1) - 1
    OBVIOUS
  <2> QED
    BY <1>3, <2>1
<1>8. SubSeq(t, m + 1, n) = SubSeq(s, from + m + 1, from + n)
  BY <1>4, <1>5, <1>6, <1>7
<1> QED
  BY <1>8 DEF Slice, t

\* Noise does not begin with the marker.
LEMMA NoiseIsTold ==
    ASSUME NEW s \in Seq(Byte), Len(s) >= 1
    PROVE  Slice([k \in DOMAIN s |-> 0], 0, 2) # <<fillerByte, fillerByte>>
<1> DEFINE z == [k \in DOMAIN s |-> 0]
<1>1. z[1] = 0
  <2>1. 1 \in DOMAIN s
    OBVIOUS
  <2> QED
    BY <2>1
<1> HIDE DEF z
<1>2. SubSeq(z, 0 + 1, 2)[1] = z[1]
  OBVIOUS
<1>3. <<fillerByte, fillerByte>>[1] = 47
  BY DEF fillerByte
<1>4. Slice(z, 0, 2)[1] = 0
  BY <1>1, <1>2 DEF Slice
<1>5. Slice(z, 0, 2) # <<fillerByte, fillerByte>>
  <2>1. 0 # 47
    OBVIOUS
  <2> QED
    BY <1>3, <1>4, <2>1, Zenon
<1> QED
  BY <1>5 DEF z

\* The call that has the meter's key finds it.
LEMMA KeyIsFound ==
    ASSUME HasKeyOfMeter, "all" \in DOMAIN case.keys \/ FromMeter
    PROVE  Key = case.lock.key
<1>1. CASE "all" \in DOMAIN case.keys
  BY <1>1 DEF HasKeyOfMeter, Key
<1>2. CASE ~("all" \in DOMAIN case.keys)
  <2>1. Slice(case.meter, 2, 6) = Slice(raw, 4, 8)
    <3>1. case.meter = Slice(raw, 2, 10)
      BY <1>2 DEF FromMeter
    <3>2. Slice(Slice(raw, 2, 10), 2, 6) = Slice(raw, 2 + 2, 2 + 6)
      BY SliceOfSlice
    <3> QED
      BY <3>1, <3>2
  <2> QED
    BY <1>2, <2>1 DEF HasKeyOfMeter, Key
<1> QED
  BY <1>1, <1>2

\* The data, and what of them is encrypted, lie within what was sent.
LEMMA DataLieWithin ==
    ASSUME SliceInv, LayersAreSent, DamageShows, HeaderIsSent, turn = "decrypt"
    PROVE  /\ DataAt(Sent, HeaderAt) \in Nat /\ LockedAt(Sent, HeaderAt) \in Nat
           /\ N \in Nat /\ DataAt(Sent, HeaderAt) + LockedAt(Sent, HeaderAt) <= N
           /\ tr.data \in Seq(Byte) /\ Len(tr.data) = N - DataAt(Sent, HeaderAt)
<1> DEFINE d == DataAt(Sent, HeaderAt)
           n == LockedAt(Sent, HeaderAt)
<1>1. Sent \in Seq(Byte) /\ N = Len(Sent) /\ N \in Nat /\ HeaderAt \in Nat
  <2>1. Len(case.layers) \in 1..Len(case.layers)
    BY SentLayers
  <2>2. LastLayer \in [from : Nat, counter : Seq(Byte)]
    BY <2>1, SentLayers DEF LastLayer
  <2> QED
    BY <2>2, SentLayers DEF HeaderAt
<1>2. d \in Nat
  <2>1. ShortAt(Sent, HeaderAt) \in Nat
    BY <1>1 DEF ShortAt, longPrefix
  <2> QED
    BY <1>1, <2>1 DEF DataAt, shortHeaderLen
<1>3. n \in Nat /\ n = tr.encryptedBytes /\ tr.data \in Seq(Byte) /\ tr.data = Slice(Sent, d, N)
  BY DEF SliceInv, SlicesFit, HeaderIsRead, HeaderIsSent
<1>4. d + n <= N
  <2>1. CASE Sent[HeaderAt + 1] = CINoHeader
    <3>1. d = HeaderAt + 1 /\ n = 0 /\ N >= HeaderAt + 1
      BY <1>1, <2>1 DEF HeaderIsSent, HeaderFits, DataAt, LockedAt
    <3> HIDE DEF d, n
    <3> QED
      BY <1>1, <3>1
  <2>2. CASE Sent[HeaderAt + 1] # CINoHeader
    BY <1>1, <2>2 DEF HeaderIsSent, HeaderFits
  <2> QED
    BY <2>1, <2>2
<1> HIDE DEF d, n
<1>5. Len(Slice(Sent, d, N)) = N - d
  <2>1. d <= N /\ N <= Len(Sent)
    BY <1>1, <1>2, <1>3, <1>4
  <2>2. \A s \in Seq(Byte), from, to \in Nat :
          from <= to /\ to <= Len(s) => Len(Slice(s, from, to)) = to - from
    BY SliceFits
  <2> QED
    BY <1>1, <1>2, <2>1, <2>2, Zenon
<1> QED
  BY <1>1, <1>2, <1>3, <1>4, <1>5 DEF d, n

\* What is not encrypted are the data.
LEMMA OpenLayers ==
    ASSUME SliceInv, LayerInv, LayersAreSent, DamageShows, turn = "decrypt", ~Encrypted,
           turn' = "application", UNCHANGED <<case, tr>>
    PROVE  LayerInv'
<1> DEFINE d == DataAt(Sent, HeaderAt)
           n == LockedAt(Sent, HeaderAt)
<1>1. HeaderIsSent
  BY DEF LayerInv
<1>2. d \in Nat /\ n \in Nat
  BY <1>1, DataLieWithin
<1>3. ModeAt(Sent, HeaderAt) = ModeNone \/ d + n = d
  BY <1>1, <1>2 DEF HeaderIsSent, Encrypted
<1>4. case.clear = Slice(Sent, d, N)
  <2>1. DataAreSent(case, LastLayer)
    BY <1>1, SentLayers DEF HeaderIsSent
  <2> QED
    BY <1>3, <2>1 DEF DataAreSent, Sent, HeaderAt, N
<1> QED
  BY <1>1, <1>4 DEF HeaderIsSent, LayerInv

\* What the meter encrypted, where it is and with what.
LEMMA LockIsSent ==
    ASSUME SliceInv, LayersAreSent, DamageShows, turn = "decrypt", HeaderIsSent, Encrypted
    PROVE  /\ tr.encryptedBytes \in Nat \ {0} /\ tr.encryptedBytes <= Len(tr.data)
           /\ case.lock.mode = tr.mode /\ tr.mode # ModeNone
           /\ case.lock.key \notin {NoKey, ShortKey}
           /\ case.lock.init = Initialisation
           /\ Slice(tr.data, 0, tr.encryptedBytes) = case.lock.cipher
           /\ case.lock.cipher \in Seq(Byte) /\ Len(case.lock.cipher) = tr.encryptedBytes
           /\ case.lock.plain \in Seq(Byte) /\ Len(case.lock.plain) = tr.encryptedBytes
           /\ Slice(case.lock.plain, 0, 2) = <<fillerByte, fillerByte>>
           /\ case.clear = case.lock.plain \o Slice(tr.data, tr.encryptedBytes, Len(tr.data))
           /\ case.legal /\ tr.mode = ModeAESCBCDerived => tr.counter # <<>>
<1> DEFINE d == DataAt(Sent, HeaderAt)
           n == LockedAt(Sent, HeaderAt)
<1>1. /\ d \in Nat /\ n \in Nat /\ N \in Nat /\ d + n <= N
      /\ tr.data \in Seq(Byte) /\ Len(tr.data) = N - d
  BY DataLieWithin
<1>2. /\ tr.address = case.meter /\ tr.counter = LastLayer.counter
      /\ tr.mode = ModeAt(Sent, HeaderAt) /\ tr.encryptedBytes = n
      /\ tr.data = Slice(Sent, d, N)
      /\ tr.mode # ModeNone /\ n # 0
      /\ tr.access = Sent[ShortAt(Sent, HeaderAt) + 1]
  BY DEF HeaderIsSent, Encrypted
<1>3. DataAreSent(case, LastLayer)
  BY SentLayers DEF HeaderIsSent
<1>4. d + n # d /\ ~(tr.mode = ModeNone \/ d + n = d)
  <2> HIDE DEF d, n
  <2> QED
    BY <1>1, <1>2
<1>5. /\ case.lock.mode = tr.mode /\ case.lock.key \notin {NoKey, ShortKey}
      /\ case.lock.init = IF tr.mode = ModeAESCBCIV
                          THEN case.meter \o <<Sent[ShortAt(Sent, HeaderAt) + 1]>>
                          ELSE LastLayer.counter \o Slice(case.meter, 2, 6)
      /\ case.lock.cipher = Slice(Sent, d, d + n)
      /\ case.lock.plain \in Seq(Byte) /\ Len(case.lock.plain) = (d + n) - d
      /\ Slice(case.lock.plain, 0, 2) = <<fillerByte, fillerByte>>
      /\ case.clear = case.lock.plain \o Slice(Sent, d + n, N)
      /\ case.legal /\ tr.mode = ModeAESCBCDerived => LastLayer.counter # <<>>
  <2>1. ~(ModeAt(Sent, HeaderAt) = ModeNone \/ d + n = d)
    BY <1>2, <1>4
  <2>2. tr.mode = ModeAt(Sent, HeaderAt)
    BY <1>2
  <2> QED
    BY <1>3, <2>1, <2>2 DEF DataAreSent, Sent, HeaderAt, N
<1> HIDE DEF d, n
<1>6. case.lock.init = Initialisation
  BY <1>2, <1>5 DEF Initialisation, Ident
<1>7. /\ (d + n) - d = n /\ n <= N - d /\ d + 0 = d /\ d + (N - d) = N /\ N - d \in Nat
  BY <1>1
<1>8. Slice(tr.data, 0, n) = Slice(Sent, d, d + n)
  BY <1>1, <1>2, <1>7, SliceOfSlice
<1>9. Slice(tr.data, n, Len(tr.data)) = Slice(Sent, d + n, N)
  BY <1>1, <1>2, <1>7, SliceOfSlice
<1>10. case.lock.cipher \in Seq(Byte) /\ Len(case.lock.cipher) = n
  <2>1. Slice(tr.data, 0, n) \in Seq(Byte) /\ Len(Slice(tr.data, 0, n)) = n - 0
    BY <1>1, <1>7, SliceFits DEF Slice
  <2>2. n - 0 = n
    BY <1>1
  <2> QED
    BY <1>5, <1>8, <2>1, <2>2
<1>11. n \in Nat \ {0} /\ n <= Len(tr.data)
  BY <1>1, <1>2, <1>7
<1> QED
  BY <1>2, <1>5, <1>6, <1>7, <1>8, <1>9, <1>10, <1>11

\* What is opened is what the meter encrypted, or noise.
LEMMA OpenedRight ==
    ASSUME SliceInv, LayersAreSent, DamageShows, turn = "decrypt", HeaderIsSent, Encrypted,
           NEW key,
           NEW plain, plain = decryptCBC(key, Initialisation, Slice(tr.data, 0, tr.encryptedBytes))
    PROVE  /\ key = case.lock.key => plain = case.lock.plain
           /\ key # case.lock.key => Slice(plain, 0, 2) # <<fillerByte, fillerByte>>
<1> DEFINE cipher == case.lock.cipher
           n == tr.encryptedBytes
<1>1. /\ n \in Nat \ {0}
      /\ case.lock.mode = tr.mode /\ case.lock.init = Initialisation
      /\ Slice(tr.data, 0, n) = cipher
      /\ cipher \in Seq(Byte) /\ Len(cipher) = n
      /\ case.lock.plain \in Seq(Byte) /\ Len(case.lock.plain) = n
  BY LockIsSent
<1>2. SubSeq(cipher, 1, Len(cipher)) = cipher
  BY <1>1, SubSeqFull
<1>3. SubSeq(case.lock.plain, 1, Len(cipher)) = case.lock.plain
  BY <1>1, SubSeqFull
<1>4. plain = IF case.lock.key = key THEN case.lock.plain ELSE [k \in DOMAIN cipher |-> 0]
  BY <1>1, <1>2, <1>3 DEF decryptCBC
<1>5. Slice([k \in DOMAIN cipher |-> 0], 0, 2) # <<fillerByte, fillerByte>>
  <2>1. Len(cipher) >= 1
    BY <1>1
  <2> QED
    BY <1>1, <2>1, NoiseIsTold
<1> QED
  BY <1>4, <1>5

\* For want of the right key, and only so.
LEMMA RefuseToOpen ==
    ASSUME SliceInv, LinkInv, LayersAreSent, DamageShows, turn = "decrypt", HeaderIsSent, Encrypted,
           NEW e \in KeyErrors, Refuse({e}), Key # case.lock.key,
           Key = NoKey <=> e = "ErrKeyRequired"
    PROVE  LayerInv'
<1>1. turn' = "failed" /\ errors' = {e} /\ case' = case
  BY DEF Refuse, LinkInv
<1>2. case.lock.mode # ModeNone
  BY LockIsSent
<1>3. ~(HasKeyOfMeter /\ ("all" \in DOMAIN case.keys \/ FromMeter))
  BY KeyIsFound
<1>4. Key' = Key /\ HasKeyOfMeter' = HasKeyOfMeter /\ FromMeter' = FromMeter
  BY <1>1 DEF Key, HasKeyOfMeter, FromMeter, raw
<1>5. {e} \subseteq KeyErrors /\ ({e} = {"ErrKeyRequired"} <=> e = "ErrKeyRequired")
  OBVIOUS
<1>6. IntactIsDecoded'
  BY <1>1, <1>2, <1>3, <1>4, <1>5 DEF IntactIsDecoded, KeyErrors
<1> QED
  BY <1>1, <1>6 DEF LayerInv

LEMMA RefuseIllegal ==
    ASSUME NEW e, Refuse(e), ~case.legal
    PROVE  LayerInv'
BY DEF Refuse, LayerInv, IntactIsDecoded

LEMMA DecryptLayers ==
    ASSUME SliceInv, LinkInv, LayerInv, LayersAreSent, DamageShows, Decrypt
    PROVE  LayerInv'
<1> DEFINE n == tr.encryptedBytes
           plain == decryptCBC(Key, Initialisation, Slice(tr.data, 0, n))
           rest == Slice(tr.data, n, Len(tr.data))
<1>1. turn = "decrypt" /\ HeaderIsSent
  BY DEF Decrypt, LayerInv
<1>2. \/ ~Encrypted /\ turn' = "application" /\ UNCHANGED <<case, tr>>
      \/ Encrypted /\ Key = NoKey /\ Refuse({"ErrKeyRequired"})
      \/ Encrypted /\ Key = ShortKey /\ Refuse({"ErrInvalidKey"})
      \/ /\ Encrypted /\ tr.mode = ModeAESCBCDerived /\ tr.counter = <<>>
         /\ Refuse({"ErrInvalidFrame"})
      \/ /\ Encrypted /\ Key \notin {NoKey, ShortKey}
         /\ Slice(plain, 0, 2) # <<fillerByte, fillerByte>> /\ Refuse({"ErrDecrypt"})
      \/ /\ Encrypted /\ Slice(plain, 0, 2) = <<fillerByte, fillerByte>>
         /\ tr' = [tr EXCEPT !.data = plain \o rest] /\ turn' = "application" /\ case' = case
  BY DEF Decrypt
<1>3. Encrypted => /\ case.lock.key \notin {NoKey, ShortKey}
                   /\ Slice(case.lock.plain, 0, 2) = <<fillerByte, fillerByte>>
                   /\ case.clear = case.lock.plain \o rest
                   /\ case.legal /\ tr.mode = ModeAESCBCDerived => tr.counter # <<>>
  BY <1>1, LockIsSent
<1>4. Encrypted => /\ Key = case.lock.key => plain = case.lock.plain
                   /\ Key # case.lock.key => Slice(plain, 0, 2) # <<fillerByte, fillerByte>>
  BY <1>1, OpenedRight
<1> HIDE DEF plain, rest, n
<1>5. CASE ~Encrypted /\ turn' = "application" /\ UNCHANGED <<case, tr>>
  BY <1>1, <1>5, OpenLayers
<1>6. CASE Encrypted /\ Key = NoKey /\ Refuse({"ErrKeyRequired"})
  BY <1>1, <1>3, <1>6, RefuseToOpen DEF KeyErrors
<1>7. CASE Encrypted /\ Key = ShortKey /\ Refuse({"ErrInvalidKey"})
  BY <1>1, <1>3, <1>7, RefuseToOpen DEF KeyErrors, NoKey, ShortKey
<1>8. CASE /\ Encrypted /\ tr.mode = ModeAESCBCDerived /\ tr.counter = <<>>
           /\ Refuse({"ErrInvalidFrame"})
  BY <1>3, <1>8, RefuseIllegal
<1>9. CASE /\ Encrypted /\ Key \notin {NoKey, ShortKey}
           /\ Slice(plain, 0, 2) # <<fillerByte, fillerByte>> /\ Refuse({"ErrDecrypt"})
  BY <1>1, <1>3, <1>4, <1>9, RefuseToOpen DEF KeyErrors
<1>10. CASE /\ Encrypted /\ Slice(plain, 0, 2) = <<fillerByte, fillerByte>>
            /\ tr' = [tr EXCEPT !.data = plain \o rest] /\ turn' = "application" /\ case' = case
  <2>1. plain = case.lock.plain
    BY <1>4, <1>10
  <2>2. tr'.data = plain \o rest /\ tr'.address = case.meter
    BY <1>1, <1>10 DEF SliceInv, HeaderIsRead, HeaderIsSent
  <2> QED
    BY <1>3, <1>10, <2>1, <2>2 DEF LayerInv
<1> QED
  BY <1>2, <1>5, <1>6, <1>7, <1>8, <1>9, <1>10

\* The parts of what is put together.
LEMMA ConcatParts ==
    \A s, t \in Seq(Byte) : \A m, n :
        m = Len(s) /\ n = Len(s) + Len(t) =>
            /\ Slice(s \o t, m, n) = t
            /\ \A from, to \in Nat :
                 from < to /\ to <= m => Slice(s \o t, from, to) = Slice(s, from, to)
<1> SUFFICES ASSUME NEW s \in Seq(Byte), NEW t \in Seq(Byte), NEW m, NEW n,
                    m = Len(s), n = Len(s) + Len(t)
             PROVE  /\ Slice(s \o t, m, n) = t
                    /\ \A from, to \in Nat :
                         from < to /\ to <= m => Slice(s \o t, from, to) = Slice(s, from, to)
  OBVIOUS
<1>1. Slice(s \o t, m, n) = t
  <2>1. CASE Len(t) = 0
    <3>1. t = <<>> /\ n = m /\ m \in Int
      BY <2>1
    <3> QED
      BY <3>1, EmptySlice
  <2>2. CASE Len(t) # 0
    <3>1. /\ m + 1 \in Len(s) + 1..Len(s) + Len(t) /\ n \in Len(s) + 1..Len(s) + Len(t)
          /\ (m + 1) - Len(s) = 1 /\ n - Len(s) = Len(t)
      BY <2>2
    <3>2. SubSeq(s \o t, m + 1, n) = SubSeq(t, (m + 1) - Len(s), n - Len(s))
      BY <3>1, SubSeqOfConcat2
    <3>3. SubSeq(t, 1, Len(t)) = t
      BY SubSeqFull
    <3> QED
      BY <3>1, <3>2, <3>3, Zenon DEF Slice
  <2> QED
    BY <2>1, <2>2
<1>2. ASSUME NEW from \in Nat, NEW to \in Nat, from < to, to <= m
      PROVE  Slice(s \o t, from, to) = Slice(s, from, to)
  <2>1. from + 1 \in 1..Len(s) /\ to \in 1..Len(s)
    BY <1>2
  <2> QED
    BY <2>1, SubSeqOfConcat1, Zenon DEF Slice
<1> QED
  BY <1>1, <1>2

\* The parts of an address whose number is replaced.
LEMMA AddressParts ==
    ASSUME NEW a \in Sized(2), NEW b \in Sized(4), NEW c \in Sized(2)
    PROVE  /\ Slice(a \o b \o c, 0, 2) = a /\ Slice(a \o b \o c, 2, 6) = b
           /\ Slice(a \o b \o c, 6, 8) = c
<1>1. /\ 2 + 4 = 6 /\ 6 + 2 = 8 /\ 0 \in Nat /\ 2 \in Nat /\ 4 \in Nat /\ 6 \in Nat
      /\ 0 < 2 /\ 2 < 6 /\ 2 <= 6 /\ 6 <= 6 /\ 2 <= 2
  OBVIOUS
<1>2. /\ a \in Seq(Byte) /\ b \in Seq(Byte) /\ c \in Seq(Byte)
      /\ Len(a) = 2 /\ Len(b) = 4 /\ Len(c) = 2
  BY DEF Sized
<1> DEFINE ab == a \o b
<1>3. ab \in Seq(Byte) /\ Len(ab) = 6
  <2>1. ab \in Sized(2 + 4)
    BY <1>1, SizedConcat
  <2> QED
    BY <1>1, <2>1, Zenon DEF Sized
<1>4. Slice(ab, 2, 6) = b /\ Slice(ab, 0, 2) = Slice(a, 0, 2)
  <2>1. 2 = Len(a) /\ 6 = Len(a) + Len(b)
    BY <1>2
  <2> QED
    <3>1. \A m, n : m = Len(a) /\ n = Len(a) + Len(b) =>
            /\ Slice(ab, m, n) = b
            /\ \A from, to \in Nat :
                 from < to /\ to <= m => Slice(ab, from, to) = Slice(a, from, to)
      BY <1>2, ConcatParts, Zenon
    <3> HIDE DEF ab
    <3>2. /\ Slice(ab, 2, 6) = b
          /\ \A from, to \in Nat : from < to /\ to <= 2 => Slice(ab, from, to) = Slice(a, from, to)
      BY <2>1, <3>1, Zenon
    <3> QED
      BY <1>1, <3>2, Zenon
<1>5. Slice(a, 0, 2) = a
  BY <1>2, WholeSlice
<1> HIDE DEF ab
<1>6. /\ Slice(ab \o c, 6, 8) = c
      /\ Slice(ab \o c, 2, 6) = Slice(ab, 2, 6) /\ Slice(ab \o c, 0, 2) = Slice(ab, 0, 2)
  <2>1. 6 = Len(ab) /\ 8 = Len(ab) + Len(c)
    BY <1>2, <1>3
  <2> QED
    <3>1. \A m, n : m = Len(ab) /\ n = Len(ab) + Len(c) =>
            /\ Slice(ab \o c, m, n) = c
            /\ \A from, to \in Nat :
                 from < to /\ to <= m => Slice(ab \o c, from, to) = Slice(ab, from, to)
      BY <1>2, <1>3, ConcatParts, Zenon
    <3>2. /\ Slice(ab \o c, 6, 8) = c
          /\ \A from, to \in Nat :
               from < to /\ to <= 6 => Slice(ab \o c, from, to) = Slice(ab, from, to)
      BY <2>1, <3>1, Zenon
    <3> QED
      BY <1>1, <3>2, Zenon
<1> QED
  BY <1>4, <1>5, <1>6 DEF ab

LEMMA ApplicationLayers ==
    ASSUME SliceInv, LinkInv, LayerInv, DecodeApplication
    PROVE  LayerInv'
<1>1. /\ turn = "application" /\ tr.address = case.meter /\ tr.data = case.clear
      /\ tr.address \in Seq(Byte) /\ Len(tr.address) = 8
  BY DEF DecodeApplication, LayerInv, SliceInv, HeaderIsRead
<1> DEFINE zeroed == Slice(tr.address, 0, 2) \o <<0, 0, 0, 0>> \o Slice(tr.address, 6, 8)
<1>2. \/ ~case.legal /\ Refuse({"ErrInvalidFrame"})
      \/ /\ case.legal /\ turn' = "done" /\ case' = case
         /\ tr' = [tr EXCEPT !.address = IF IsBCD(Ident) THEN tr.address ELSE zeroed]
  BY <1>1 DEF DecodeApplication
<1>3. /\ Slice(zeroed, 0, 2) = Slice(tr.address, 0, 2) /\ Slice(zeroed, 2, 6) = <<0, 0, 0, 0>>
      /\ Slice(zeroed, 6, 8) = Slice(tr.address, 6, 8)
  <2>1. Slice(tr.address, 0, 2) \in Sized(2)
    <3>1. Slice(tr.address, 0, 2) \in Seq(Byte) /\ Len(Slice(tr.address, 0, 2)) = 2
      BY <1>1, SliceFits DEF Slice
    <3> QED
      BY <3>1 DEF Sized
  <2>2. Slice(tr.address, 6, 8) \in Sized(2)
    <3>1. Slice(tr.address, 6, 8) \in Seq(Byte) /\ Len(Slice(tr.address, 6, 8)) = 2
      BY <1>1, SliceFits DEF Slice
    <3> QED
      BY <3>1 DEF Sized
  <2>3. <<0, 0, 0, 0>> \in Sized(4)
    BY DEF Sized, Byte
  <2> QED
    BY <2>1, <2>2, <2>3, AddressParts
<1> HIDE DEF zeroed
<1>4. CASE ~case.legal /\ Refuse({"ErrInvalidFrame"})
  BY <1>4, RefuseIllegal
<1>5. CASE /\ case.legal /\ turn' = "done" /\ case' = case
           /\ tr' = [tr EXCEPT !.address = IF IsBCD(Ident) THEN tr.address ELSE zeroed]
  <2>1. tr'.address = (IF IsBCD(Ident) THEN tr.address ELSE zeroed) /\ tr'.data = case.clear
    BY <1>1, <1>5 DEF SliceInv, HeaderIsRead
  <2>2. Ident = Slice(case.meter, 2, 6)
    BY <1>1 DEF Ident
  <2>3. NoWrongReading'
    <3>1. CASE IsBCD(Ident)
      BY <1>1, <1>5, <2>1, <2>2, <3>1 DEF NoWrongReading, Ident, IsBCD
    <3>2. CASE ~IsBCD(Ident)
      BY <1>1, <1>3, <1>5, <2>1, <2>2, <3>2 DEF NoWrongReading, Ident, IsBCD
    <3> QED
      BY <3>1, <3>2
  <2> QED
    BY <1>5, <2>3 DEF LayerInv
<1> QED
  BY <1>2, <1>4, <1>5

LEMMA NextLayers ==
    ASSUME SliceInv, LinkInv, LinkInv', LayerInv, LayersAreSent, DamageShows,
           [WirelessNext]_wirelessVars
    PROVE  LayerInv'
<1>1. CASE UNCHANGED wirelessVars
  BY <1>1 DEF wirelessVars, LayerInv, AtLayer, HeaderIsSent, LastLayer, HeaderAt, Sent, N, raw,
     NoWrongReading, IntactIsDecoded, HasKeyOfMeter, FromMeter, Key, Ident, IsBCD
<1> QED
  BY <1>1, LinkLayers, OtherLayers, ExtendedLinkLayers, AuthLayers, NoHeaderLayers, HeaderLayers,
     DecryptLayers, ApplicationLayers
  DEF WirelessNext

LEMMA ReadInv == WirelessSpec => []LayerInv
<1>1. BytesComeIn /\ DamageShows /\ LayersAreSent
  BY ReceivedAssumption, CRCAssumption, LayersAssumption
<1>2. WirelessInit => LayerInv
  BY <1>1, InitLayers
<1>3. SliceInv /\ LinkInv /\ LinkInv' /\ LayerInv /\ [WirelessNext]_wirelessVars => LayerInv'
  BY <1>1, NextLayers
<1> QED
  BY <1>2, <1>3, WirelessInv, PTL DEF WirelessSpec

\* A telegram that decodes gives the data its meter sent, under that meter's
\* address, whatever the layers in front and whatever key was used: a wrong key
\* is an error and never a reading (wmbus/doc.go 66-70).
THEOREM NoReadingIsWrong == WirelessSpec => []NoWrongReading
<1>1. SliceInv /\ LayerInv => NoWrongReading
  BY DEF LayerInv, NoWrongReading
<1> QED
  BY <1>1, WirelessInv, ReadInv, PTL

\* What was sent by the book and arrives whole is decoded by who has the key, and
\* is refused to the others for want of that key alone (transport.go 90-157).
THEOREM WholeIsDecoded == WirelessSpec => []IntactIsDecoded
<1>1. LayerInv => IntactIsDecoded
  BY DEF LayerInv, IntactIsDecoded
<1> QED
  BY <1>1, ReadInv, PTL
=============================================================================
