------------------------ MODULE ScanSecondaryProofs ------------------------
(***************************************************************************)
(* What the search finds, for any meters, numbers, sizes, cuts, faults and *)
(* failures, of meters that are prompt, as long as no probe returns before *)
(* its answer has all been read.                                           *)
(* The numbers below the mask, in the order of their digits, are those the *)
(* search has passed; a meter is found under a mask it matches, so when it *)
(* is found it has not been passed, and from then on it has.  On a bus no  *)
(* fault hit the converse holds, too: whoever is passed has been found, or *)
(* has a twin.                                                             *)
(***************************************************************************)
EXTENDS ScanSecondary, ClientProofs, FiniteSetTheorems, FunctionTheorems,
    WellFoundedInduction

Probing == {"none", "probeSilence", "probeResponse"}

\* Every variable has its type, and a call is in progress only where the search
\* waits for one.
SearchTypeOK ==
    /\ ClientTypeOK
    /\ outbox \in Seq(Seq(Byte)) /\ faults \in Nat
    /\ selected \in SUBSET Meters
    /\ step \in {"select", "selecting", "request", "requesting", "over"}
    /\ mask \in Seq(0..MaxDigit) /\ Len(mask) <= secondaryDigits
    /\ found \in Seq(Meters)
    /\ op \in Probing
    /\ op = "none" => at = "look"
    /\ op # "none" => step \in {"selecting", "requesting"}
    /\ clean \in BOOLEAN

-----------------------------------------------------------------------------
(* What an answer is heard as                                              *)

\* Nothing is under way, and nothing will come.
Fresh == Quiet /\ Starved(buf)

\* No byte is read any more: the context is over, or the transport is.
Deaf ==
    /\ Starved(buf)
    /\ ctx # "live" \/ (conn # "up" /\ line = <<>>)

\* The meters selected have not yet sent their answer.
Waiting ==
    /\ op # "none" /\ ~late
    /\ line = <<>> /\ Starved(buf)
    /\ outbox # <<>> /\ Tail(outbox) = <<>>
    /\ step = "requesting" => \E m \in selected : Part(Head(outbox), m)

\* They have, and the probe reads it.
Arriving ==
    /\ op # "none" /\ outbox = <<>>
    /\ late => line = <<>>
    /\ at = "fill" => Starved(buf)
    /\ step = "requesting" => \E m \in selected, n \in 0..Len(buf) : Reply(n, m)

Accounted ==
    IF op # "none" THEN Fresh \/ Deaf \/ (selected = Matching(mask) /\ (Waiting \/ Arriving))
    ELSE Fresh \/ Deaf \/ (step = "selecting" /\ Quiet /\ ret.err = {})

\* Who answers has been selected by this mask.
HeardInv ==
    /\ step = "selecting" /\ op = "none" /\ ret.err = {} => selected = Matching(mask)
    /\ step \in {"request", "requesting"} => selected = Matching(mask)
    /\ step = "requesting" /\ op = "none" /\ ret.err = {} => ret.msg \in selected
    /\ step # "over" => Accounted

-----------------------------------------------------------------------------
(* The order of the search                                                 *)

\* The search is past the number of m.
Passed(m) ==
    \E k \in 1..Len(mask) :
        Id[m][k] < mask[k] /\ \A j \in 1..k - 1 : Id[m][j] = mask[j]

OrderInv ==
    /\ step # "over" => \A i \in 1..Len(found) : Passed(found[i])
    /\ \A i, j \in 1..Len(found) : found[i] = found[j] => i = j

SearchInv == SearchTypeOK /\ (clean => HeardInv /\ OrderInv)

-----------------------------------------------------------------------------
(* A search on a sound bus                                                 *)

\* The frames are legal, and what several acknowledgements arrive as is not a start
\* of a frame.
Legal == \A m \in Meters : Size[m] >= MinSize
Telling == \A q \in Overlaps : ~Starved(q)

Sound == err = {} /\ faults = 0 /\ ctx = "live" /\ conn = "up"

Void == outbox = <<>> /\ line = <<>> /\ buf = <<>>

\* There is nothing to be read but q, of which a part may be buffered.
Only(q) ==
    \/ outbox = <<q>> /\ line = <<>> /\ buf = <<>> /\ ~late
    \/ /\ outbox = <<>> /\ buf \o line = q
       /\ late => line = <<>>
       /\ at = "fill" => Starved(buf)

Coming(T) ==
    \/ selected = {} /\ Void
    \/ selected # {} /\ \E q \in T : Only(q)

\* The search has found the meters it has passed.
SoundOrder ==
    \A m \in Meters \ Headless :
        ~Twin(m) /\ (step = "over" \/ Passed(m)) => m \in Found

SoundPlaces ==
    /\ step \in {"select", "request"} => Void
    /\ step = "selecting" /\ op # "none" =>
           selected = Matching(mask) /\ Coming(Acks(selected))
    /\ step = "requesting" /\ op # "none" => Coming(Data(selected))
    /\ step = "selecting" /\ op = "none" =>
           /\ selected = Matching(mask) /\ outbox = <<>> /\ line = <<>>
           /\ ret.err # {} => buf = <<>>
           /\ "ErrReadTimeout" \in ret.err => selected = {}
           /\ Cardinality(selected) = 1 => ret.err = {} /\ ret.msg = Ack /\ buf = <<>>
    /\ step = "requesting" /\ op = "none" =>
           /\ Void
           /\ ret.err = {} => selected = {ret.msg}
           /\ ret.err # {} => Cardinality(selected) # 1

SoundInv == Sound /\ clean => SoundOrder /\ SoundPlaces

-----------------------------------------------------------------------------
(* Numbers and masks                                                       *)

\* A set of naturals has a least element.
LEMMA Lowest ==
    ASSUME NEW T \in SUBSET Nat, T # {}
    PROVE  \E x \in T : \A y \in T : x <= y
<1>1. \E x \in T : \A y \in T : ~(<<y, x>> \in OpToRel(<, Nat))
  BY WFMin, NatLessThanWellFounded, Zenon
<1>2. PICK x \in T : \A y \in T : ~(<<y, x>> \in OpToRel(<, Nat))
  BY <1>1
<1>3. ASSUME NEW y \in T PROVE ~(y < x)
  BY <1>2 DEF OpToRel
<1> QED
  BY <1>3

\* One that is bounded has a greatest.
LEMMA Highest ==
    ASSUME NEW S \in SUBSET Nat, S # {}, NEW n \in Nat, \A i \in S : i <= n
    PROVE  \E i \in S : \A j \in S : j <= i
<1> DEFINE T == {n - i : i \in S}
<1>1. \A i \in S : i \in Nat /\ n - i \in Nat /\ n - i \in T
  OBVIOUS
<1>2. T \in SUBSET Nat /\ T # {}
  BY <1>1
<1>3. PICK x \in T : \A y \in T : x <= y
  BY <1>2, Lowest
<1>4. PICK i \in S : x = n - i
  BY <1>3
<1>5. ASSUME NEW j \in S PROVE j <= i
  <2>1. n - i <= n - j
    BY <1>1, <1>3, <1>4
  <2> QED
    BY <1>1, <2>1
<1> QED
  BY <1>5

\* A number has secondaryDigits digits.
LEMMA NumberLemma ==
    ASSUME NEW m \in Meters
    PROVE  /\ Len(Id[m]) = secondaryDigits /\ secondaryDigits \in Nat /\ MaxDigit \in Nat
           /\ Id[m] \in Seq(0..MaxDigit)
           /\ \A j \in 1..secondaryDigits : Id[m][j] \in 0..MaxDigit
<1>1. /\ Id[m] \in [1..secondaryDigits -> 0..MaxDigit]
      /\ secondaryDigits \in Nat /\ MaxDigit \in Nat
  BY ScanSecondaryAssumption
<1>2. Id[m] \in Seq(0..MaxDigit)
  BY <1>1, SeqDef
<1>3. Len(Id[m]) \in Nat /\ 1..Len(Id[m]) = 1..secondaryDigits
  BY <1>1, <1>2, LenProperties
<1>4. Len(Id[m]) = secondaryDigits
  BY <1>1, <1>3
<1> QED
  BY <1>1, <1>2, <1>4

MaskOK == mask \in Seq(0..MaxDigit) /\ Len(mask) <= secondaryDigits

LEMMA MaskLemma ==
    ASSUME MaskOK
    PROVE  /\ Len(mask) \in Nat
           /\ \A j \in 1..Len(mask) : mask[j] \in 0..MaxDigit
  BY LenProperties, ElementOfSeq DEF MaskOK

\* A number matches the mask if it has its digits.
LEMMA MatchesLemma ==
    ASSUME MaskOK, NEW m \in Meters
    PROVE  Matches(mask, m) <=> \A j \in 1..Len(mask) : Id[m][j] = mask[j]
<1> DEFINE p == SubSeq(Id[m], 1, Len(mask))
<1>1. /\ Len(mask) \in Nat /\ mask \in Seq(0..MaxDigit) /\ Len(mask) <= Len(Id[m])
      /\ Id[m] \in Seq(0..MaxDigit) /\ Len(mask) \in 0..Len(Id[m])
  BY NumberLemma, MaskLemma DEF MaskOK
<1>2. /\ p \in Seq(0..MaxDigit) /\ Len(p) = Len(mask)
      /\ \A j \in 1..Len(mask) : p[j] = Id[m][j]
  BY <1>1, PrefixLemma
<1> HIDE DEF p
<1>3. p = mask <=> \A j \in 1..Len(mask) : p[j] = mask[j]
  BY <1>1, <1>2, SeqEqual
<1>4. Matches(mask, m) <=> p = mask
  BY <1>1 DEF Matches, p
<1> QED
  BY <1>2, <1>3, <1>4

\* Where the digits behind the i-th are the last there are, a number that has those up
\* to it matches the mask or has been passed.
LEMMA FirstDifference ==
    ASSUME MaskOK, NEW m \in Meters, NEW i \in 0..Len(mask),
           \A j \in 1..i : Id[m][j] = mask[j],
           \A j \in i + 1..Len(mask) : mask[j] = MaxDigit
    PROVE  Matches(mask, m) \/ Passed(m)
<1> DEFINE T == {j \in 1..Len(mask) : Id[m][j] # mask[j]}
<1>1. /\ Len(mask) \in Nat /\ secondaryDigits \in Nat /\ MaxDigit \in Nat
      /\ \A j \in 1..Len(mask) : Id[m][j] \in 0..MaxDigit
  BY MaskLemma, NumberLemma DEF MaskOK
<1>2. CASE T = {}
  BY <1>2, MatchesLemma
<1>3. CASE T # {}
  <2>1. T \in SUBSET Nat
    BY <1>1
  <2>2. PICK k \in T : \A j \in T : k <= j
    BY <1>3, <2>1, Lowest
  <2>3. k \in i + 1..Len(mask) /\ k \in 1..Len(mask)
    BY <1>1, <2>2
  <2>4. Id[m][k] < mask[k]
    BY <1>1, <2>2, <2>3
  <2>5. \A j \in 1..k - 1 : Id[m][j] = mask[j]
    BY <1>1, <2>2, <2>3
  <2> QED
    BY <2>3, <2>4, <2>5 DEF Passed
<1> QED
  BY <1>2, <1>3

\* A number that has been passed does not match the mask.
LEMMA PassedIsNoMatch ==
    ASSUME MaskOK, NEW m \in Meters, Passed(m)
    PROVE  ~Matches(mask, m)
<1>1. PICK k \in 1..Len(mask) : Id[m][k] < mask[k]
  BY DEF Passed
<1>2. mask[k] \in Nat /\ Id[m][k] \in Nat
  BY <1>1, MaskLemma, NumberLemma DEF MaskOK
<1>3. Id[m][k] # mask[k]
  BY <1>1, <1>2
<1> QED
  BY <1>3, MatchesLemma

\* The next digit passes the numbers that match the mask, and no others.
LEMMA NextDigitLemma ==
    ASSUME MaskOK, NextDigit
    PROVE  /\ step' \in {"select", "over"} /\ MaskOK'
           /\ \A m \in Meters : step' # "over" /\ (Passed(m) \/ Matches(mask, m)) => Passed(m)'
           /\ \A m \in Meters : step' = "over" \/ Passed(m)' => Passed(m) \/ Matches(mask, m)
<1>1. /\ Len(mask) \in Nat /\ secondaryDigits \in Nat /\ MaxDigit \in Nat
      /\ \A j \in 1..Len(mask) : mask[j] \in 0..MaxDigit
  BY MaskLemma, ScanSecondaryAssumption
<1>2. CASE Open = {}
  <2>1. step' = "over" /\ mask' = <<>>
    BY <1>2 DEF NextDigit
  <2>2. MaskOK'
    BY <1>1, <2>1, EmptySeq DEF MaskOK
  <2>3. \A j \in 0 + 1..Len(mask) : mask[j] = MaxDigit
    BY <1>1, <1>2 DEF Open
  <2>4. 0 \in 0..Len(mask) /\ \A m : \A j \in 1..0 : Id[m][j] = mask[j]
    BY <1>1
  <2>5. \A m \in Meters : Passed(m) \/ Matches(mask, m)
    BY <2>3, <2>4, FirstDifference
  <2> QED
    BY <2>1, <2>2, <2>5
<1>3. CASE Open # {}
  <2> DEFINE i == CHOOSE i \in Open : \A j \in Open : j <= i
  <2>1. Open \in SUBSET Nat /\ \A j \in Open : j <= Len(mask)
    BY <1>1 DEF Open
  <2>2. i \in Open /\ \A j \in Open : j <= i
    BY <1>1, <1>3, <2>1, Highest
  <2>3. step' = "select" /\ mask' = [SubSeq(mask, 1, i) EXCEPT ![i] = @ + 1]
    BY <1>3 DEF NextDigit
  <2> HIDE DEF i
  <2>4. i \in 1..Len(mask) /\ mask[i] < MaxDigit /\ i \in 0..Len(mask)
    BY <1>1, <2>2 DEF Open
  <2>5. /\ SubSeq(mask, 1, i) \in Seq(0..MaxDigit) /\ Len(SubSeq(mask, 1, i)) = i
        /\ \A j \in 1..i : SubSeq(mask, 1, i)[j] = mask[j]
    BY <2>4, PrefixLemma DEF MaskOK
  <2>6. /\ mask' \in Seq(0..MaxDigit) /\ Len(mask') = i /\ mask'[i] = mask[i] + 1
        /\ \A j \in 1..i - 1 : mask'[j] = mask[j]
    <3>1. SubSeq(mask, 1, i)[i] + 1 = mask[i] + 1 /\ mask[i] + 1 \in 0..MaxDigit
      BY <1>1, <2>4, <2>5
    <3>2. mask' = [SubSeq(mask, 1, i) EXCEPT ![i] = mask[i] + 1] /\ i \in 1..Len(SubSeq(mask, 1, i))
      BY <2>3, <2>4, <2>5, <3>1
    <3> DEFINE s == SubSeq(mask, 1, i)
               d == mask[i] + 1
    <3>3. /\ s \in Seq(0..MaxDigit) /\ Len(s) = i /\ i \in 1..Len(s) /\ d \in 0..MaxDigit
          /\ mask' = [s EXCEPT ![i] = d] /\ \A j \in 1..i : s[j] = mask[j]
      BY <2>4, <2>5, <3>1, <3>2
    <3> HIDE DEF s, d
    <3>4. /\ mask' \in Seq(0..MaxDigit) /\ Len(mask') = Len(s) /\ mask'[i] = d
          /\ \A j \in 1..Len(s) : j # i => mask'[j] = s[j]
      BY <3>3, ExceptSeq
    <3>5. \A j \in 1..i - 1 : j \in 1..Len(s) /\ j # i /\ j \in 1..i
      BY <1>1, <2>4, <3>3
    <3> QED
      BY <3>3, <3>4, <3>5 DEF d
  <2>7. MaskOK'
    BY <1>1, <2>4, <2>6 DEF MaskOK
  <2>8. \A j \in i + 1..Len(mask) : mask[j] = MaxDigit
    BY <1>1, <2>2, <2>4 DEF Open
  <2>9. ASSUME NEW m \in Meters
        PROVE  Passed(m)' <=> Passed(m) \/ Matches(mask, m)
    <3>1. /\ \A j \in 1..Len(mask) : Id[m][j] \in 0..MaxDigit
          /\ mask[i] \in 0..MaxDigit
      BY <1>1, <2>4, NumberLemma DEF MaskOK
    <3>2. Passed(m)' <=>
            \E k \in 1..i : Id[m][k] < mask'[k] /\ \A j \in 1..k - 1 : Id[m][j] = mask'[j]
      BY <2>6 DEF Passed
    <3>3. ASSUME NEW k \in 1..Len(mask), Id[m][k] < mask[k],
                 \A j \in 1..k - 1 : Id[m][j] = mask[j]
          PROVE  Passed(m)'
      <4>1. CASE k < i
        <5>1. k \in 1..i - 1 /\ k \in 1..i /\ \A j \in 1..k - 1 : j \in 1..i - 1
          BY <2>4, <4>1
        <5> QED
          BY <2>6, <3>2, <3>3, <5>1
      <4>2. CASE k >= i
        <5>1. Id[m][i] < mask[i] + 1
          BY <2>4, <3>1, <3>3, <4>2
        <5>2. \A j \in 1..i - 1 : Id[m][j] = mask[j]
          BY <2>4, <3>3, <4>2
        <5> QED
          BY <2>4, <2>6, <3>2, <5>1, <5>2
      <4> QED
        BY <2>4, <4>1, <4>2
    <3>4. ASSUME Matches(mask, m) PROVE Passed(m)'
      <4>1. \A j \in 1..Len(mask) : Id[m][j] = mask[j]
        BY <3>4, MatchesLemma
      <4>2. Id[m][i] < mask[i] + 1 /\ \A j \in 1..i - 1 : Id[m][j] = mask[j]
        BY <1>1, <2>4, <3>1, <4>1
      <4> QED
        BY <2>4, <2>6, <3>2, <4>2
    <3>5. ASSUME NEW k \in 1..i, Id[m][k] < mask'[k],
                 \A j \in 1..k - 1 : Id[m][j] = mask'[j]
          PROVE  Passed(m) \/ Matches(mask, m)
      <4>1. \A j \in 1..k - 1 : Id[m][j] = mask[j]
        BY <2>4, <2>6, <3>5
      <4>2. CASE Id[m][k] < mask[k]
        BY <2>4, <4>1, <4>2 DEF Passed
      <4>3. CASE ~(Id[m][k] < mask[k])
        <5>1. k = i
          BY <2>4, <2>6, <3>5, <4>3
        <5>2. Id[m][i] = mask[i]
          BY <1>1, <2>4, <2>6, <3>1, <3>5, <4>3, <5>1
        <5>3. \A j \in 1..i : Id[m][j] = mask[j]
          BY <2>4, <4>1, <5>1, <5>2
        <5> QED
          BY <2>4, <2>8, <5>3, FirstDifference
      <4> QED
        BY <4>2, <4>3
    <3> QED
      BY <3>2, <3>3, <3>4, <3>5 DEF Passed
  <2> QED
    BY <2>3, <2>7, <2>9
<1> QED
  BY <1>2, <1>3

\* A digit more passes nobody, if there is one to fix.
LEMMA NarrowLemma ==
    ASSUME MaskOK, Narrow
    PROVE  \/ /\ Len(mask) = secondaryDigits /\ NextDigit
           \/ /\ step' = "select" /\ MaskOK'
              /\ \A m \in Meters : Passed(m)' <=> Passed(m)
<1>1. /\ Len(mask) \in Nat /\ secondaryDigits \in Nat /\ MaxDigit \in Nat
      /\ mask \in Seq(0..MaxDigit)
  BY MaskLemma, ScanSecondaryAssumption DEF MaskOK
<1>2. CASE Len(mask) >= secondaryDigits
  BY <1>1, <1>2 DEF Narrow, MaskOK
<1>3. CASE ~(Len(mask) >= secondaryDigits)
  <2>1. step' = "select" /\ mask' = Append(mask, 0)
    BY <1>3 DEF Narrow
  <2>2. /\ mask' \in Seq(0..MaxDigit) /\ Len(mask') = Len(mask) + 1
        /\ \A j \in 1..Len(mask) : mask'[j] = mask[j]
        /\ mask'[Len(mask) + 1] = 0
    BY <1>1, <2>1, AppendProperties
  <2>3. MaskOK'
    BY <1>1, <1>3, <2>2 DEF MaskOK
  <2>4. ASSUME NEW m \in Meters PROVE Passed(m)' <=> Passed(m)
    <3>1. Len(mask) + 1 \in 1..secondaryDigits
      BY <1>1, <1>3
    <3>2. ~(Id[m][Len(mask) + 1] < 0)
      BY <1>1, <3>1, NumberLemma
    <3>3. ASSUME NEW k \in 1..Len(mask)
          PROVE  /\ mask'[k] = mask[k]
                 /\ \A j \in 1..k - 1 : mask'[j] = mask[j]
      BY <1>1, <2>2
    <3>4. Passed(m)' <=> \E k \in 1..Len(mask) + 1 :
              Id[m][k] < mask'[k] /\ \A j \in 1..k - 1 : Id[m][j] = mask'[j]
      BY <2>2 DEF Passed
    <3>5. \A k \in 1..Len(mask) + 1 : k \in 1..Len(mask) \/ k = Len(mask) + 1
      BY <1>1
    <3>6. 1..Len(mask) \subseteq 1..Len(mask) + 1
      BY <1>1
    <3>7. Passed(m)' <=> \E k \in 1..Len(mask) :
              Id[m][k] < mask'[k] /\ \A j \in 1..k - 1 : Id[m][j] = mask'[j]
      BY <2>2, <3>2, <3>4, <3>5, <3>6
    <3> QED
      BY <3>3, <3>7 DEF Passed
  <2> QED
    BY <2>1, <2>3, <2>4
<1> QED
  BY <1>2, <1>3

-----------------------------------------------------------------------------
(* What the meters send                                                    *)

\* The data of several meters arrive as those of one, the last byte spoiled.
Spoiled(m) == SubSeq(Bytes(m), 1, Size[m] - 1) \o <<Junk>>

LEMMA SpoiledLemma ==
    ASSUME NEW m \in Meters
    PROVE  /\ m \in LongMsg /\ Size[m] \in Nat /\ Size[m] > HeadLen /\ HeadLen \in Nat \ {0}
           /\ Spoiled(m) \in Seq(Byte) /\ Len(Spoiled(m)) = Size[m]
           /\ \A i \in 1..Size[m] - 1 : Spoiled(m)[i] = <<m, i>>
           /\ Spoiled(m)[Size[m]] = Junk
<1> DEFINE s == SubSeq(Bytes(m), 1, Size[m] - 1)
           j == <<Junk>>
<1>1. /\ m \in LongMsg /\ m \in Msg /\ Size[m] \in Nat /\ Size[m] > HeadLen
      /\ HeadLen \in Nat \ {0}
  BY SelectionAssumption, ClientAssumption DEF LongMsg
<1>2. j \in Seq(Byte) /\ Len(j) = 1 /\ j[1] = Junk
  <2>1. Junk \in Byte /\ <<Junk>> = Append(<<>>, Junk) /\ <<>> \in Seq(Byte)
    BY AppendProperties, EmptySeq DEF Byte
  <2> QED
    BY <2>1, AppendProperties
<1>3. Size[m] - 1 \in 0..Len(Bytes(m)) /\ Bytes(m) \in Seq(Byte)
  BY <1>1, BytesLemma
<1>4. s \in Seq(Byte) /\ Len(s) = Size[m] - 1 /\ \A i \in 1..Size[m] - 1 : s[i] = Bytes(m)[i]
  BY <1>3, PrefixLemma
<1>5. Spoiled(m) = s \o j
  BY DEF Spoiled
<1> HIDE DEF s, j
<1>6. /\ s \o j \in Seq(Byte) /\ Len(s \o j) = Len(s) + Len(j)
      /\ \A i \in 1..Len(s) + Len(j) : (s \o j)[i] = IF i <= Len(s) THEN s[i] ELSE j[i - Len(s)]
  BY <1>2, <1>4, ConcatProperties
<1>7. PICK z \in Nat : z = Size[m] /\ z > HeadLen
  BY <1>1
<1>8. Len(s) = z - 1 /\ Len(j) = 1 /\ Len(s) + Len(j) = z /\ z >= 1
  BY <1>1, <1>2, <1>4, <1>7
<1>9. ASSUME NEW i \in 1..z - 1 PROVE Spoiled(m)[i] = <<m, i>>
  <2>1. i \in 1..z /\ i <= z - 1
    BY <1>8
  <2>2. (s \o j)[i] = s[i] /\ s[i] = Bytes(m)[i] /\ Bytes(m)[i] = <<m, i>>
    BY <1>1, <1>4, <1>6, <1>7, <1>8, <2>1, BytesLemma
  <2> QED
    BY <1>5, <2>2
<1>10. Spoiled(m)[z] = Junk
  <2>1. z \in 1..z /\ ~(z <= z - 1) /\ z - (z - 1) = 1
    BY <1>8
  <2> QED
    BY <1>2, <1>5, <1>6, <1>8, <2>1
<1> QED
  BY <1>1, <1>5, <1>6, <1>7, <1>8, <1>9, <1>10

\* Several acknowledgements arrive as bytes, data as bytes of one of the meters.
LEMMA SentLemma ==
    ASSUME NEW S \in SUBSET Meters
    PROVE  /\ Acks(S) \subseteq Seq(Byte) /\ Data(S) \subseteq Seq(Byte)
           /\ \A q \in Data(S) : q = <<>> \/ \E m \in S : Part(q, m)
<1>1. S \subseteq Msg /\ Ack \in Msg /\ <<>> \in Seq(Byte)
  BY SelectionAssumption, ClientAssumption, EmptySeq
<1>2. Overlaps \subseteq Seq(Byte)
  <2>1. <<Ack, 1>> \in Wire
    <3>1. 1 \in 1..Size[Ack]
      BY ClientAssumption
    <3> QED
      BY <1>1, <3>1 DEF Wire
  <2>2. {<<Ack, 1>>, Junk} \subseteq Byte
    BY <2>1 DEF Byte
  <2> QED
    BY <2>2, SeqMonotonic, SelectionAssumption
<1>3. Acks(S) \subseteq Seq(Byte)
  BY <1>1, <1>2, BytesLemma DEF Acks
<1>4. ASSUME NEW m \in S
      PROVE  /\ Bytes(m) \in Seq(Byte) /\ Part(Bytes(m), m)
             /\ Spoiled(m) \in Seq(Byte) /\ Part(Spoiled(m), m)
  <2>1. Bytes(m) \in Seq(Byte) /\ Part(Bytes(m), m)
    BY <1>1, DamagedLemma
  <2>2. /\ Spoiled(m) \in Seq(Byte) /\ Len(Spoiled(m)) = Size[m] /\ Size[m] \in Nat
        /\ \A i \in 1..Size[m] - 1 : Spoiled(m)[i] = <<m, i>>
        /\ Spoiled(m)[Size[m]] = Junk
    BY SpoiledLemma
  <2>3. PICK z \in Nat : z = Size[m]
    BY <2>2
  <2>4. \A i \in 1..z : i \in 1..z - 1 \/ i = z
    OBVIOUS
  <2>5. \A i \in 1..Len(Spoiled(m)) : Spoiled(m)[i] \in {<<m, i>>, Junk}
    BY <2>2, <2>3, <2>4
  <2>6. Len(Spoiled(m)) <= Size[m]
    BY <2>2, <2>3
  <2> QED
    BY <2>1, <2>2, <2>5, <2>6 DEF Part
<1>5. Data(S) \subseteq Seq(Byte) /\ \A q \in Data(S) : q = <<>> \/ \E m \in S : Part(q, m)
  BY <1>1, <1>4 DEF Data, Spoiled
<1> QED
  BY <1>3, <1>5

\* An answer waits behind the others, or there is none.
LEMMA AnswersLemma ==
    ASSUME outbox \in Seq(Seq(Byte)), NEW T, T \subseteq Seq(Byte), Answers(T)
    PROVE  /\ outbox' \in Seq(Seq(Byte))
           /\ outbox = <<>> => \E s \in T : outbox' = IF s = <<>> THEN <<>> ELSE <<s>>
<1>1. PICK s \in T : outbox' = IF s = <<>> THEN outbox ELSE Append(outbox, s)
  BY DEF Answers
<1>2. Append(outbox, s) \in Seq(Seq(Byte))
  BY AppendProperties
<1>3. outbox = <<>> => Append(outbox, s) = <<s>>
  BY AppendProperties
<1> QED
  BY <1>1, <1>2, <1>3

-----------------------------------------------------------------------------
(* The types                                                               *)

LEMMA InitSearchType == Init => SearchTypeOK
<1> SUFFICES ASSUME Init PROVE SearchTypeOK
  OBVIOUS
<1>1. <<>> \in Seq(Byte) /\ <<>> \in Seq(Seq(Byte)) /\ <<>> \in Seq(Meters)
  BY EmptySeq
<1>2. NoResult \in Results
  BY DEF NoResult, Results
<1>3. secondaryDigits \in Nat \ {0} /\ MaxDigit \in Nat
  BY ScanSecondaryAssumption
<1>4. <<0>> \in Seq(0..MaxDigit) /\ Len(<<0>>) <= secondaryDigits
  <2>1. <<0>> = Append(<<>>, 0) /\ <<>> \in Seq(0..MaxDigit) /\ 0 \in 0..MaxDigit
    BY <1>3, EmptySeq, AppendProperties
  <2>2. <<0>> \in Seq(0..MaxDigit)
    BY <2>1, AppendProperties
  <2> QED
    BY <1>3, <2>2
<1> QED
  BY <1>1, <1>2, <1>4 DEF Init, ClientInit, BusInit, SearchTypeOK, ClientTypeOK, Probing

\* The mask keeps its type, whichever digit comes next.
LEMMA DigitType ==
    ASSUME SearchTypeOK, NextDigit \/ Narrow
    PROVE  step' \in {"select", "over"} /\ MaskOK'
<1>1. MaskOK
  BY DEF SearchTypeOK, MaskOK
<1> QED
  BY <1>1, NextDigitLemma, NarrowLemma

LEMMA NextSearchType == SearchTypeOK /\ [Next]_vars => SearchTypeOK'
<1> SUFFICES ASSUME SearchTypeOK, [Next]_vars PROVE SearchTypeOK'
  OBVIOUS
<1>0. ClientTypeOK /\ <<>> \in Seq(Byte) /\ <<>> \in Seq(Meters)
  BY EmptySeq DEF SearchTypeOK
<1>1. CASE Select
  <2>0. Call("probeSilence") /\ UNCHANGED ctx /\ step' = "selecting" /\ "probeSilence" \in Ops
    BY <1>1 DEF Select, SendSelect, Ops
  <2>1. ClientTypeOK' /\ op' = "probeSilence"
    BY <1>0, <2>0, CallType DEF Call
  <2>2. selected' \in SUBSET Meters /\ outbox' \in Seq(Seq(Byte))
    <3>1. CASE AnswerSelect(mask)
      <4>1. Matching(mask) \in SUBSET Meters
        BY DEF Matching
      <4> QED
        BY <3>1, <4>1, SentLemma, AnswersLemma DEF AnswerSelect, SearchTypeOK
    <3> QED
      BY <1>1, <3>1 DEF Select, SendSelect, SearchTypeOK
  <2>3. faults' \in Nat
    BY <1>1 DEF Select, SendSelect, Fault, SearchTypeOK
  <2> QED
    BY <1>1, <2>0, <2>1, <2>2, <2>3 DEF Select, SearchTypeOK, Probing
<1>2. CASE Selected
  <2>1. /\ op = "none" /\ UNCHANGED <<line, conn, ctx, op, at, late, ret, outbox, faults, selected>>
        /\ clean' = clean
        /\ buf' \in {buf, <<>>} /\ found' \in {found, <<>>}
        /\ \/ step' \in {"request", "over"} /\ mask' = mask
           \/ NextDigit \/ Narrow
    BY <1>2 DEF Selected, At, Responded, Silent, Collision, SelectFailed, Abort, clientButBuf,
       busVars
  <2>2. ClientTypeOK'
    BY <1>0, <2>1 DEF ClientTypeOK
  <2>3. step' \in {"select", "request", "over"} /\ MaskOK'
    BY <2>1, DigitType DEF SearchTypeOK, MaskOK
  <2> QED
    BY <1>0, <2>1, <2>2, <2>3 DEF SearchTypeOK, MaskOK
<1>3. CASE Request
  <2>0. Call("probeSilence") /\ UNCHANGED ctx /\ step' = "requesting" /\ "probeSilence" \in Ops
    BY <1>3 DEF Request, Ops
  <2>1. ClientTypeOK' /\ op' = "probeSilence"
    BY <1>0, <2>0, CallType DEF Call
  <2>2. outbox' \in Seq(Seq(Byte))
    <3>1. CASE Answers(Data(selected))
      BY <3>1, SentLemma, AnswersLemma DEF SearchTypeOK
    <3> QED
      BY <1>3, <3>1 DEF Request, SearchTypeOK
  <2>3. faults' \in Nat
    BY <1>3 DEF Request, Fault, SearchTypeOK
  <2> QED
    BY <1>3, <2>0, <2>1, <2>2, <2>3 DEF Request, SearchTypeOK, Probing
<1>4. CASE Requested
  <2>1. /\ op = "none" /\ UNCHANGED <<clientVars, busVars, selected, clean>>
        /\ \/ ret.msg \in Meters /\ found' = Append(found, ret.msg)
           \/ found' \in {found, <<>>}
        /\ \/ step' = "over" /\ mask' = mask
           \/ NextDigit \/ Narrow
    BY <1>4 DEF Requested, At, Abort
  <2>2. step' \in {"select", "over"} /\ MaskOK'
    BY <2>1, DigitType DEF SearchTypeOK, MaskOK
  <2>3. found' \in Seq(Meters)
    <3>1. found \in Seq(Meters)
      BY DEF SearchTypeOK
    <3>2. ASSUME ret.msg \in Meters PROVE Append(found, ret.msg) \in Seq(Meters)
      BY <3>1, <3>2, AppendProperties
    <3> QED
      BY <1>0, <2>1, <3>1, <3>2
  <2>4. ClientTypeOK'
    BY <1>0, <2>1 DEF clientVars, ClientTypeOK
  <2> QED
    BY <2>1, <2>2, <2>3, <2>4 DEF SearchTypeOK, MaskOK, clientVars, busVars
<1>5. CASE WriteRefused
  BY <1>0, <1>5 DEF WriteRefused, At, Abort, clientVars, busVars, ClientTypeOK, SearchTypeOK
<1>6. CASE Read
  <2>1. /\ ClientStep /\ UNCHANGED <<outbox, faults, selected, step, mask, found>>
        /\ clean' \in BOOLEAN
    BY <1>6 DEF Read, BusStep, busVars, SearchTypeOK
  <2> QED
    BY <1>0, <2>1, ClientStepType DEF SearchTypeOK, Probing
<1>7. CASE Transmit
  <2>1. /\ outbox # <<>> /\ outbox' = Tail(outbox)
        /\ \E s \in Damaged(Head(outbox)) \cup {Head(outbox)} : Receive(s)
        /\ UNCHANGED <<selected, step, mask, found, clean>>
    BY <1>7 DEF Transmit, TransmitWhole, TransmitDamaged, scanVars
  <2>2. Head(outbox) \in Seq(Byte) /\ outbox' \in Seq(Seq(Byte))
    BY <2>1, HeadTailProperties DEF SearchTypeOK
  <2>3. PICK s \in Seq(Byte) : Receive(s)
    BY <2>1, <2>2, DamagedType
  <2>4. ClientTypeOK'
    BY <1>0, <2>3, ConcatProperties DEF Receive, ClientTypeOK
  <2>5. faults' \in Nat
    BY <1>7 DEF Transmit, TransmitWhole, TransmitDamaged, Fault, SearchTypeOK
  <2> QED
    BY <2>1, <2>2, <2>3, <2>4, <2>5 DEF Receive, SearchTypeOK
<1>8. CASE Deadline
  BY <1>0, <1>8 DEF Deadline, BusDeadline, DeadlinePasses, busVars, scanVars, ClientTypeOK,
     SearchTypeOK
<1>9. CASE Cancel
  BY <1>0, <1>9 DEF Cancel, CtxEnds, busVars, scanVars, ClientTypeOK, CtxErrors, SearchTypeOK
<1>10. CASE Break
  BY <1>0, <1>10 DEF Break, ConnFails, busVars, scanVars, ClientTypeOK, SearchTypeOK
<1>11. CASE UNCHANGED vars
  BY <1>0, <1>11 DEF vars, clientVars, busVars, scanVars, ClientTypeOK, SearchTypeOK
<1> QED
  BY <1>1, <1>2, <1>3, <1>4, <1>5, <1>6, <1>7, <1>8, <1>9, <1>10, <1>11 DEF Next, Master

-----------------------------------------------------------------------------
(* Who answers                                                             *)

\* A call in progress belongs to a search that is not over.
LEMMA CallIsOfSearch ==
    ASSUME SearchTypeOK, op # "none"
    PROVE  step \in {"selecting", "requesting"} /\ op \in {"probeSilence", "probeResponse"}
  BY DEF SearchTypeOK, Probing

\* A turn of a probe's loops takes the answer, or refuses all of it, or waits.
LEMMA LookHeard ==
    ASSUME SearchTypeOK, HeardInv, Look, op # "none",
           UNCHANGED <<busVars, selected, step, mask, found, err>>,
           op' = "none" => line' = <<>>
    PROVE  HeardInv'
<1>1. /\ step \in {"selecting", "requesting"} /\ op \in {"probeSilence", "probeResponse"}
      /\ UNCHANGED <<line, conn, ctx, outbox, selected, step, mask>>
      /\ Accounted /\ (step = "requesting" => selected = Matching(mask))
      /\ Matching(mask)' = Matching(mask)
  BY CallIsOfSearch, ProbeOutcomes DEF busVars, HeardInv, Matching, Matches
<1>2. CASE /\ op' # "none" /\ buf' = buf /\ (late' => late)
           /\ at' = "fill" => Starved(buf)
  BY <1>1, <1>2 DEF HeardInv, Accounted, Fresh, Quiet, Deaf, Waiting, Arriving, Reply, Starved
<1>3. CASE op' = "none" /\ ~Starved(buf)
  <2>1. Arriving /\ selected = Matching(mask)
    BY <1>1, <1>3 DEF Accounted, Fresh, Deaf, Waiting
  <2>2. Quiet'
    BY <1>1, <1>3, <2>1 DEF Arriving, Quiet
  <2>3. CASE ret'.err # {} /\ buf' = <<>>
    BY <1>1, <1>3, <2>1, <2>2, <2>3, EmptyIsStarved
       DEF HeardInv, Accounted, Fresh, Starved
  <2>4. CASE step = "selecting" /\ ret'.err = {}
    BY <1>1, <1>3, <2>1, <2>2, <2>4 DEF HeardInv, Accounted
  <2>5. ASSUME step = "requesting", NEW k \in Msg, takeBufferedFrame(buf) = Parsed(k),
               buf' = Drop(buf, Size[k]), ret'.err = {}, ret'.msg = k
        PROVE  HeardInv'
    <3>1. PICK m \in selected, n \in 0..Len(buf) : Reply(n, m)
      BY <2>1, <2>5 DEF Arriving
    <3>2. ClientTypeOK /\ m \in Msg /\ buf \in Seq(Byte)
      BY SelectionAssumption DEF SearchTypeOK, ClientTypeOK
    <3>3. k = m /\ Len(buf) = Size[k]
      BY <2>5, <3>1, <3>2, TakenIsTheReply
    <3>4. buf' = <<>>
      BY <2>5, <3>2, <3>3, DropAll
    <3> QED
      BY <1>1, <1>3, <2>1, <2>2, <2>5, <3>3, <3>4, EmptyIsStarved
         DEF HeardInv, Accounted, Fresh, Starved
  <2> QED
    BY <1>1, <1>3, <2>3, <2>4, <2>5, ProbeOutcomes
<1> QED
  BY <1>1, <1>2, <1>3, ProbeOutcomes

\* fill reads on in an answer, or gives up once nothing more of it can come.
LEMMA FillHeard ==
    ASSUME SearchTypeOK, HeardInv, Fill, op # "none",
           UNCHANGED <<busVars, selected, step, mask, found, err>>,
           op' = "none" => line' = <<>>
    PROVE  HeardInv'
<1>1. /\ step \in {"selecting", "requesting"} /\ ClientTypeOK
      /\ UNCHANGED <<conn, ctx, outbox, selected, step, mask>>
      /\ Accounted /\ (step = "requesting" => selected = Matching(mask))
      /\ at = "fill" /\ at' = "look" /\ ~late'
      /\ Matching(mask)' = Matching(mask)
  BY CallIsOfSearch, FillOutcomes DEF SearchTypeOK, busVars, HeardInv, Matching, Matches
<1>2. Starved(buf)
  BY <1>1 DEF Accounted, Fresh, Deaf, Waiting, Arriving
<1>3. CASE /\ op' = "none" /\ ret'.err # {} /\ UNCHANGED <<line, buf>>
           /\ CtxErr \/ (~CtxErr /\ Past) \/ (conn # "up" /\ line = <<>>)
  <2>1. ctx # "live" \/ (conn # "up" /\ line = <<>>) \/ late
    BY <1>3 DEF CtxErr, CtxErrors, Past
  <2>2. Fresh \/ Deaf
    BY <1>1, <1>2, <2>1 DEF Accounted, Waiting, Arriving, Fresh, Quiet, Deaf
  <2> QED
    BY <1>1, <1>3, <2>2 DEF HeardInv, Accounted, Fresh, Quiet, Deaf, Starved
<1>4. ASSUME NEW c \in 1..Len(line), FillBytes(c), op' = op, ~late, line # <<>>
      PROVE  HeardInv'
  <2>1. ctx = "live"
    BY <1>1, <1>4 DEF FillBytes, CtxErr, CtxErrors, Past, ClientTypeOK
  <2>2. Arriving /\ selected = Matching(mask)
    BY <1>1, <1>4, <2>1 DEF Accounted, Fresh, Quiet, Deaf, Waiting
  <2>4. step = "requesting" => \E m \in selected, n \in 0..Len(buf') : Reply(n, m)'
    <3> SUFFICES ASSUME step = "requesting"
                 PROVE  \E m \in selected, n \in 0..Len(buf') : Reply(n, m)'
      OBVIOUS
    <3>1. PICK m \in selected, n \in 0..Len(buf) : Reply(n, m)
      BY <2>2 DEF Arriving
    <3>2. m \in Msg
      BY SelectionAssumption DEF SearchTypeOK
    <3>3. n \in 0..Len(buf') /\ Reply(n, m)'
      BY <1>1, <1>4, <3>1, <3>2, ReplyReads
    <3> QED
      BY <3>3
  <2>5. Arriving'
    BY <1>1, <1>4, <2>2, <2>4 DEF Arriving
  <2> QED
    BY <1>1, <1>4, <2>2, <2>5 DEF HeardInv, Accounted
<1> QED
  BY <1>1, <1>3, <1>4, FillOutcomes

\* A request makes nobody answer but the meters that are selected.
LEMMA SendHeard ==
    ASSUME SearchTypeOK, HeardInv, Select \/ Request
    PROVE  HeardInv'
<1>1. /\ op = "none" /\ op' = "probeSilence" /\ ~late' /\ at' = "look"
      /\ UNCHANGED <<line, buf, conn, ctx, mask>>
      /\ step \in {"select", "request"} /\ step' \in {"selecting", "requesting"}
      /\ Matching(mask)' = Matching(mask) /\ Matching(mask) \in SUBSET Meters
      /\ outbox \in Seq(Seq(Byte))
  BY DEF Select, Request, SendSelect, Call, At, Matching, Matches, SearchTypeOK
<1>2. Fresh \/ Deaf
  BY <1>1 DEF HeardInv, Accounted
<1>3. CASE outbox' = outbox /\ (step' = "requesting" => selected' = Matching(mask))
  BY <1>1, <1>2, <1>3 DEF HeardInv, Accounted, Fresh, Quiet, Deaf, Starved
<1>4. ASSUME NEW T, T \subseteq Seq(Byte), Answers(T), selected' = Matching(mask),
             step' = "requesting" => \A q \in T : q = <<>> \/ \E m \in selected' : Part(q, m)
      PROVE  HeardInv'
  <2>1. CASE Deaf
    BY <1>1, <1>4, <2>1 DEF HeardInv, Accounted, Deaf, Starved
  <2>2. CASE Fresh
    <3>1. PICK s \in T : outbox' = IF s = <<>> THEN <<>> ELSE <<s>>
      BY <1>1, <1>4, <2>2, AnswersLemma DEF Fresh, Quiet
    <3>2. CASE s = <<>>
      BY <1>1, <1>4, <2>2, <3>1, <3>2 DEF HeardInv, Accounted, Fresh, Quiet, Starved
    <3>3. CASE s # <<>>
      <4>1. /\ outbox' = <<s>> /\ Head(outbox') = s /\ Tail(outbox') = <<>>
            /\ outbox' # <<>>
        BY <3>1, <3>3
      <4>2. Waiting'
        BY <1>1, <1>4, <2>2, <3>3, <4>1 DEF Waiting, Fresh, Quiet, Starved, Part
      <4> QED
        BY <1>1, <1>4, <4>2 DEF HeardInv, Accounted
    <3> QED
      BY <3>2, <3>3
  <2> QED
    BY <1>2, <2>1, <2>2
<1>5. CASE Select
  <2>1. step' = "selecting" /\ (AnswerSelect(mask) \/ UNCHANGED outbox)
    BY <1>5 DEF Select, SendSelect
  <2>2. CASE AnswerSelect(mask)
    <3>1. /\ Acks(Matching(mask)) \subseteq Seq(Byte) /\ Answers(Acks(Matching(mask)))
          /\ selected' = Matching(mask)
      BY <1>1, <2>2, SentLemma DEF AnswerSelect
    <3> QED
      BY <1>4, <2>1, <3>1
  <2> QED
    BY <1>3, <2>1, <2>2
<1>6. CASE Request
  <2>1. /\ step = "request" /\ selected' = selected
        /\ Answers(Data(selected)) \/ UNCHANGED outbox
    BY <1>6 DEF Request, At
  <2>2. selected = Matching(mask)
    BY <2>1 DEF HeardInv
  <2>3. CASE Answers(Data(selected))
    <3>1. /\ Data(selected) \subseteq Seq(Byte)
          /\ \A q \in Data(selected) : q = <<>> \/ \E m \in selected' : Part(q, m)
      BY <1>1, <2>1, <2>2, SentLemma
    <3> QED
      BY <1>4, <2>1, <2>2, <2>3, <3>1
  <2> QED
    BY <1>3, <2>1, <2>2, <2>3
<1> QED
  BY <1>5, <1>6

\* When the search goes on, nothing is under way.
LEMMA ReturnHeard ==
    ASSUME SearchTypeOK, HeardInv, Selected \/ Requested \/ WriteRefused
    PROVE  HeardInv'
<1>1. /\ op = "none" /\ step # "over"
      /\ UNCHANGED <<line, conn, ctx, op, outbox, selected>>
  BY DEF Selected, Requested, WriteRefused, At, clientButBuf, clientVars, busVars
<1>2. Fresh \/ Deaf \/ (step = "selecting" /\ Quiet /\ ret.err = {})
  BY <1>1 DEF HeardInv, Accounted
<1>3. ASSUME step' \in {"select", "over"}, Fresh' \/ Deaf'
      PROVE  HeardInv'
  BY <1>1, <1>3 DEF HeardInv, Accounted
<1>4. CASE buf' = <<>>
  <2>1. Fresh' \/ Deaf'
    BY <1>1, <1>2, <1>4, EmptyIsStarved DEF Fresh, Quiet, Deaf, Starved
  <2>2. CASE step' \in {"select", "over"}
    BY <1>3, <2>1, <2>2
  <2>3. CASE step' = "request" /\ mask' = mask /\ selected = Matching(mask)
    BY <1>1, <2>1, <2>3 DEF HeardInv, Accounted, Matching, Matches
  <2>4. CASE Selected
    <3>1. CASE Responded
      <4>1. step = "selecting" /\ ret.err = {} /\ step' = "request" /\ mask' = mask
        BY <2>4, <3>1 DEF Selected, At, Responded, Silent, Collision, SelectFailed, isBusNoise
      <4> QED
        BY <1>1, <2>3, <4>1 DEF HeardInv
    <3>2. CASE ~Responded
      <4>1. step' \in {"select", "over"}
        BY <2>4, <3>2, DigitType DEF Selected, Abort
      <4> QED
        BY <2>2, <4>1
    <3> QED
      BY <3>1, <3>2
  <2>5. CASE Requested \/ WriteRefused
    <3>1. step' \in {"select", "over"}
      BY <2>5, DigitType DEF Requested, WriteRefused, Abort
    <3> QED
      BY <2>2, <3>1
  <2> QED
    BY <2>4, <2>5
<1>5. CASE buf' # <<>>
  <2>1. buf' = buf /\ step' \in {"select", "over"} /\ ~(step = "selecting" /\ ret.err = {} /\ step' # "over")
    <3>1. CASE Selected
      <4>1. ~Responded /\ ~Collision
        BY <1>5 DEF Responded, Collision
      <4> QED
        BY <3>1, <4>1, DigitType DEF Selected, Silent, SelectFailed, Abort
    <3>2. CASE Requested \/ WriteRefused
      BY <3>2, DigitType DEF Requested, WriteRefused, Abort, At, clientVars
    <3> QED
      BY <3>1, <3>2
  <2>2. CASE step' = "over"
    BY <1>1, <2>2 DEF HeardInv
  <2>3. CASE step' # "over"
    BY <1>1, <1>2, <1>3, <2>1, <2>3 DEF Fresh, Quiet, Deaf, Starved
  <2> QED
    BY <2>2, <2>3
<1> QED
  BY <1>4, <1>5

\* What was sent goes on the line, as it is or damaged.
LEMMA TransmitHeard ==
    ASSUME SearchTypeOK, HeardInv, Transmit
    PROVE  HeardInv'
<1>1. /\ UNCHANGED <<buf, conn, ctx, op, at, late, ret, selected, step, mask, found>>
      /\ conn = "up" /\ outbox # <<>> /\ outbox' = Tail(outbox)
      /\ Matching(mask)' = Matching(mask)
  BY DEF Transmit, TransmitWhole, TransmitDamaged, Receive, scanVars, Matching, Matches
<1>2. /\ step = "selecting" /\ op = "none" /\ ret.err = {} => selected = Matching(mask)
      /\ step \in {"request", "requesting"} => selected = Matching(mask)
      /\ step = "requesting" /\ op = "none" /\ ret.err = {} => ret.msg \in selected
  BY DEF HeardInv
<1>3. CASE step = "over"
  BY <1>1, <1>2, <1>3 DEF HeardInv
<1>4. CASE step # "over" /\ Deaf
  <2>1. Deaf'
    BY <1>1, <1>4 DEF Deaf, Starved
  <2> QED
    BY <1>1, <1>2, <2>1 DEF HeardInv, Accounted
<1>5. CASE step # "over" /\ Waiting /\ selected = Matching(mask)
  <2>1. ClientTypeOK /\ Head(outbox) \in Seq(Byte) /\ selected \in SUBSET Msg
    BY <1>1, HeadTailProperties, SelectionAssumption DEF SearchTypeOK
  <2>2. PICK s \in Damaged(Head(outbox)) \cup {Head(outbox)} : Receive(s)
    BY DEF Transmit, TransmitWhole, TransmitDamaged
  <2>3. step = "requesting" => \E m \in selected, n \in 0..Len(buf) : Reply(n, m)'
    <3> SUFFICES ASSUME step = "requesting"
                 PROVE  \E m \in selected, n \in 0..Len(buf) : Reply(n, m)'
      OBVIOUS
    <3>1. PICK m \in selected : Part(Head(outbox), m)
      BY <1>5 DEF Waiting
    <3>2. s \in Seq(Byte) /\ Part(s, m) /\ m \in Msg
      BY <2>1, <3>1, PartLemma
    <3>3. Len(buf) \in 0..Len(buf) /\ Reply(Len(buf), m)'
      BY <1>5, <2>1, <2>2, <3>2, ReplyArrives DEF Waiting
    <3> QED
      BY <1>1, <3>3 DEF Reply, Starved
  <2>4. Arriving'
    BY <1>1, <1>5, <2>3 DEF Waiting, Arriving, Starved
  <2> QED
    BY <1>1, <1>2, <1>5, <2>4 DEF HeardInv, Accounted, Waiting
<1> QED
  BY <1>1, <1>3, <1>4, <1>5 DEF HeardInv, Accounted, Fresh, Quiet, Arriving

\* A deadline that waits for the answer that is due leaves nothing of it behind; an
\* ended context or a transport that failed is not read from again.
LEMMA OutsideHeard ==
    ASSUME Prompt, SearchTypeOK, HeardInv, Deadline \/ Cancel \/ Break
    PROVE  HeardInv'
<1>1. /\ UNCHANGED <<buf, op, at, ret, outbox, selected, step, mask, found>>
      /\ Matching(mask)' = Matching(mask)
  BY DEF Deadline, BusDeadline, DeadlinePasses, Cancel, CtxEnds, Break, ConnFails,
         busVars, scanVars, Matching, Matches
<1>2. /\ step = "selecting" /\ op = "none" /\ ret.err = {} => selected = Matching(mask)
      /\ step \in {"request", "requesting"} => selected = Matching(mask)
      /\ step = "requesting" /\ op = "none" /\ ret.err = {} => ret.msg \in selected
  BY DEF HeardInv
<1> SUFFICES ASSUME step # "over" PROVE Accounted'
  BY <1>1, <1>2 DEF HeardInv
<1>3. Accounted
  BY DEF HeardInv
<1>4. CASE Deadline
  <2>1. Quiet /\ UNCHANGED <<line, conn, ctx>>
    BY <1>4 DEF Deadline, BusDeadline, DeadlinePasses
  <2>2. ~Waiting
    BY <2>1 DEF Quiet, Waiting
  <2> QED
    BY <1>1, <1>3, <2>1, <2>2 DEF Accounted, Fresh, Quiet, Deaf, Arriving, Reply, Starved
<1>5. CASE Cancel
  <2>1. ctx' # "live" /\ UNCHANGED <<line, conn, late>>
    BY <1>5 DEF Cancel, CtxEnds
  <2> QED
    BY <1>1, <1>3, <2>1 DEF Accounted, Fresh, Quiet, Deaf, Waiting, Arriving, Reply, Starved
<1>6. CASE Break
  <2>1. conn = "up" /\ line' \in {line, <<>>} /\ UNCHANGED <<ctx, late>>
    BY <1>6 DEF Break, ConnFails
  <2>2. CASE Arriving /\ selected = Matching(mask)
    <3>1. step = "requesting" => \E m \in selected, n \in 0..Len(buf) : Reply(n, m)'
      <4> SUFFICES ASSUME step = "requesting"
                   PROVE  \E m \in selected, n \in 0..Len(buf) : Reply(n, m)'
        OBVIOUS
      <4>1. PICK m \in selected, n \in 0..Len(buf) : Reply(n, m)
        BY <2>2 DEF Arriving
      <4>2. m \in Msg /\ ClientTypeOK
        BY SelectionAssumption DEF SearchTypeOK
      <4>3. Reply(n, m)'
        BY <1>1, <2>1, <4>1, <4>2, ReplyBreaks
      <4> QED
        BY <4>3
    <3>2. Arriving'
      BY <1>1, <2>1, <2>2, <3>1 DEF Arriving, Starved
    <3> QED
      BY <1>1, <2>2, <3>2 DEF Accounted, Arriving
  <2>3. CASE Fresh \/ Deaf
    BY <1>1, <2>1, <2>3 DEF Accounted, Fresh, Quiet, Deaf, Starved
  <2>4. CASE Waiting /\ selected = Matching(mask)
    BY <1>1, <2>1, <2>4 DEF Accounted, Waiting, Starved
  <2>5. CASE step = "selecting" /\ Quiet /\ ret.err = {} /\ op = "none"
    BY <1>1, <2>1, <2>5 DEF Accounted, Quiet
  <2> QED
    BY <1>3, <2>2, <2>3, <2>4, <2>5 DEF Accounted
<1> QED
  BY <1>4, <1>5, <1>6

-----------------------------------------------------------------------------
(* The order is kept                                                       *)

\* A meter that is found was not passed before, and is now.
LEMMA NextOrder ==
    ASSUME SearchTypeOK, HeardInv, OrderInv, [Next]_vars
    PROVE  OrderInv'
<1>1. MaskOK /\ found \in Seq(Meters) /\ Len(found) \in Nat
  BY LenProperties DEF SearchTypeOK, MaskOK
<1>2. \A i \in 1..Len(found) : found[i] \in Meters
  BY <1>1, ElementOfSeq
<1>3. CASE UNCHANGED found /\ UNCHANGED mask /\ (step = "over" => step' = "over")
  BY <1>3 DEF OrderInv, Passed
<1>4. CASE found' = <<>>
  BY <1>4 DEF OrderInv
<1>5. CASE UNCHANGED found /\ step # "over" /\ (NextDigit \/ Narrow)
  BY <1>1, <1>2, <1>5, NextDigitLemma, NarrowLemma DEF OrderInv
<1>6. CASE /\ step = "requesting" /\ op = "none" /\ ret.err = {}
           /\ found' = Append(found, ret.msg) /\ NextDigit
  <2> DEFINE m == ret.msg
  <2>1. m \in Meters /\ Matches(mask, m)
    BY <1>6 DEF HeardInv, Matching
  <2> HIDE DEF m
  <2>2. found' = Append(found, m)
    BY <1>6 DEF m
  <2>3. /\ Len(found') = Len(found) + 1 /\ found'[Len(found) + 1] = m
        /\ \A i \in 1..Len(found) : found'[i] = found[i]
    BY <1>1, <2>1, <2>2, AppendProperties
  <2>4. \A i \in 1..Len(found') : i \in 1..Len(found) \/ i = Len(found) + 1
    BY <1>1, <2>3
  <2>5. \A i \in 1..Len(found) : found[i] # m
    BY <1>1, <1>2, <1>6, <2>1, PassedIsNoMatch DEF OrderInv
  <2>6. \A i, j \in 1..Len(found') : found'[i] = found'[j] => i = j
    BY <2>3, <2>4, <2>5 DEF OrderInv
  <2>7. step' # "over" => \A i \in 1..Len(found') : \E n \in Meters : n = found'[i] /\ Passed(n)'
    <3> SUFFICES ASSUME step' # "over", NEW i \in 1..Len(found')
                 PROVE  \E n \in Meters : n = found'[i] /\ Passed(n)'
      OBVIOUS
    <3>1. \A n \in Meters : Passed(n) \/ Matches(mask, n) => Passed(n)'
      BY <1>1, <1>6, NextDigitLemma
    <3>2. CASE i \in 1..Len(found)
      <4>1. found[i] \in Meters /\ Passed(found[i])
        BY <1>2, <1>6, <3>2 DEF OrderInv
      <4> QED
        BY <2>3, <3>1, <3>2, <4>1
    <3>3. CASE i = Len(found) + 1
      BY <2>1, <2>3, <3>1, <3>3
    <3> QED
      BY <2>4, <3>2, <3>3
  <2> QED
    BY <2>6, <2>7 DEF OrderInv, Passed
<1>7. CASE Select \/ Request
  BY <1>3, <1>7 DEF Select, Request, At
<1>8. CASE Selected
  <2>1. step # "over"
    BY <1>8 DEF Selected, At
  <2> QED
    BY <1>3, <1>4, <1>5, <1>8, <2>1 DEF Selected, Abort
<1>9. CASE Requested
  <2>1. step = "requesting" /\ op = "none" /\ step # "over"
    BY <1>9 DEF Requested, At
  <2> QED
    BY <1>4, <1>5, <1>6, <1>9, <2>1 DEF Requested, Abort
<1>10. CASE WriteRefused
  BY <1>4, <1>10 DEF WriteRefused, Abort
<1>11. CASE Read \/ Transmit \/ Deadline \/ Cancel \/ Break \/ UNCHANGED vars
  BY <1>3, <1>11 DEF Read, Transmit, Deadline, Cancel, Break, vars, scanVars
<1> QED
  BY <1>7, <1>8, <1>9, <1>10, <1>11 DEF Next, Master

-----------------------------------------------------------------------------
(* The theorems                                                            *)

\* What is clean has been.
LEMMA CleanBefore ==
    ASSUME [Next]_vars, clean'
    PROVE  clean
  BY DEF Next, Master, Select, Selected, Request, Requested, WriteRefused, Read, Transmit,
     Deadline, Cancel, Break, scanVars, vars

\* The search begins with nothing under way and nobody found.
LEMMA InitSearch == Init => SearchInv
<1> SUFFICES ASSUME Init PROVE SearchInv
  OBVIOUS
<1>1. Fresh /\ step = "select" /\ op = "none" /\ found = <<>>
  BY EmptyIsStarved DEF Init, ClientInit, BusInit, Fresh, Quiet
<1>2. HeardInv /\ OrderInv
  BY <1>1 DEF HeardInv, Accounted, OrderInv
<1> QED
  BY <1>2, InitSearchType DEF SearchInv

\* Every step keeps the invariant.
LEMMA NextSearch ==
    ASSUME Prompt, SearchInv, [Next]_vars
    PROVE  SearchInv'
<1>1. SearchTypeOK /\ SearchTypeOK'
  BY NextSearchType DEF SearchInv
<1> SUFFICES ASSUME clean' PROVE HeardInv' /\ OrderInv'
  BY <1>1 DEF SearchInv
<1>2. clean
  BY CleanBefore
<1>3. HeardInv /\ OrderInv
  BY <1>2 DEF SearchInv
<1>4. HeardInv'
  <2>1. CASE Read
    <3>1. /\ UNCHANGED <<busVars, selected, step, mask, found, err>> /\ (Look \/ Fill)
          /\ op' = "none" => line' = <<>>
      BY <2>1 DEF Read, BusStep, ClientStep
    <3>2. op # "none"
      BY <1>1, <2>1, ClientStepType DEF Read, BusStep, SearchTypeOK
    <3> QED
      BY <1>1, <1>3, <3>1, <3>2, LookHeard, FillHeard
  <2>2. CASE UNCHANGED vars
    BY <1>3, <2>2 DEF vars, clientVars, busVars, scanVars, HeardInv, Accounted, Matching,
       Matches, Fresh, Quiet, Deaf, Waiting, Arriving, Reply, Starved
  <2> QED
    BY <1>1, <1>3, <2>1, <2>2, SendHeard, ReturnHeard, TransmitHeard, OutsideHeard
       DEF Next, Master
<1> QED
  BY <1>1, <1>3, <1>4, NextOrder

\* What the order of the search says of its result.
LEMMA FoundIsOnce ==
    ASSUME SearchInv
    PROVE  FoundOnce
<1> SUFFICES ASSUME clean PROVE Cardinality(Found) = Len(found)
  BY DEF FoundOnce
<1>1. found \in Seq(Meters) /\ Len(found) \in Nat
  BY LenProperties DEF SearchInv, SearchTypeOK
<1>2. found \in [1..Len(found) -> Found]
  BY <1>1, LenProperties DEF Found
<1>3. \A i, j \in 1..Len(found) : found[i] = found[j] => i = j
  BY DEF SearchInv, OrderInv
<1>4. \A x \in Found : \E i \in 1..Len(found) : found[i] = x
  BY DEF Found
<1>5. found \in Bijection(1..Len(found), Found)
  BY <1>2, <1>3, <1>4, Fun_IsBij
<1>6. ExistsBijection(1..Len(found), Found)
  BY <1>5 DEF ExistsBijection
<1> QED
  BY <1>1, <1>6, FS_CountingElements

\* Where meters answer within the deadline, ScanSecondary returns no meter twice (scan.go
\* 136-149), whatever is lost, damaged or left over from a timeout and wherever a Read
\* ends, as long as no probe returned before its answer had all been read.
THEOREM SearchFindsOnce == Prompt => (Spec => []FoundOnce)
<1> SUFFICES ASSUME Prompt PROVE Spec => []FoundOnce
  OBVIOUS
<1>1. Init => SearchInv
  BY InitSearch
<1>2. SearchInv /\ [Next]_vars => SearchInv'
  BY NextSearch
<1>3. SearchInv => FoundOnce
  BY FoundIsOnce
<1> QED
  BY <1>1, <1>2, <1>3, PTL DEF Spec

\* There, and so long, a meter is returned only under a mask that its number matches: no
\* answer is taken for that of a later selection (scan.go 180-196).
THEOREM SearchFindsUnderTheMask == Prompt => (Spec => FoundUnderItsMask)
<1> SUFFICES ASSUME Prompt PROVE Spec => FoundUnderItsMask
  OBVIOUS
<1>1. Init => SearchInv
  BY InitSearch
<1>2. SearchInv /\ [Next]_vars => SearchInv'
  BY NextSearch
<1>3. ASSUME SearchInv, [Next]_vars
      PROVE  [found' # found /\ err' = {} /\ clean => Matches(mask, found'[Len(found')])]_vars
  <2> SUFFICES ASSUME Next, found' # found, err' = {}, clean
               PROVE  Matches(mask, found'[Len(found')])
    BY <1>3 DEF vars, scanVars
  <2>1. ~WriteRefused
    BY DEF WriteRefused, Abort, WriteError
  <2>2. CASE Requested
    <3>1. step = "requesting" /\ op = "none" /\ ret.err = {} /\ found' = Append(found, ret.msg)
      BY <2>2 DEF Requested, At, Abort
    <3>2. ret.msg \in Matching(mask) /\ found \in Seq(Meters) /\ ret.msg \in Meters
      BY <1>3, <3>1 DEF SearchInv, SearchTypeOK, HeardInv, Matching
    <3>3. found'[Len(found')] = ret.msg
      BY <3>1, <3>2, AppendProperties
    <3> QED
      BY <3>2, <3>3 DEF Matching
  <2>3. CASE Selected
    BY <2>3 DEF Selected, SelectFailed, Abort
  <2> QED
    BY <2>1, <2>2, <2>3
       DEF Next, Master, Select, Request, Read, Transmit, Deadline, Cancel, Break, scanVars
<1> QED
  BY <1>1, <1>2, <1>3, PTL DEF Spec, FoundUnderItsMask

-----------------------------------------------------------------------------
(* What a sound answer is taken for                                        *)

\* Who is one of several is one of two; who is the only one is all there are.
LEMMA OneOrMore ==
    ASSUME NEW S \in SUBSET Meters
    PROVE  /\ S = {} => Cardinality(S) # 1
           /\ Cardinality(S) = 1 => \E m \in S : S = {m}
           /\ \A m \in S : Cardinality(S) # 1 => \E n \in S : n # m
<1>1. IsFiniteSet(S)
  BY FS_Subset, SelectionAssumption
<1>2. S = {} => Cardinality(S) # 1
  BY FS_EmptySet
<1>3. Cardinality(S) = 1 => \E m \in S : S = {m}
  BY <1>1, FS_Singleton
<1>4. ASSUME NEW m \in S, Cardinality(S) # 1
      PROVE  \E n \in S : n # m
  <2>1. S # {m}
    BY <1>4, FS_Singleton
  <2> QED
    BY <2>1
<1> QED
  BY <1>2, <1>3, <1>4

\* One acknowledgement is an E5h, and several are no start of a frame.
LEMMA AcksTake ==
    ASSUME Telling, NEW S \in SUBSET Meters, S # {}, NEW q \in Acks(S)
    PROVE  /\ q \in Seq(Byte) /\ q # <<>> /\ ~Starved(q)
           /\ Cardinality(S) = 1 => takeBufferedFrame(q) = Parsed(Ack) /\ Len(q) = Size[Ack]
<1>1. q \in Seq(Byte)
  BY SentLemma
<1>2. CASE Cardinality(S) = 1
  <2>1. q = Bytes(Ack) /\ Ack \in Msg /\ Size[Ack] = 1
    BY <1>2, ClientAssumption DEF Acks
  <2>2. Len(q) = 1 /\ q[1] = <<Ack, 1>> /\ q # <<>>
    <3>1. Len(q) = 1 /\ \A i \in 1..1 : q[i] = <<Ack, i>>
      BY <2>1, BytesLemma
    <3>2. Len(<<>>) = 0
      BY EmptySeq
    <3> QED
      BY <3>1, <3>2
  <2>3. takeBufferedFrame(q) = Parsed(Ack)
    BY <2>2 DEF takeBufferedFrame, IsE5
  <2>4. Parsed(Ack).err # NeedMore
    BY DEF Parsed, NeedMore
  <2> QED
    BY <1>1, <2>1, <2>2, <2>3, <2>4 DEF Starved
<1>3. CASE Cardinality(S) # 1
  <2>1. q \in Overlaps
    BY <1>3 DEF Acks
  <2> QED
    BY <1>1, <1>3, <2>1, SelectionAssumption DEF Telling
<1> QED
  BY <1>2, <1>3

\* The checksum and the stop byte tell data that was spoiled.
LEMMA SpoiledIsRefused ==
    ASSUME Legal, NEW m \in Meters
    PROVE  takeBufferedFrame(Spoiled(m)) = Failed("ErrInvalidFrame")
<1> DEFINE q == Spoiled(m)
<1>1. /\ m \in LongMsg /\ Size[m] \in Nat /\ Size[m] > HeadLen /\ HeadLen \in Nat \ {0}
      /\ q \in Seq(Byte) /\ Len(q) = Size[m]
      /\ \A i \in 1..Size[m] - 1 : q[i] = <<m, i>>
      /\ q[Size[m]] = Junk
  BY SpoiledLemma
<1> HIDE DEF q
<1>2. PICK z \in Nat : z = Size[m] /\ z > HeadLen
  BY <1>1
<1>3. \A i \in 1..HeadLen : q[i] = <<m, i>>
  BY <1>1, <1>2
<1>4. q[1] = <<m, 1>> /\ q # <<>>
  <2>1. 1 \in 1..HeadLen
    BY <1>1
  <2>2. Len(q) # 0
    BY <1>1, <1>2
  <2> QED
    BY <1>3, <2>1, <2>2, EmptySeq
<1>5. ~IsE5(q[1])
  BY <1>1, <1>4, HeadIsNoE5
<1>6. (CHOOSE k \in LongMsg : StartsFrame(q, k)) = m
  <2>1. StartsFrame(q, m)
    BY <1>3 DEF StartsFrame
  <2>2. ASSUME NEW k \in LongMsg, StartsFrame(q, k) PROVE k = m
    <3>1. q[1] = <<k, 1>>
      BY <1>1, <2>2 DEF StartsFrame
    <3> QED
      BY <1>4, <3>1
  <2> QED
    BY <1>1, <2>1, <2>2
<1>7. StartsFrame(q, m)
  BY <1>3 DEF StartsFrame
<1>8. ParseBody(q, m) = Failed("ErrInvalidFrame")
  <2>1. q[Size[m]] # <<m, Size[m]>>
    <3>1. z \in 1..z
      BY <1>1, <1>2
    <3>2. <<m, z>> \in Wire
      BY <1>1, <1>2, <3>1 DEF Wire, LongMsg
    <3> QED
      BY <1>1, <1>2, <3>2, ClientAssumption
  <2>2. ~(Len(q) < Size[m])
    BY <1>1, <1>2
  <2> QED
    BY <2>1, <2>2 DEF ParseBody
<1>9. ~(Len(q) < HeadLen)
  BY <1>1, <1>2
<1>10. takeBufferedFrame(q) = Failed("ErrInvalidFrame")
  BY <1>1, <1>4, <1>5, <1>6, <1>7, <1>8, <1>9 DEF takeBufferedFrame, parseLongFrame
<1> QED
  BY <1>10 DEF q

\* The data of one meter are its frame, and those of several are refused.
LEMMA DataTake ==
    ASSUME Legal, NEW S \in SUBSET Meters, S # {}, NEW q \in Data(S)
    PROVE  /\ q \in Seq(Byte) /\ q # <<>> /\ ~Starved(q)
           /\ \/ \E m \in S : S = {m} /\ takeBufferedFrame(q) = Parsed(m) /\ Len(q) = Size[m]
              \/ Cardinality(S) # 1 /\ takeBufferedFrame(q) = Failed("ErrInvalidFrame")
<1>1. q \in Seq(Byte)
  BY SentLemma
<1>2. Starved(<<>>) /\ \A m : Parsed(m).err # NeedMore /\ Failed("ErrInvalidFrame").err # NeedMore
  BY EmptyIsStarved DEF Parsed, Failed, NeedMore
<1>3. CASE Cardinality(S) = 1
  <2>1. PICK m \in S : S = {m}
    BY <1>3, OneOrMore
  <2>2. q = Bytes(m) /\ m \in Msg /\ m \in Meters
    BY <1>3, <2>1, SelectionAssumption DEF Data
  <2>3. /\ Len(q) = Size[m] /\ Size[m] \in Nat /\ Size[m] >= MinSize
        /\ \A i \in 1..Len(q) : q[i] = <<m, i>>
    BY <2>2, BytesLemma, ClientAssumption DEF Legal
  <2>4. PICK z \in Nat : z = Size[m]
    BY <2>3
  <2>5. Len(q) <= Size[m] /\ ~(Len(q) < Size[m])
    BY <2>3, <2>4
  <2>6. takeBufferedFrame(q) = Parsed(m)
    BY <1>1, <2>2, <2>3, <2>5, SoundTake
  <2> QED
    BY <1>1, <1>2, <2>1, <2>3, <2>6 DEF Starved
<1>4. CASE Cardinality(S) # 1
  <2>1. PICK m \in S : q = Spoiled(m)
    BY <1>4 DEF Data, Spoiled
  <2>2. takeBufferedFrame(q) = Failed("ErrInvalidFrame")
    BY <2>1, SpoiledIsRefused
  <2> QED
    BY <1>1, <1>2, <1>4, <2>2 DEF Starved
<1> QED
  BY <1>3, <1>4

-----------------------------------------------------------------------------
(* A sound search, step by step                                            *)

\* What is sound has been.
LEMMA SoundBefore ==
    ASSUME SearchTypeOK, [Next]_vars, Sound'
    PROVE  Sound /\ ~Fault /\ UNCHANGED <<conn, ctx>>
<1>1. faults' = 0 => faults = 0 /\ ~Fault
  <2>1. faults' \in {faults, faults + 1} /\ (Fault => faults' = faults + 1) /\ faults \in Nat
    BY DEF SearchTypeOK, Next, Master, Select, SendSelect, Selected, Request, Requested,
       WriteRefused, Read, BusStep, Transmit, TransmitWhole, TransmitDamaged, Deadline,
       BusDeadline, Cancel, Break, Fault, busVars, vars
  <2> QED
    BY <2>1
<1>2. err' = {} => err = {}
  BY DEF Next, Master, Select, Selected, SelectFailed, Request, Requested, WriteRefused, Abort,
     WriteError, Read, Transmit, Deadline, Cancel, Break, scanVars, vars
<1>3. /\ conn' = "up" => conn' = conn
      /\ ctx' = "live" => ctx' = ctx
  <2>1. CASE Select \/ Request
    BY <2>1 DEF Select, SendSelect, Request, Call
  <2>2. CASE Selected \/ Requested \/ WriteRefused \/ UNCHANGED vars
    BY <2>2 DEF Selected, Requested, WriteRefused, clientButBuf, clientVars, vars
  <2>3. CASE Read
    BY <2>3, ClientStepType DEF Read, BusStep, SearchTypeOK
  <2>4. CASE Transmit \/ Deadline \/ Cancel \/ Break
    BY <2>4 DEF Transmit, TransmitWhole, TransmitDamaged, Receive, Deadline, BusDeadline,
       DeadlinePasses, Cancel, CtxEnds, Break, ConnFails, ConnErrors
  <2> QED
    BY <2>1, <2>2, <2>3, <2>4 DEF Next, Master
<1> QED
  BY <1>1, <1>2, <1>3 DEF Sound

\* The order does not change while the mask stays.
LEMMA OrderStays ==
    ASSUME SoundOrder, UNCHANGED <<mask, found>>, step' = "over" => step = "over"
    PROVE  SoundOrder'
  BY DEF SoundOrder, Passed, Found

\* What is selected is asked, and its answer alone will be there.
LEMMA SendSound ==
    ASSUME Telling, Legal, SearchInv, SoundOrder, SoundPlaces, Select \/ Request, ~Fault
    PROVE  SoundOrder' /\ SoundPlaces'
<1>1. /\ op = "none" /\ op' = "probeSilence" /\ ~late'
      /\ UNCHANGED <<line, buf, mask, found>> /\ Void
      /\ step # "over" /\ step' # "over" /\ outbox \in Seq(Seq(Byte))
      /\ Matching(mask) \in SUBSET Meters /\ selected \in SUBSET Meters
      /\ Matching(mask)' = Matching(mask)
  BY DEF Select, Request, SendSelect, Call, At, SoundPlaces, Matching, Matches, SearchInv,
     SearchTypeOK
<1>2. SoundOrder'
  BY <1>1, OrderStays
<1>3. ASSUME NEW T, T \subseteq Seq(Byte), Answers(T),
             selected' = {} => T = {<<>>}, selected' # {} => <<>> \notin T
      PROVE  Coming(T)'
  <2>1. PICK s \in T : outbox' = IF s = <<>> THEN <<>> ELSE <<s>>
    BY <1>1, <1>3, AnswersLemma DEF Void
  <2>2. CASE selected' = {}
    BY <1>1, <1>3, <2>1, <2>2 DEF Coming, Void
  <2>3. CASE selected' # {}
    <3>1. outbox' = <<s>>
      BY <1>3, <2>1, <2>3
    <3> QED
      BY <1>1, <2>3, <3>1 DEF Coming, Only, Void
  <2> QED
    BY <2>2, <2>3
<1>4. CASE Select
  <2>1. /\ step' = "selecting" /\ selected' = Matching(mask)
        /\ Answers(Acks(selected'))
    BY <1>4 DEF Select, SendSelect, AnswerSelect
  <2>2. /\ Acks(selected') \subseteq Seq(Byte)
        /\ selected' = {} => Acks(selected') = {<<>>}
        /\ selected' # {} => <<>> \notin Acks(selected')
    BY <1>1, <2>1, SentLemma, AcksTake DEF Acks
  <2>3. Coming(Acks(selected))'
    BY <1>3, <2>1, <2>2 DEF Coming, Only, Void, Acks
  <2> QED
    BY <1>1, <1>2, <2>1, <2>3 DEF SoundPlaces
<1>5. CASE Request
  <2>1. step' = "requesting" /\ selected' = selected /\ Answers(Data(selected))
    BY <1>5 DEF Request
  <2>2. /\ Data(selected) \subseteq Seq(Byte)
        /\ selected = {} => Data(selected) = {<<>>}
        /\ selected # {} => <<>> \notin Data(selected)
    BY <1>1, SentLemma, DataTake DEF Data
  <2>3. Coming(Data(selected))'
    BY <1>3, <2>1, <2>2 DEF Coming, Only, Void, Data
  <2> QED
    BY <1>1, <1>2, <2>1, <2>3 DEF SoundPlaces
<1> QED
  BY <1>4, <1>5

\* A mask that nobody matches any more, or whose meters cannot be told apart or do not
\* tell their number, is done.
LEMMA MaskIsDone ==
    ASSUME SearchTypeOK, SoundOrder, UNCHANGED found, step # "over", NextDigit,
           \A m \in Matching(mask) : Twin(m) \/ m \in Headless
    PROVE  SoundOrder'
<1>1. \A m \in Meters : step' = "over" \/ Passed(m)' => Passed(m) \/ Matches(mask, m)
  BY NextDigitLemma DEF SearchTypeOK, MaskOK
<1>2. ASSUME NEW m \in Meters \ Headless, ~Twin(m), step' = "over" \/ Passed(m)'
      PROVE  m \in Found
  BY <1>1, <1>2 DEF SoundOrder, Matching
<1> QED
  BY <1>2 DEF SoundOrder, Found

\* Where several meters match all digits, each is another's twin.
LEMMA FullMask ==
    ASSUME MaskOK, Len(mask) = secondaryDigits, Cardinality(Matching(mask)) # 1
    PROVE  \A m \in Matching(mask) : Twin(m)
<1> SUFFICES ASSUME NEW m \in Matching(mask) PROVE Twin(m)
  OBVIOUS
<1>1. Matching(mask) \in SUBSET Meters
  BY DEF Matching
<1>2. PICK n \in Matching(mask) : n # m
  BY <1>1, OneOrMore
<1>3. m \in Meters /\ n \in Meters /\ Matches(mask, m) /\ Matches(mask, n)
  BY DEF Matching
<1>4. /\ Id[m] \in Seq(0..MaxDigit) /\ Len(Id[m]) = Len(mask)
      /\ Id[n] \in Seq(0..MaxDigit) /\ Len(Id[n]) = Len(mask)
  BY <1>3, NumberLemma
<1>5. Id[m] = Id[n]
  <2>1. \A i \in 1..Len(mask) : Id[m][i] = Id[n][i]
    BY <1>3, MatchesLemma
  <2> QED
    BY <1>4, <2>1, SeqEqual
<1> QED
  BY <1>2, <1>3, <1>5 DEF Twin

\* Below a mask that several meters match, or one that does not tell its number, the
\* search goes deeper, and is done with it where there is no deeper.
LEMMA NarrowSound ==
    ASSUME SearchTypeOK, SoundOrder, UNCHANGED found, step # "over", Narrow,
           Cardinality(Matching(mask)) # 1 \/ Matching(mask) \subseteq Headless
    PROVE  SoundOrder'
<1>1. MaskOK
  BY DEF SearchTypeOK, MaskOK
<1>2. CASE Len(mask) = secondaryDigits /\ NextDigit
  BY <1>1, <1>2, FullMask, MaskIsDone
<1>3. CASE step' = "select" /\ \A m \in Meters : Passed(m)' <=> Passed(m)
  BY <1>3 DEF SoundOrder, Found
<1> QED
  BY <1>1, <1>2, <1>3, NarrowLemma

\* What a selection's answer means is true of the meters that match.
LEMMA SelectedSound ==
    ASSUME SearchTypeOK, SoundOrder, SoundPlaces, Selected, err' = {}
    PROVE  SoundOrder' /\ SoundPlaces'
<1>1. /\ step = "selecting" /\ op = "none" /\ op' = "none" /\ selected = Matching(mask)
      /\ outbox' = <<>> /\ line' = <<>> /\ selected' = selected
      /\ ret.err # {} => buf = <<>>
      /\ "ErrReadTimeout" \in ret.err => selected = {}
      /\ Cardinality(selected) = 1 => ret.err = {} /\ ret.msg = Ack /\ buf = <<>>
  BY DEF Selected, At, SoundPlaces, clientButBuf, busVars
<1>2. CASE Responded /\ step' = "request" /\ UNCHANGED <<mask, found>>
  <2>1. Void'
    BY <1>1, <1>2 DEF Responded, Void
  <2> QED
    BY <1>1, <1>2, <2>1, OrderStays DEF SoundPlaces
<1>3. CASE Silent /\ NextDigit /\ UNCHANGED found
  <2>1. selected = {} /\ buf' = <<>>
    BY <1>1, <1>3 DEF Silent
  <2>2. Void' /\ step' \in {"select", "over"}
    BY <1>1, <1>3, <2>1, DigitType DEF Void
  <2>3. SoundOrder'
    BY <1>1, <1>3, <2>1, MaskIsDone
  <2> QED
    BY <2>2, <2>3 DEF SoundPlaces
<1>4. CASE Collision /\ Narrow /\ UNCHANGED found
  <2>1. Void' /\ step' \in {"select", "over"}
    BY <1>1, <1>4, DigitType DEF Collision, Void
  <2>2. Cardinality(Matching(mask)) # 1
    BY <1>1, <1>4 DEF Collision, isBusNoise
  <2>3. SoundOrder'
    BY <1>1, <1>4, <2>2, NarrowSound
  <2> QED
    BY <2>1, <2>3 DEF SoundPlaces
<1>5. ~(SelectFailed /\ Abort(ret.err))
  BY DEF SelectFailed, Abort
<1> QED
  BY <1>2, <1>3, <1>4, <1>5 DEF Selected

\* The meter that answers alone is found, and where several do the search goes deeper.
LEMMA RequestedSound ==
    ASSUME SearchInv, clean, SoundOrder, SoundPlaces, Requested, err' = {}
    PROVE  SoundOrder' /\ SoundPlaces'
<1>1. /\ step = "requesting" /\ op = "none" /\ UNCHANGED <<clientVars, busVars, selected>>
      /\ Void /\ selected = Matching(mask)
      /\ ret.err = {} => selected = {ret.msg}
      /\ ret.err # {} => Cardinality(selected) # 1
      /\ SearchTypeOK
  BY DEF Requested, At, SoundPlaces, SearchInv, HeardInv
<1>2. Void' /\ step' \in {"select", "over"}
  BY <1>1, DigitType DEF Requested, Abort, Void, clientVars, busVars
<1>3. CASE /\ ret.err = {} /\ ret.msg \in Meters \ Headless /\ found' = Append(found, ret.msg)
           /\ NextDigit
  <2> DEFINE m == ret.msg
  <2>1. m \in Meters /\ found' = Append(found, m) /\ \A n \in Meters : Matches(mask, n) => n = m
    BY <1>1, <1>3 DEF Matching
  <2> HIDE DEF m
  <2>2. Found \cup {m} \subseteq Found'
    <3>1. found \in Seq(Meters) /\ Len(found) \in Nat
      BY <1>1, LenProperties DEF SearchTypeOK
    <3>2. /\ Len(found') = Len(found) + 1 /\ found'[Len(found) + 1] = m
          /\ \A i \in 1..Len(found) : found'[i] = found[i]
      BY <2>1, <3>1, AppendProperties
    <3>3. ASSUME NEW x \in Found PROVE x \in Found'
      <4>1. PICK i \in 1..Len(found) : x = found[i]
        BY <3>3 DEF Found
      <4>2. i \in 1..Len(found') /\ x = found'[i]
        BY <3>1, <3>2, <4>1
      <4> QED
        BY <4>2 DEF Found
    <3>4. Len(found) + 1 \in 1..Len(found')
      BY <3>1, <3>2
    <3>5. m \in Found'
      BY <3>2, <3>4 DEF Found
    <3> QED
      BY <3>3, <3>5
  <2>3. \A n \in Meters : step' = "over" \/ Passed(n)' => Passed(n) \/ Matches(mask, n)
    BY <1>1, <1>3, NextDigitLemma DEF SearchTypeOK, MaskOK
  <2>4. SoundOrder'
    BY <2>1, <2>2, <2>3 DEF SoundOrder
  <2> QED
    BY <1>2, <2>4 DEF SoundPlaces
<1>4. CASE /\ (ret.err = {} /\ ret.msg \in {Ack} \cup Headless) \/ isBusNoise(ret.err)
           /\ Narrow /\ UNCHANGED found
  <2>1. Cardinality(Matching(mask)) # 1 \/ Matching(mask) \subseteq Headless
    <3>1. selected \in SUBSET Meters /\ Ack \notin Meters
      BY <1>1, SelectionAssumption DEF SearchTypeOK
    <3>2. ret.err = {} => ret.msg \in Headless
      BY <1>1, <1>4, <3>1 DEF isBusNoise
    <3> QED
      BY <1>1, <3>2
  <2>2. SoundOrder'
    BY <1>1, <1>4, <2>1, NarrowSound
  <2> QED
    BY <1>2, <2>2 DEF SoundPlaces
<1> QED
  BY <1>3, <1>4 DEF Requested, HeaderRefused, Abort

\* The probe takes the answer once it is there, and finds in it what was sent.
LEMMA LookSound ==
    ASSUME Telling, Legal, SearchTypeOK, SoundOrder, SoundPlaces, Look, op # "none",
           UNCHANGED <<busVars, selected, step, mask, found, err>>,
           op' = "none" => line' = <<>>
    PROVE  SoundOrder' /\ SoundPlaces'
<1>1. /\ step \in {"selecting", "requesting"} /\ op \in {"probeSilence", "probeResponse"}
      /\ UNCHANGED <<line, outbox, selected, step, mask, found>>
      /\ Matching(mask)' = Matching(mask) /\ selected \in SUBSET Meters
      /\ at = "look" /\ selected' = selected
  BY CallIsOfSearch, ProbeOutcomes DEF busVars, Matching, Matches, SearchTypeOK
<1>2. SoundOrder'
  BY <1>1, OrderStays
<1>3. /\ step = "selecting" => selected = Matching(mask) /\ Coming(Acks(selected))
      /\ step = "requesting" => Coming(Data(selected))
  BY <1>1 DEF SoundPlaces
<1>4. CASE op' # "none"
  <2>1. /\ buf' = buf /\ (late' => late)
        /\ \/ at' = "fill" /\ Starved(buf)
           \/ at' = "look"
    BY <1>1, <1>4, ProbeOutcomes
  <2>2. ASSUME NEW T, Coming(T), \A q \in T : selected # {} => ~Starved(q)
        PROVE  \/ selected = {} /\ Void'
               \/ selected # {} /\ \E q \in T : Only(q)'
    BY <1>1, <2>1, <2>2 DEF Coming, Only, Void
  <2>3. CASE step = "selecting"
    <3>1. \/ selected = {} /\ Void'
          \/ selected # {} /\ \E q \in Acks(selected) : Only(q)'
      BY <1>1, <1>3, <2>2, <2>3, AcksTake
    <3>2. Acks(selected)' = Acks(selected)
      BY <1>1 DEF Acks
    <3>3. Coming(Acks(selected))'
      BY <1>1, <3>1, <3>2 DEF Coming
    <3> QED
      BY <1>1, <1>2, <1>3, <1>4, <2>3, <3>3 DEF SoundPlaces
  <2>4. CASE step = "requesting"
    <3>1. \/ selected = {} /\ Void'
          \/ selected # {} /\ \E q \in Data(selected) : Only(q)'
      BY <1>1, <1>3, <2>2, <2>4, DataTake
    <3>2. Data(selected)' = Data(selected)
      BY <1>1 DEF Data
    <3>3. Coming(Data(selected))'
      BY <1>1, <3>1, <3>2 DEF Coming
    <3> QED
      BY <1>1, <1>2, <1>4, <2>4, <3>3 DEF SoundPlaces
  <2> QED
    BY <1>1, <2>3, <2>4
<1>5. CASE op' = "none"
  <2>1. /\ ~Starved(buf)
        /\ \/ \E k \in Msg : /\ takeBufferedFrame(buf) = Parsed(k) /\ buf' = Drop(buf, Size[k])
                             /\ ret'.err = {} /\ ret'.msg = k
           \/ \E e \in Malformed : /\ takeBufferedFrame(buf) = Failed(e) /\ buf' = <<>>
                                   /\ ret'.err = {e}
    BY <1>1, <1>5, ProbeOutcomes
  <2>2. ASSUME NEW T, Coming(T)
        PROVE  selected # {} /\ buf \in T /\ outbox = <<>> /\ line = <<>>
    <3>1. line = <<>> /\ buf # <<>> /\ buf \in Seq(Byte)
      BY <1>1, <1>5, <2>1, EmptyIsStarved DEF Starved, SearchTypeOK, ClientTypeOK
    <3>2. buf \o line = buf
      BY <3>1, ConcatEmptySeq
    <3> QED
      BY <2>2, <3>1, <3>2 DEF Coming, Only, Void
  <2>3. /\ \A k \in Msg : Parsed(k).err = {} /\ Parsed(k).msg = k
        /\ \A e : Failed(e).err = {e}
        /\ "ErrReadTimeout" \notin Malformed
    BY DEF Parsed, Failed, Malformed
  <2>4. ASSUME NEW k \in Msg, takeBufferedFrame(buf) = Parsed(k)
        PROVE  ret'.err = {} /\ ret'.msg = k /\ buf' = Drop(buf, Size[k])
    <3>1. \A e : Failed(e) # Parsed(k)
      BY <2>3
    <3>2. \A j \in Msg : Parsed(j) = Parsed(k) => j = k
      BY <2>3
    <3> QED
      BY <2>1, <2>4, <3>1, <3>2
  <2>5. ASSUME takeBufferedFrame(buf) = Failed("ErrInvalidFrame")
        PROVE  ret'.err # {} /\ buf' = <<>>
    <3>1. \A k \in Msg : Parsed(k) # Failed("ErrInvalidFrame")
      BY <2>3
    <3> QED
      BY <2>1, <2>5, <3>1
  <2>6. CASE step = "selecting"
    <3>1. /\ outbox = <<>> /\ line = <<>> /\ buf \in Seq(Byte) /\ buf \in Acks(selected)
          /\ Cardinality(selected) = 1 => takeBufferedFrame(buf) = Parsed(Ack)
                                          /\ Len(buf) = Size[Ack]
      BY <1>1, <1>3, <2>2, <2>6, AcksTake
    <3>2. Cardinality(selected) = 1 => ret'.err = {} /\ ret'.msg = Ack /\ buf' = <<>>
      <4> SUFFICES ASSUME Cardinality(selected) = 1
                   PROVE  ret'.err = {} /\ ret'.msg = Ack /\ buf' = <<>>
        OBVIOUS
      <4>1. Ack \in Msg
        BY ClientAssumption
      <4>2. ret'.err = {} /\ ret'.msg = Ack /\ buf' = Drop(buf, Size[Ack])
        BY <2>4, <3>1, <4>1
      <4>3. buf' = <<>>
        BY <3>1, <4>2, DropAll
      <4> QED
        BY <4>2, <4>3
    <3>3. ret'.err # {} => buf' = <<>> /\ "ErrReadTimeout" \notin ret'.err
      BY <2>1, <2>3
    <3> QED
      BY <1>1, <1>2, <1>3, <1>5, <2>6, <3>1, <3>2, <3>3 DEF SoundPlaces
  <2>7. CASE step = "requesting"
    <3>1. /\ outbox = <<>> /\ line = <<>> /\ buf \in Seq(Byte) /\ buf \in Data(selected)
          /\ \/ \E m \in selected : /\ selected = {m} /\ takeBufferedFrame(buf) = Parsed(m)
                                    /\ Len(buf) = Size[m]
             \/ Cardinality(selected) # 1 /\ takeBufferedFrame(buf) = Failed("ErrInvalidFrame")
      BY <1>1, <1>3, <2>2, <2>7, DataTake
    <3>2. CASE Cardinality(selected) # 1 /\ takeBufferedFrame(buf) = Failed("ErrInvalidFrame")
      <4>1. buf' = <<>> /\ ret'.err # {}
        BY <2>5, <3>2
      <4> QED
        BY <1>1, <1>2, <1>5, <2>7, <3>1, <3>2, <4>1 DEF SoundPlaces, Void
    <3>3. ASSUME NEW m \in selected, selected = {m}, takeBufferedFrame(buf) = Parsed(m),
                 Len(buf) = Size[m]
          PROVE  SoundPlaces'
      <4>1. m \in Msg
        BY <1>1, SelectionAssumption
      <4>2. ret'.err = {} /\ ret'.msg = m /\ buf' = Drop(buf, Size[m])
        BY <2>4, <3>3, <4>1
      <4>3. buf' = <<>>
        BY <3>1, <3>3, <4>2, DropAll
      <4> QED
        BY <1>1, <1>5, <2>7, <3>1, <3>3, <4>2, <4>3 DEF SoundPlaces, Void
    <3> QED
      BY <1>2, <3>1, <3>2, <3>3
  <2> QED
    BY <1>1, <2>6, <2>7
<1> QED
  BY <1>4, <1>5

\* A Read returns a piece of the answer, and fill gives up only where there is none to
\* come.
LEMMA FillSound ==
    ASSUME Telling, Legal, SearchTypeOK, Sound, SoundOrder, SoundPlaces, Fill, op # "none",
           UNCHANGED <<busVars, selected, step, mask, found, err>>
    PROVE  SoundOrder' /\ SoundPlaces'
<1>1. /\ step \in {"selecting", "requesting"} /\ ClientTypeOK
      /\ UNCHANGED <<conn, ctx, outbox, selected, step, mask, found>>
      /\ at = "fill" /\ at' = "look" /\ ~late'
      /\ Matching(mask)' = Matching(mask)
      /\ line \in Seq(Byte) /\ Len(line) \in Nat /\ buf \in Seq(Byte)
      /\ selected \in SUBSET Meters
  BY CallIsOfSearch, FillOutcomes, LenProperties
     DEF SearchTypeOK, ClientTypeOK, busVars, Matching, Matches
<1>2. SoundOrder'
  BY <1>1, OrderStays
<1>3. /\ step = "selecting" => selected = Matching(mask) /\ Coming(Acks(selected))
      /\ step = "requesting" => Coming(Data(selected))
  BY <1>1 DEF SoundPlaces
<1>4. CASE FillTimedOut
  <2>1. late /\ GiveUp("ErrReadTimeout")
    BY <1>4 DEF FillTimedOut, Past, Sound
  <2>2. op' = "none" /\ ret'.err = {"ErrReadTimeout"} /\ UNCHANGED <<line, buf>>
    BY <1>1, <2>1, CallIsOfSearch DEF GiveUp, Return, wrapFillErr
  <2>3. selected = {} /\ Void
    <3>1. ASSUME NEW q, ~Starved(q), Only(q) PROVE FALSE
      <4>1. line = <<>> /\ buf \o line = q /\ Starved(buf)
        BY <1>1, <2>1, <3>1 DEF Only
      <4>2. buf = q
        BY <1>1, <4>1, ConcatEmptySeq
      <4> QED
        BY <3>1, <4>1, <4>2
    <3>2. selected # {} => \A q \in Acks(selected) \cup Data(selected) : ~Starved(q)
      BY <1>1, AcksTake, DataTake
    <3> QED
      BY <1>1, <1>3, <3>1, <3>2 DEF Coming
  <2>4. Cardinality(selected) # 1
    BY <2>3, OneOrMore
  <2> QED
    BY <1>1, <1>2, <1>3, <2>2, <2>3, <2>4 DEF SoundPlaces, Void
<1>5. ASSUME NEW c \in 1..Len(line), FillBytes(c), op' = op, ~late, line # <<>>
      PROVE  SoundOrder' /\ SoundPlaces'
  <2>1. selected # {} /\ outbox = <<>>
    BY <1>1, <1>3, <1>5 DEF Coming, Only, Void
  <2>2. buf' \o line' = buf \o line
    BY <1>1, <1>5, FillConserves
  <2>6. ASSUME NEW T, Coming(T) PROVE \E q \in T : Only(q)'
    BY <1>1, <1>5, <2>1, <2>2, <2>6 DEF Coming, Only, Void
  <2>7. CASE step = "selecting"
    <3>1. \E q \in Acks(selected) : Only(q)'
      BY <1>3, <2>6, <2>7
    <3>2. selected' = selected /\ Acks(selected)' = Acks(selected)
      BY <1>1 DEF Acks
    <3>3. Coming(Acks(selected))'
      BY <2>1, <3>1, <3>2 DEF Coming
    <3> QED
      BY <1>1, <1>2, <1>3, <1>5, <2>7, <3>3 DEF SoundPlaces
  <2>8. CASE step = "requesting"
    <3>1. \E q \in Data(selected) : Only(q)'
      BY <1>3, <2>6, <2>8
    <3>2. selected' = selected /\ Data(selected)' = Data(selected)
      BY <1>1 DEF Data
    <3>3. Coming(Data(selected))'
      BY <2>1, <3>1, <3>2 DEF Coming
    <3> QED
      BY <1>1, <1>2, <1>5, <2>8, <3>3 DEF SoundPlaces
  <2> QED
    BY <1>1, <2>7, <2>8
<1> QED
  BY <1>4, <1>5, FillOutcomes, <1>1
     DEF Fill, FillCtxEnded, FillConnFailed, FillBytes, CtxErr, CtxErrors, Sound

\* The answer goes on the line as it is, and no deadline passes before it has.
LEMMA OutsideSound ==
    ASSUME Prompt, Telling, Legal, SearchTypeOK, SoundOrder, SoundPlaces,
           Transmit \/ Deadline, ~Fault
    PROVE  SoundOrder' /\ SoundPlaces'
<1>1. /\ UNCHANGED <<buf, op, at, ret, selected, step, mask, found>>
      /\ Acks(selected)' = Acks(selected) /\ Data(selected)' = Data(selected)
      /\ Matching(mask)' = Matching(mask)
  BY DEF Transmit, TransmitWhole, TransmitDamaged, Receive, Deadline, BusDeadline,
     DeadlinePasses, scanVars, Acks, Data, Matching, Matches
<1>2. SoundOrder'
  BY <1>1, OrderStays
<1>3. CASE Transmit
  <2>1. /\ outbox # <<>> /\ outbox' = Tail(outbox) /\ line' = line \o Head(outbox)
        /\ UNCHANGED late
    BY <1>3 DEF Transmit, TransmitWhole, TransmitDamaged, Receive
  <2>2. ASSUME NEW q \in Seq(Byte), Only(q)
        PROVE  Only(q)'
    <3>1. outbox = <<q>> /\ line = <<>> /\ buf = <<>> /\ ~late
      BY <2>1, <2>2 DEF Only
    <3>2. outbox' = <<>> /\ line' = <<>> \o q
      BY <2>1, <3>1
    <3>3. line' = q /\ <<>> \o q = q
      BY <2>2, <3>2, ConcatEmptySeq
    <3>4. buf' \o line' = q /\ Starved(buf')
      BY <1>1, <3>1, <3>3, EmptyIsStarved DEF Starved
    <3> QED
      BY <1>1, <2>1, <3>1, <3>2, <3>4 DEF Only
  <2>3. Acks(selected) \subseteq Seq(Byte) /\ Data(selected) \subseteq Seq(Byte)
    BY SentLemma DEF SearchTypeOK
  <2>4. ASSUME NEW T, T \subseteq Seq(Byte), Coming(T)
        PROVE  selected # {} /\ \E q \in T : Only(q)'
    BY <2>1, <2>2, <2>4 DEF Coming, Void
  <2>5. step = "selecting" /\ op # "none" => Coming(Acks(selected))'
    <3> SUFFICES ASSUME step = "selecting", op # "none" PROVE Coming(Acks(selected))'
      OBVIOUS
    <3>1. selected # {} /\ \E q \in Acks(selected) : Only(q)'
      BY <2>3, <2>4 DEF SoundPlaces
    <3> QED
      BY <1>1, <3>1 DEF Coming
  <2>6. step = "requesting" /\ op # "none" => Coming(Data(selected))'
    <3> SUFFICES ASSUME step = "requesting", op # "none" PROVE Coming(Data(selected))'
      OBVIOUS
    <3>1. selected # {} /\ \E q \in Data(selected) : Only(q)'
      BY <2>3, <2>4 DEF SoundPlaces
    <3> QED
      BY <1>1, <3>1 DEF Coming
  <2> QED
    BY <1>1, <1>2, <2>1, <2>5, <2>6 DEF SoundPlaces, Void
<1>4. CASE Deadline
  <2>1. Quiet /\ UNCHANGED <<line, outbox>>
    BY <1>4 DEF Deadline, BusDeadline, DeadlinePasses, busVars
  <2>2. ASSUME NEW q, q # <<>>, Only(q)
        PROVE  Only(q)'
    BY <1>1, <2>1, <2>2 DEF Only, Quiet, Starved
  <2>3. step = "selecting" /\ op # "none" => Coming(Acks(selected))'
    <3> SUFFICES ASSUME step = "selecting", op # "none" PROVE Coming(Acks(selected))'
      OBVIOUS
    <3>1. Coming(Acks(selected))
      BY DEF SoundPlaces
    <3>2. selected # {} => <<>> \notin Acks(selected)
      BY AcksTake DEF SearchTypeOK
    <3>3. selected # {} => \E q \in Acks(selected) : Only(q)'
      BY <2>2, <3>1, <3>2 DEF Coming
    <3> QED
      BY <1>1, <2>1, <3>1, <3>3 DEF Coming, Void
  <2>4. step = "requesting" /\ op # "none" => Coming(Data(selected))'
    <3> SUFFICES ASSUME step = "requesting", op # "none" PROVE Coming(Data(selected))'
      OBVIOUS
    <3>1. Coming(Data(selected))
      BY DEF SoundPlaces
    <3>2. selected # {} => <<>> \notin Data(selected)
      BY DataTake DEF SearchTypeOK
    <3>3. selected # {} => \E q \in Data(selected) : Only(q)'
      BY <2>2, <3>1, <3>2 DEF Coming
    <3> QED
      BY <1>1, <2>1, <3>1, <3>3 DEF Coming, Void
  <2> QED
    BY <1>1, <1>2, <2>1, <2>3, <2>4 DEF SoundPlaces, Void
<1> QED
  BY <1>3, <1>4

\* No number is passed by the first mask.
LEMMA InitSound == Init => SoundInv
<1> SUFFICES ASSUME Init PROVE SoundInv
  OBVIOUS
<1>1. mask = <<0>> /\ step = "select" /\ op = "none" /\ Void
  BY DEF Init, ClientInit, BusInit, Void
<1>2. ASSUME NEW m \in Meters PROVE ~Passed(m)
  <2>1. Id[m][1] \in Nat
    BY NumberLemma, ScanSecondaryAssumption
  <2> QED
    BY <1>1, <2>1 DEF Passed
<1> QED
  BY <1>1, <1>2 DEF SoundInv, SoundOrder, SoundPlaces

\* Every step keeps the invariant.
LEMMA NextSound ==
    ASSUME Prompt, Legal, Telling, SearchInv, SoundInv, [Next]_vars
    PROVE  SoundInv'
<1> SUFFICES ASSUME Sound', clean' PROVE SoundOrder' /\ SoundPlaces'
  BY DEF SoundInv
<1>1. /\ SearchTypeOK /\ Sound /\ ~Fault /\ UNCHANGED <<conn, ctx>> /\ err' = {}
      /\ clean
  BY SoundBefore, CleanBefore DEF SearchInv, Sound
<1>2. SoundOrder /\ SoundPlaces
  BY <1>1 DEF SoundInv
<1>3. CASE Read
  <2>1. /\ UNCHANGED <<busVars, selected, step, mask, found, err>> /\ (Look \/ Fill)
        /\ op' = "none" => line' = <<>>
    BY <1>3 DEF Read, BusStep, ClientStep
  <2>2. op # "none"
    BY <1>1, <1>3, ClientStepType DEF Read, BusStep, SearchTypeOK
  <2> QED
    BY <1>1, <1>2, <2>1, <2>2, LookSound, FillSound
<1>4. CASE WriteRefused
  BY <1>1, <1>4 DEF WriteRefused, Abort, WriteError
<1>5. CASE Cancel \/ Break
  BY <1>1, <1>5 DEF Cancel, CtxEnds, Break, ConnFails, ConnErrors, Sound
<1>6. CASE UNCHANGED vars
  BY <1>2, <1>6 DEF vars, clientVars, busVars, scanVars, SoundOrder, SoundPlaces, Passed, Found,
     Void, Coming, Only, Acks, Data, Matching, Matches
<1> QED
  BY <1>1, <1>2, <1>3, <1>4, <1>5, <1>6, SendSound, SelectedSound, RequestedSound, OutsideSound
     DEF Next, Master

\* On a bus that no fault hit, of prompt meters with legal frames whose acknowledgements
\* overlap to something that is no start of a frame, a search that ends with no error has
\* found every meter that tells a number no other meter has (scan.go 136-149), as long as
\* no probe returned before its answer had all been read.
THEOREM SoundSearchIsComplete ==
    Prompt /\ Legal /\ Telling => (Spec => []SoundSearchFindsAll)
<1> SUFFICES ASSUME Prompt, Legal, Telling PROVE Spec => []SoundSearchFindsAll
  OBVIOUS
<1>1. Init => SearchInv /\ SoundInv
  BY InitSearch, InitSound
<1>2. SearchInv /\ SoundInv /\ [Next]_vars => (SearchInv /\ SoundInv)'
  BY NextSearch, NextSound
<1>3. SoundInv => SoundSearchFindsAll
  BY DEF SoundInv, SoundSearchFindsAll, FindsAll, Sound, SoundOrder
<1> QED
  BY <1>1, <1>2, <1>3, PTL DEF Spec

=============================================================================
