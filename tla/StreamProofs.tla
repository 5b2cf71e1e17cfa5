---------------------------- MODULE StreamProofs ----------------------------
(***************************************************************************)
(* Theorems about Stream, for every value of its constants: any answers,   *)
(* transmissions, number of transmissions and calls.  On any line no frame *)
(* is made of noise and none returned twice; on a sound one the Client is  *)
(* a queue of answers.                                                     *)
(***************************************************************************)
EXTENDS Stream, ClientProofs, FiniteSetTheorems, FunctionTheorems

\* A read loop is in fill only inside a call, a call in progress has returned
\* nothing, the calls are those the caller makes, and on a sound line the
\* transport stays up.
Busy ==
    /\ op = "none" => at = "look"
    /\ op # "none" => ret.err = {}
    /\ op \in Calls \cup {"none", "probeResponse"}
    /\ SoundLine => conn = "up"

-----------------------------------------------------------------------------
(* The types                                                               *)

LEMMA InitType == Init => TypeOK
<1> SUFFICES ASSUME Init PROVE TypeOK
  OBVIOUS
<1>1. <<>> \in Seq(Byte)
  BY EmptySeq
<1>2. NoResult \in Results
  BY DEF NoResult, Results
<1>3. ClientTypeOK
  BY <1>1, <1>2 DEF Init, ClientInit, ClientTypeOK
<1> QED
  BY <1>3, StreamAssumption DEF Init, TypeOK

LEMMA NextType == TypeOK /\ Busy /\ [Next]_vars => TypeOK'
<1> SUFFICES ASSUME TypeOK, Busy, [Next]_vars PROVE TypeOK'
  OBVIOUS
<1> USE DEF TypeOK
<1>1. ASSUME NEW o \in Calls, Begin(o) PROVE TypeOK'
  <2>1. NoResult \in Results
    BY DEF NoResult, Results
  <2> QED
    BY <1>1, <2>1, StreamAssumption DEF Begin, Call, ClientTypeOK
<1>2. ASSUME NEW t \in Transmissions, Transmit(t) PROVE TypeOK'
  <2>1. line' \in Seq(Byte)
    BY <1>2, StreamAssumption, ConcatProperties DEF Transmit, Receive, ClientTypeOK
  <2>2. credit' \in [Msg -> Int] /\ sends' \in 0..MaxSends
    BY <1>2, StreamAssumption DEF Transmit
  <2> QED
    BY <1>2, <2>1, <2>2 DEF Transmit, Receive, ClientTypeOK
<1>3. CASE Step
  <2>1. ClientTypeOK'
    BY <1>3, ClientStepType DEF Busy, Step
  <2>2. ASSUME NEW m PROVE [credit EXCEPT ![m] = @ - 1] \in [Msg -> Int]
    <3> DEFINE less == [k \in Msg |-> IF k = m THEN credit[m] - 1 ELSE credit[k]]
    <3>1. [credit EXCEPT ![m] = @ - 1] = less
      OBVIOUS
    <3>2. ASSUME NEW k \in Msg PROVE less[k] \in Int
      BY <3>2
    <3> QED
      BY <3>1, <3>2
  <2>3. credit' \in [Msg -> Int]
    BY <1>3, <2>2 DEF Step
  <2> QED
    BY <1>3, <2>1, <2>3 DEF Step
<1>4. CASE Shut
  <2>1. <<>> \in Seq(Byte)
    BY EmptySeq
  <2> QED
    BY <1>4, <2>1 DEF Shut, Close, ClientTypeOK, ConnErrors
<1>5. CASE Fail
  <2>1. <<>> \in Seq(Byte)
    BY EmptySeq
  <2> QED
    BY <1>5, <2>1 DEF Fail, ConnFails, ClientTypeOK
<1>6. CASE Deadline
  BY <1>6 DEF Deadline, DeadlinePasses, ClientTypeOK
<1>7. CASE Cancel
  BY <1>7 DEF Cancel, CtxEnds, ClientTypeOK, CtxErrors
<1>8. CASE UNCHANGED vars
  BY <1>8 DEF vars, clientVars, ClientTypeOK
<1> QED
  BY <1>1, <1>2, <1>3, <1>4, <1>5, <1>6, <1>7, <1>8 DEF Next

LEMMA NextBusy == TypeOK /\ Busy /\ [Next]_vars => Busy'
<1> SUFFICES ASSUME TypeOK, Busy, [Next]_vars PROVE Busy'
  OBVIOUS
<1> USE DEF Busy
<1>0. SoundLine => ~MayFail
  BY DEF SoundLine
<1>1. ASSUME NEW o \in Calls, Begin(o) PROVE Busy'
  BY <1>1 DEF Begin, Call, NoResult
<1>2. ASSUME NEW t \in Transmissions, Transmit(t) PROVE Busy'
  BY <1>2 DEF Transmit, Receive
<1>3. CASE Step
  <2>1. CASE LookForLongFrame
    BY <2>1 DEF LookForLongFrame, GoFill, Return
  <2>2. CASE LookForSingleChar
    BY <2>2 DEF LookForSingleChar, GoFill, Return
  <2>3. CASE LookForFirstByte
    BY <2>3 DEF LookForFirstByte, GoFill
  <2>4. CASE LookForAnswer
    BY <2>4 DEF LookForAnswer, GoFill, Return
  <2>5. ASSUME NEW e, GiveUp(e) PROVE Busy'
    BY <2>5 DEF GiveUp, Return
  <2>6. ASSUME NEW n \in 1..Len(line), FillBytes(n) PROVE Busy'
    BY <2>6 DEF FillBytes
  <2> QED
    BY <1>3, <2>1, <2>2, <2>3, <2>4, <2>5, <2>6
       DEF Step, ClientStep, Look, Fill, FillCtxEnded, FillTimedOut, FillConnFailed
<1>4. CASE Shut
  BY <1>0, <1>4 DEF Shut, Close
<1>5. CASE Fail
  BY <1>0, <1>5 DEF Fail, ConnFails
<1>6. CASE Deadline
  BY <1>6 DEF Deadline, DeadlinePasses
<1>7. CASE Cancel
  BY <1>7 DEF Cancel, CtxEnds
<1>8. CASE UNCHANGED vars
  BY <1>8 DEF vars, clientVars
<1> QED
  BY <1>1, <1>2, <1>3, <1>4, <1>5, <1>6, <1>7, <1>8 DEF Next

LEMMA InitBusy == Init => Busy
  BY DEF Init, ClientInit, NoResult, Busy

\* Every variable keeps its type, on any line and transport: what a call
\* returns is a frame or errors a caller knows, errNeedMore never among them.
THEOREM TypeCorrect == Spec => []TypeOK
<1>1. Init => TypeOK /\ Busy
  BY InitType, InitBusy
<1>2. TypeOK /\ Busy /\ [Next]_vars => (TypeOK /\ Busy)'
  BY NextType, NextBusy
<1> QED
  BY <1>1, <1>2, PTL DEF Spec

-----------------------------------------------------------------------------
(* Whole answers, one after the other                                      *)

\* A byte of an answer names the answer and a place in it.
LEMMA WireLemma ==
    ASSUME NEW b \in Wire
    PROVE  b[1] \in Msg /\ b[2] \in 1..Size[b[1]] /\ b = <<b[1], b[2]>>
  BY DEF Wire

\* The bytes of one answer are aligned: what a slave sends on a sound line.
LEMMA AlignedBytes ==
    ASSUME NEW m \in Msg
    PROVE  Aligned(Bytes(m))
<1> DEFINE s == Bytes(m)
<1>1. Size[m] \in Nat /\ Len(s) = Size[m] /\ s \in Seq(Wire)
  BY BytesLemma, ClientAssumption
<1>2. \A i \in 1..Size[m] : s[i] = <<m, i>> /\ s[i] \in Wire
  BY <1>1, BytesLemma, ElementOfSeq
<1> HIDE DEF s
<1>3. s # <<>> => s[1][2] = 1
  <2> SUFFICES ASSUME s # <<>> PROVE s[1][2] = 1
    OBVIOUS
  <2>1. Len(s) \in Nat \ {0}
    BY <1>1, EmptySeq
  <2> QED
    BY <1>1, <1>2, <2>1
<1>4. ASSUME NEW i \in 1..Len(s), s[i][2] = 1
      PROVE  i = 1 /\ s[i][1] = m
  BY <1>1, <1>2, <1>4
<1>5. ASSUME NEW i \in 1..Len(s), s[i][2] = 1
      PROVE  /\ i + Size[s[i][1]] - 1 <= Len(s)
             /\ \A j \in 1..Size[s[i][1]] : s[i + j - 1] = <<s[i][1], j>>
             /\ ~(i + Size[s[i][1]] <= Len(s))
  <2>1. i = 1 /\ s[i][1] = m
    BY <1>4, <1>5
  <2> QED
    BY <1>1, <1>2, <2>1
<1>6. Aligned(s)
  BY <1>1, <1>2, <1>3, <1>5 DEF Aligned
<1> QED
  BY <1>6 DEF s

\* Aligned bytes behind aligned bytes are aligned: an answer more on the line.
LEMMA AlignedConcat ==
    ASSUME NEW s \in Seq(Byte), NEW t \in Seq(Byte), Aligned(s), Aligned(t)
    PROVE  Aligned(s \o t)
<1> DEFINE u == s \o t
<1>1. /\ Len(s) \in Nat /\ Len(t) \in Nat /\ Len(u) = Len(s) + Len(t)
      /\ \A i \in 1..Len(u) : u[i] = IF i <= Len(s) THEN s[i] ELSE t[i - Len(s)]
      /\ u \in Seq(Byte)
  BY ConcatProperties, LenProperties
<1> HIDE DEF u
<1>2. /\ s # <<>> => Len(s) > 0
      /\ t # <<>> => Len(t) > 0
      /\ u # <<>> => Len(u) > 0
      /\ s = <<>> => Len(s) = 0
      /\ t = <<>> => Len(t) = 0
  BY <1>1, EmptySeq
<1>3. \A i \in 1..Len(u) : u[i] \in Wire
  BY <1>1 DEF Aligned
<1>4. ASSUME u # <<>> PROVE u[1][2] = 1
  <2>1. 1 \in 1..Len(u)
    BY <1>1, <1>2, <1>4
  <2>2. CASE s # <<>>
    <3>1. u[1] = s[1]
      BY <1>1, <1>2, <2>1, <2>2
    <3> QED
      BY <2>2, <3>1 DEF Aligned
  <2>3. CASE s = <<>>
    <3>1. Len(t) > 0 /\ u[1] = t[1]
      BY <1>1, <1>2, <2>1, <2>3
    <3>2. t # <<>>
      BY <3>1, EmptySeq
    <3> QED
      BY <3>1, <3>2 DEF Aligned
  <2> QED
    BY <2>2, <2>3
<1>5. ASSUME NEW i \in 1..Len(u), u[i][2] = 1
      PROVE  LET m == u[i][1] IN
             /\ i + Size[m] - 1 <= Len(u)
             /\ \A j \in 1..Size[m] : u[i + j - 1] = <<m, j>>
             /\ i + Size[m] <= Len(u) => u[i + Size[m]][2] = 1
  <2> DEFINE m == u[i][1]
  <2>1. m \in Msg /\ Size[m] \in Nat /\ Size[m] > 0
    BY <1>3, WireLemma, ClientAssumption
  <2>2. CASE i <= Len(s)
    <3>1. u[i] = s[i] /\ i \in 1..Len(s)
      BY <1>1, <2>2
    <3> HIDE DEF m
    <3>2. /\ i + Size[m] - 1 <= Len(s)
          /\ \A j \in 1..Size[m] : s[i + j - 1] = <<m, j>>
          /\ i + Size[m] <= Len(s) => s[i + Size[m]][2] = 1
      BY <1>5, <3>1 DEF Aligned, m
    <3>3. ASSUME NEW j \in 1..Size[m] PROVE u[i + j - 1] = s[i + j - 1]
      <4>1. Len(s) \in Nat /\ Len(t) \in Nat /\ Len(u) = Len(s) + Len(t)
        BY <1>1
      <4>2. i \in Int /\ i >= 1 /\ Size[m] \in Int /\ i + Size[m] - 1 <= Len(s)
        BY <2>1, <3>2
      <4>3. j \in Int /\ j >= 1 /\ j <= Size[m]
        BY <2>1
      <4> DEFINE k == i + j - 1
      <4>4. k \in Int /\ k >= 1 /\ k <= Len(s) /\ k <= Len(u)
        BY <4>1, <4>2, <4>3
      <4>5. k \in 1..Len(u)
        BY <4>1, <4>4
      <4> HIDE DEF k
      <4>6. u[k] = s[k]
        BY <1>1, <4>4, <4>5
      <4> QED
        BY <4>6 DEF k
    <3>4. i + Size[m] <= Len(s) => u[i + Size[m]] = s[i + Size[m]]
      BY <1>1, <2>1, <2>2
    <3>5. ~(i + Size[m] <= Len(s)) /\ i + Size[m] <= Len(u)
            => u[i + Size[m]] = t[1] /\ t # <<>>
      <4> SUFFICES ASSUME ~(i + Size[m] <= Len(s)), i + Size[m] <= Len(u)
                   PROVE  u[i + Size[m]] = t[1] /\ t # <<>>
        OBVIOUS
      <4>1. i + Size[m] = Len(s) + 1
        BY <1>1, <2>1, <3>2
      <4> QED
        BY <1>1, <1>2, <4>1
    <3>6. t # <<>> => t[1][2] = 1
      BY DEF Aligned
    <3>7. i + Size[m] - 1 <= Len(u)
      BY <1>1, <2>1, <3>2
    <3> QED
      BY <3>2, <3>3, <3>4, <3>5, <3>6, <3>7 DEF m
  <2>3. CASE ~(i <= Len(s))
    <3> DEFINE k == i - Len(s)
    <3>1. u[i] = t[k] /\ k \in 1..Len(t) /\ i = k + Len(s)
      BY <1>1, <2>3
    <3> HIDE DEF m
    <3>2. /\ k + Size[m] - 1 <= Len(t)
          /\ \A j \in 1..Size[m] : t[k + j - 1] = <<m, j>>
          /\ k + Size[m] <= Len(t) => t[k + Size[m]][2] = 1
      BY <1>5, <3>1 DEF Aligned, m
    <3> HIDE DEF k
    <3>3. ASSUME NEW j \in 1..Size[m] PROVE u[i + j - 1] = t[k + j - 1]
      <4>0. k + Size[m] - 1 <= Len(t) /\ k \in Int /\ k >= 1 /\ i = k + Len(s)
        BY <1>1, <3>1, <3>2
      <4>1. k + j - 1 \in 1..Len(t) /\ i + j - 1 = (k + j - 1) + Len(s)
        BY <1>1, <2>1, <4>0
      <4>2. i + j - 1 \in 1..Len(u) /\ ~(i + j - 1 <= Len(s))
        BY <1>1, <4>1
      <4>3. (i + j - 1) - Len(s) = k + j - 1
        BY <1>1, <2>1, <3>1
      <4> QED
        BY <1>1, <4>2, <4>3
    <3>4. i + Size[m] <= Len(u) => k + Size[m] <= Len(t) /\ u[i + Size[m]] = t[k + Size[m]]
      BY <1>1, <2>1, <3>1
    <3>5. i + Size[m] - 1 <= Len(u)
      BY <1>1, <2>1, <3>1, <3>2
    <3> QED
      BY <3>2, <3>3, <3>4, <3>5 DEF m
  <2> QED
    BY <2>2, <2>3
<1>6. Aligned(u)
  BY <1>3, <1>4, <1>5 DEF Aligned
<1> QED
  BY <1>6 DEF u

\* The same behind bytes of which a part is buffered.
LEMMA AlignedAppend ==
    ASSUME NEW b \in Seq(Byte), NEW l \in Seq(Byte), NEW t \in Seq(Byte),
           Aligned(b \o l), Aligned(t)
    PROVE  Aligned(b \o (l \o t))
<1>1. b \o l \in Seq(Byte)
  BY ConcatProperties
<1>2. Aligned((b \o l) \o t)
  BY <1>1, AlignedConcat
<1>3. (b \o l) \o t = b \o (l \o t)
  BY ConcatAssociative
<1> QED
  BY <1>2, <1>3

\* Of aligned bytes the answer at the head is there whole, and what is left
\* when it is taken is aligned.
LEMMA AlignedHead ==
    ASSUME NEW s \in Seq(Byte), Aligned(s), s # <<>>
    PROVE  LET m == s[1][1] IN
           /\ m \in Msg
           /\ Size[m] \in 1..Len(s)
           /\ \A j \in 1..Size[m] : s[j] = <<m, j>>
           /\ Aligned(Drop(s, Size[m]))
<1> DEFINE m == s[1][1]
           n == Size[m]
           d == Drop(s, n)
<1>1. Len(s) \in Nat \ {0}
  BY EmptySeq
<1>2. m \in Msg /\ n \in Nat /\ n > 0
  BY <1>1, WireLemma, ClientAssumption DEF Aligned
<1>3. s[1][2] = 1
  BY DEF Aligned
<1>4. /\ 1 + n - 1 <= Len(s)
      /\ \A j \in 1..n : s[1 + j - 1] = <<m, j>>
      /\ 1 + n <= Len(s) => s[1 + n][2] = 1
  BY <1>1, <1>3 DEF Aligned
<1>5. n \in 1..Len(s) /\ \A j \in 1..n : s[j] = <<m, j>>
  <2>1. \A j \in 1..n : 1 + j - 1 = j
    BY <1>2
  <2> QED
    BY <1>1, <1>2, <1>4, <2>1
<1> HIDE DEF m, n, d
<1>6. /\ d \in Seq(Byte) /\ Len(d) = Len(s) - n
      /\ \A i \in 1..Len(s) - n : d[i] = s[i + n]
  <2>1. n \in 0..Len(s)
    BY <1>1, <1>5
  <2> QED
    BY <2>1, DropLemma DEF d
<1>7. \A i \in 1..Len(d) : d[i] \in Wire
  BY <1>1, <1>2, <1>6 DEF Aligned
<1>8. d # <<>> => d[1][2] = 1
  <2>1. d # <<>> => Len(d) \in Nat \ {0}
    BY <1>6, EmptySeq
  <2> QED
    BY <1>1, <1>2, <1>4, <1>6, <2>1
<1>9. ASSUME NEW i \in 1..Len(d), d[i][2] = 1
      PROVE  LET k == d[i][1] IN
             /\ i + Size[k] - 1 <= Len(d)
             /\ \A j \in 1..Size[k] : d[i + j - 1] = <<k, j>>
             /\ i + Size[k] <= Len(d) => d[i + Size[k]][2] = 1
  <2> DEFINE k == d[i][1]
  <2>1. k \in Msg /\ Size[k] \in Nat /\ Size[k] > 0
    BY <1>7, WireLemma, ClientAssumption
  <2>2. d[i] = s[i + n] /\ i + n \in 1..Len(s)
    BY <1>1, <1>2, <1>6
  <2> HIDE DEF k
  <2>3. /\ i + n + Size[k] - 1 <= Len(s)
        /\ \A j \in 1..Size[k] : s[i + n + j - 1] = <<k, j>>
        /\ i + n + Size[k] <= Len(s) => s[i + n + Size[k]][2] = 1
    BY <1>9, <2>2 DEF Aligned, k
  <2>4. ASSUME NEW j \in 1..Size[k] PROVE d[i + j - 1] = s[i + n + j - 1]
    <3>1. i + j - 1 \in 1..Len(s) - n
      BY <1>1, <1>2, <1>6, <2>1, <2>3
    <3> QED
      BY <1>1, <1>2, <1>6, <3>1
  <2>5. i + Size[k] <= Len(d) => /\ i + n + Size[k] <= Len(s)
                                 /\ d[i + Size[k]] = s[i + n + Size[k]]
    <3> SUFFICES ASSUME i + Size[k] <= Len(d)
                 PROVE  /\ i + n + Size[k] <= Len(s)
                        /\ d[i + Size[k]] = s[i + n + Size[k]]
      OBVIOUS
    <3>1. i + Size[k] \in 1..Len(s) - n
      BY <1>1, <1>2, <1>6, <2>1
    <3>2. (i + Size[k]) + n = i + n + Size[k] /\ i + n + Size[k] <= Len(s)
      BY <1>1, <1>2, <2>1, <3>1
    <3>3. d[i + Size[k]] = s[(i + Size[k]) + n]
      BY <1>6, <3>1
    <3> QED
      BY <3>2, <3>3
  <2>6. i + Size[k] - 1 <= Len(d)
    BY <1>1, <1>2, <1>6, <2>1, <2>3
  <2> QED
    BY <2>3, <2>4, <2>5, <2>6 DEF k
<1>10. Aligned(d)
  BY <1>7, <1>8, <1>9 DEF Aligned
<1> QED
  BY <1>2, <1>5, <1>10 DEF m, n, d

\* On aligned bytes, of which b is buffered, parseLongFrame waits for more,
\* returns the answer at the head, or sees that this is an E5h.
LEMMA ParseAligned ==
    ASSUME SoundLine, NEW b \in Seq(Byte), NEW l \in Seq(Byte), Aligned(b \o l)
    PROVE  \/ parseLongFrame(b) = Failed("errNeedMore")
           \/ /\ b # <<>> /\ b[1][1] \in LongMsg /\ Size[b[1][1]] \in 1..Len(b)
              /\ parseLongFrame(b) = Parsed(b[1][1])
           \/ /\ b # <<>> /\ b[1] = <<Ack, 1>>
              /\ parseLongFrame(b) = Failed("ErrNoLongFrameFound")
<1>1. CASE Len(b) < HeadLen
  BY <1>1 DEF parseLongFrame
<1>2. CASE ~(Len(b) < HeadLen)
  <2> DEFINE s == b \o l
             m == b[1][1]
  <2>1. Len(b) \in Nat \ {0} /\ Len(l) \in Nat /\ HeadLen \in Nat \ {0} /\ HeadLen <= Len(b)
    BY <1>2, LenProperties, ClientAssumption
  <2>2. /\ s \in Seq(Byte) /\ Len(s) = Len(b) + Len(l)
        /\ \A i \in 1..Len(b) : s[i] = b[i]
    BY <2>1, ConcatProperties
  <2>3. b # <<>> /\ s # <<>> /\ s[1] = b[1]
    BY <2>1, <2>2, EmptySeq
  <2> HIDE DEF s
  <2>4. /\ m \in Msg
        /\ Size[m] \in 1..Len(s)
        /\ \A j \in 1..Size[m] : s[j] = <<m, j>>
    BY <2>2, <2>3, AlignedHead DEF s
  <2> HIDE DEF m
  <2>5. \A j \in 1..Size[m] : j <= Len(b) => b[j] = <<m, j>>
    BY <2>1, <2>2, <2>4
  <2>6. b[1] = <<m, 1>>
    BY <2>1, <2>2, <2>4, <2>5
  <2>7. CASE m = Ack
    <3>1. \A k \in LongMsg : ~StartsFrame(b, k)
      BY <2>1, <2>6, <2>7 DEF StartsFrame, LongMsg
    <3> QED
      BY <1>2, <2>3, <2>6, <2>7, <3>1 DEF parseLongFrame
  <2>8. CASE m # Ack
    <3>1. m \in LongMsg /\ Size[m] \in Nat /\ Size[m] > HeadLen /\ Size[m] >= MinSize
      BY <2>4, <2>8, ClientAssumption DEF LongMsg, SoundLine
    <3>2. StartsFrame(b, m)
      BY <2>1, <2>5, <3>1 DEF StartsFrame
    <3>3. \A k \in LongMsg : StartsFrame(b, k) => k = m
      BY <2>1, <2>6 DEF StartsFrame
    <3>4. parseLongFrame(b) = ParseBody(b, m)
      BY <1>2, <3>1, <3>2, <3>3 DEF parseLongFrame
    <3>5. CASE Len(b) < Size[m]
      <4>1. ~(Size[m] < MinSize)
        BY <3>1, ClientAssumption
      <4> QED
        BY <3>4, <3>5, <4>1 DEF ParseBody
    <3>6. CASE ~(Len(b) < Size[m])
      <4>1. ~(Size[m] < MinSize) /\ Size[m] \in 1..Len(b)
        BY <2>1, <3>1, <3>6, ClientAssumption
      <4>2. \A j \in 1..Size[m] : b[j] = <<m, j>>
        BY <2>1, <2>5, <3>1, <4>1
      <4>3. b[Size[m]] = <<m, Size[m]>>
        BY <4>1, <4>2
      <4>4. ParseBody(b, m) = Parsed(m)
        BY <3>6, <4>1, <4>2, <4>3 DEF ParseBody
      <4> QED
        BY <2>3, <3>1, <3>4, <4>1, <4>4 DEF m
    <3> QED
      BY <3>5, <3>6
  <2> QED
    BY <2>7, <2>8
<1> QED
  BY <1>1, <1>2

\* takeBufferedFrame waits for more or returns the answer at the head.
LEMMA TakeAligned ==
    ASSUME SoundLine, NEW b \in Seq(Byte), NEW l \in Seq(Byte), Aligned(b \o l)
    PROVE  \/ takeBufferedFrame(b) = Failed("errNeedMore")
           \/ /\ b # <<>> /\ b[1][1] \in Msg /\ Size[b[1][1]] \in 1..Len(b)
              /\ takeBufferedFrame(b) = Parsed(b[1][1])
<1>1. CASE b = <<>>
  BY <1>1 DEF takeBufferedFrame
<1>2. CASE b # <<>> /\ IsE5(b[1])
  <2>1. Len(b) \in Nat \ {0} /\ Len(l) \in Nat
    BY <1>2, EmptySeq, LenProperties
  <2>2. /\ b \o l \in Seq(Byte) /\ Len(b \o l) = Len(b) + Len(l)
        /\ (b \o l)[1] = b[1]
    BY <2>1, ConcatProperties
  <2>3. b \o l # <<>>
    BY <2>1, <2>2, EmptySeq
  <2>4. b[1][2] = 1
    BY <2>2, <2>3 DEF Aligned
  <2>5. b[1] \notin E5Bytes
    <3> SUFFICES ASSUME b[1] \in E5Bytes PROVE FALSE
      OBVIOUS
    <3>1. PICK m \in LongMsg : \E i \in HeadLen + 1..Size[m] : b[1] = <<m, i>>
      BY ClientAssumption
    <3>2. PICK i \in HeadLen + 1..Size[m] : b[1] = <<m, i>>
      BY <3>1
    <3>3. i = 1
      BY <2>4, <3>2
    <3> QED
      BY <3>3, ClientAssumption
  <2>6. b[1] = <<Ack, 1>>
    BY <1>2, <2>5 DEF IsE5
  <2> QED
    BY <1>2, <2>1, <2>6, ClientAssumption DEF takeBufferedFrame
<1>3. CASE b # <<>> /\ ~IsE5(b[1])
  <2>1. takeBufferedFrame(b) = parseLongFrame(b)
    BY <1>3 DEF takeBufferedFrame
  <2>2. b[1] # <<Ack, 1>>
    BY <1>3 DEF IsE5
  <2> QED
    BY <2>1, <2>2, ParseAligned DEF LongMsg
<1> QED
  BY <1>1, <1>2, <1>3

\* Consuming buffered bytes consumes them from what is buffered and in flight.
LEMMA DropConcat ==
    ASSUME NEW b \in Seq(Byte), NEW l \in Seq(Byte), NEW n \in 0..Len(b)
    PROVE  Drop(b, n) \o l = Drop(b \o l, n)
<1> DEFINE s == b \o l
<1>1. Len(b) \in Nat /\ Len(l) \in Nat
  BY LenProperties
<1>2. /\ s \in Seq(Byte) /\ Len(s) = Len(b) + Len(l)
      /\ \A i \in 1..Len(b) + Len(l) : s[i] = IF i <= Len(b) THEN b[i] ELSE l[i - Len(b)]
  BY ConcatProperties
<1> HIDE DEF s
<1>5. n \in 0..Len(b) /\ n \in 0..Len(s)
  BY <1>1, <1>2
<1>6. /\ Drop(b, n) \in Seq(Byte) /\ Len(Drop(b, n)) = Len(b) - n
      /\ \A i \in 1..Len(b) - n : Drop(b, n)[i] = b[i + n]
  BY <1>5, DropLemma
<1>7. /\ Drop(s, n) \in Seq(Byte) /\ Len(Drop(s, n)) = Len(s) - n
      /\ \A i \in 1..Len(s) - n : Drop(s, n)[i] = s[i + n]
  BY <1>2, <1>5, DropLemma
<1> DEFINE d == Drop(b, n)
           u == d \o l
<1>8. /\ u \in Seq(Byte) /\ Len(u) = Len(d) + Len(l)
      /\ \A i \in 1..Len(d) + Len(l) : u[i] = IF i <= Len(d) THEN d[i] ELSE l[i - Len(d)]
  BY <1>6, ConcatProperties
<1> DEFINE r == Drop(s, n)
<1> HIDE DEF d, u, r
<1>9. ASSUME NEW i \in 1..Len(u) PROVE u[i] = r[i]
  <2>1. i \in Nat /\ n \in Nat /\ i \in 1..Len(s) - n /\ i + n \in 1..Len(b) + Len(l)
    BY <1>1, <1>2, <1>5, <1>6, <1>8 DEF d
  <2>2. r[i] = s[i + n]
    BY <1>7, <2>1 DEF r
  <2>3. CASE i <= Len(b) - n
    <3>1. i + n <= Len(b) /\ i \in 1..Len(b) - n
      BY <1>1, <2>1, <2>3
    <3>2. u[i] = d[i] /\ d[i] = b[i + n]
      BY <1>1, <1>6, <1>8, <2>1, <3>1 DEF d
    <3> QED
      BY <1>2, <2>1, <2>2, <3>1, <3>2
  <2>4. CASE ~(i <= Len(b) - n)
    <3>1. ~(i + n <= Len(b)) /\ i - (Len(b) - n) = (i + n) - Len(b)
      BY <1>1, <2>1, <2>4
    <3>2. u[i] = l[i - (Len(b) - n)]
      BY <1>1, <1>6, <1>8, <2>1, <2>4 DEF d
    <3>3. s[i + n] = l[(i + n) - Len(b)]
      BY <1>2, <2>1, <3>1
    <3> QED
      BY <2>2, <3>1, <3>2, <3>3
  <2> QED
    BY <2>3, <2>4
<1>10. Len(u) = Len(r) /\ r \in Seq(Byte)
  BY <1>1, <1>2, <1>5, <1>6, <1>7, <1>8 DEF d, r
<1>11. u = r
  BY <1>8, <1>9, <1>10, SeqEqual
<1> QED
  BY <1>11 DEF u, r, d, s

\* Taking the answer at the head of the buffer leaves what is buffered and in
\* flight aligned.
LEMMA TakeHead ==
    ASSUME NEW b \in Seq(Byte), NEW l \in Seq(Byte), Aligned(b \o l),
           b # <<>>, Size[b[1][1]] \in 1..Len(b)
    PROVE  Aligned(Drop(b, Size[b[1][1]]) \o l)
<1> DEFINE n == Size[b[1][1]]
           s == b \o l
<1>1. Len(b) \in Nat \ {0} /\ Len(l) \in Nat /\ n \in 0..Len(b)
  BY EmptySeq, LenProperties
<1>2. s \in Seq(Byte) /\ Len(s) = Len(b) + Len(l) /\ s[1] = b[1]
  BY <1>1, ConcatProperties
<1>3. s # <<>>
  BY <1>1, <1>2, EmptySeq
<1>4. Aligned(Drop(s, n))
  BY <1>2, <1>3, AlignedHead
<1>5. Drop(b, n) \o l = Drop(s, n)
  BY <1>1, DropConcat
<1> QED
  BY <1>4, <1>5

\* A Read moves bytes from the line to the buffer and loses none.
LEMMA CutKeeps ==
    ASSUME NEW b \in Seq(Byte), NEW l \in Seq(Byte), NEW n \in 0..Len(l)
    PROVE  (b \o SubSeq(l, 1, n)) \o Drop(l, n) = b \o l
<1> DEFINE p == SubSeq(l, 1, n)
           r == Drop(l, n)
<1>1. Len(l) \in Nat
  BY LenProperties
<1>2. /\ p \in Seq(Byte) /\ Len(p) = n
      /\ \A i \in 1..n : p[i] = l[i]
  BY PrefixLemma
<1>3. /\ r \in Seq(Byte) /\ Len(r) = Len(l) - n
      /\ \A i \in 1..Len(l) - n : r[i] = l[i + n]
  BY DropLemma
<1> HIDE DEF p, r
<1>4. p \o r = l
  <2>1. /\ p \o r \in Seq(Byte) /\ Len(p \o r) = Len(l)
        /\ \A i \in 1..Len(l) : (p \o r)[i] = IF i <= n THEN p[i] ELSE r[i - n]
    BY <1>1, <1>2, <1>3, ConcatProperties
  <2>2. ASSUME NEW i \in 1..Len(l) PROVE (p \o r)[i] = l[i]
    <3>1. CASE i <= n
      BY <1>1, <1>2, <2>1, <3>1
    <3>2. CASE ~(i <= n)
      <4>1. i - n \in 1..Len(l) - n /\ (i - n) + n = i
        BY <1>1, <3>2
      <4> QED
        BY <1>3, <2>1, <3>2, <4>1
    <3> QED
      BY <3>1, <3>2
  <2> QED
    BY <2>1, <2>2, SeqEqual
<1>5. (b \o p) \o r = b \o (p \o r)
  BY <1>2, <1>3, ConcatAssociative
<1> QED
  BY <1>4, <1>5 DEF p, r

-----------------------------------------------------------------------------
(* The sound line                                                          *)

NoneMalformed == ret.err \cap Malformed = {}

\* A turn of the client on a sound line keeps what is buffered and in flight
\* aligned, and returns no frame error but ReadLongFrame's at an E5h.
LEMMA StepSound ==
    ASSUME TypeOK, Busy, SoundLine, Aligned(buf \o line), ClientStep
    PROVE  /\ Aligned((buf \o line)')
           /\ \/ NoneMalformed'
              \/ ret'.op = "ReadLongFrame" /\ buf' # <<>> /\ buf'[1] = <<Ack, 1>>
<1>1. buf \in Seq(Byte) /\ line \in Seq(Byte) /\ Len(line) \in Nat
  BY LenProperties DEF TypeOK, ClientTypeOK
<1>2. /\ op # "ReadSingleCharFrame"
      /\ conn = "up"
      /\ op # "none" => ret.err = {}
      /\ op = "none" => at = "look"
  BY DEF Busy, SoundLine
<1>3. /\ NeedMore = {"errNeedMore"}
      /\ \A e : Failed(e) = [err |-> {e}, msg |-> NoMsg]
      /\ \A m : Parsed(m) = [err |-> {}, msg |-> m]
  BY DEF NeedMore, Failed, Parsed
<1>4. CASE LookForLongFrame
  <2> DEFINE p == parseLongFrame(buf)
  <2>1. op = "ReadLongFrame" /\ line' = line /\ ret.err = {}
    BY <1>2, <1>4 DEF LookForLongFrame
  <2>2. CASE p = Failed("errNeedMore")
    <3>1. GoFill /\ UNCHANGED buf
      BY <1>3, <1>4, <2>2 DEF LookForLongFrame
    <3> QED
      BY <2>1, <3>1 DEF GoFill, NoneMalformed
  <2>3. CASE /\ buf # <<>> /\ buf[1][1] \in LongMsg /\ Size[buf[1][1]] \in 1..Len(buf)
             /\ p = Parsed(buf[1][1])
    <3>1. p.err = {} /\ p.msg = buf[1][1]
      BY <1>3, <2>3
    <3>2. {} # NeedMore
      BY <1>3
    <3>3. buf' = Drop(buf, Size[buf[1][1]]) /\ Return({}, buf[1][1])
      BY <1>4, <3>1, <3>2 DEF LookForLongFrame
    <3>4. Aligned(buf' \o line')
      BY <1>1, <2>1, <2>3, <3>3, TakeHead
    <3> QED
      BY <3>3, <3>4 DEF Return, NoneMalformed
  <2>4. CASE /\ buf # <<>> /\ buf[1] = <<Ack, 1>>
             /\ p = Failed("ErrNoLongFrameFound")
    <3>1. p.err = {"ErrNoLongFrameFound"}
      BY <1>3, <2>4
    <3>2. p.err # {} /\ p.err # NeedMore
      BY <1>3, <3>1
    <3>3. UNCHANGED buf /\ Return(p.err, NoMsg)
      BY <1>4, <3>2 DEF LookForLongFrame
    <3> QED
      BY <2>1, <2>4, <3>3 DEF Return
  <2> QED
    BY <1>1, <2>2, <2>3, <2>4, ParseAligned
<1>5. CASE LookForFirstByte
  BY <1>2, <1>5 DEF LookForFirstByte, GoFill, NoneMalformed
<1>6. CASE LookForAnswer
  <2> DEFINE p == takeBufferedFrame(buf)
  <2>1. line' = line /\ ret.err = {}
    BY <1>2, <1>6 DEF LookForAnswer
  <2>2. CASE p = Failed("errNeedMore")
    <3>1. GoFill /\ UNCHANGED buf
      BY <1>3, <1>6, <2>2 DEF LookForAnswer
    <3> QED
      BY <2>1, <3>1 DEF GoFill, NoneMalformed
  <2>3. CASE /\ buf # <<>> /\ buf[1][1] \in Msg /\ Size[buf[1][1]] \in 1..Len(buf)
             /\ p = Parsed(buf[1][1])
    <3>1. p.err = {} /\ p.msg = buf[1][1]
      BY <1>3, <2>3
    <3>2. {} # NeedMore
      BY <1>3
    <3>3. buf' = Drop(buf, Size[buf[1][1]]) /\ Return({}, buf[1][1])
      BY <1>6, <3>1, <3>2 DEF LookForAnswer
    <3>4. Aligned(buf' \o line')
      BY <1>1, <2>1, <2>3, <3>3, TakeHead
    <3> QED
      BY <3>3, <3>4 DEF Return, NoneMalformed
  <2> QED
    BY <1>1, <2>2, <2>3, TakeAligned
<1>7. ASSUME NEW e \in CtxErrors \cup {"ErrReadTimeout"}, GiveUp(e)
      PROVE  Aligned((buf \o line)') /\ NoneMalformed'
  <2>1. e \notin Malformed
    BY DEF CtxErrors, Malformed
  <2>2. wrapFillErr(e) = {e}
    BY DEF wrapFillErr
  <2>3. ret'.err = {e} /\ UNCHANGED <<line, buf>>
    BY <1>2, <1>7, <2>2 DEF GiveUp, Return
  <2> QED
    BY <2>1, <2>3 DEF NoneMalformed
<1>8. ASSUME NEW n \in 1..Len(line), FillBytes(n)
      PROVE  Aligned((buf \o line)') /\ NoneMalformed'
  <2>0. n \in 0..Len(line)
    BY <1>1
  <2>1. buf' \o line' = buf \o line
    <3>1. (buf \o SubSeq(line, 1, n)) \o Drop(line, n) = buf \o line
      BY <1>1, <2>0, CutKeeps
    <3>2. buf' = buf \o SubSeq(line, 1, n) /\ line' = Drop(line, n)
      BY <1>8 DEF FillBytes
    <3> QED
      BY <3>1, <3>2, Zenon
  <2>2. op # "none" /\ ret' = ret
    BY <1>2, <1>8 DEF FillBytes
  <2> QED
    BY <1>2, <2>1, <2>2 DEF NoneMalformed
<1>9. ~LookForSingleChar /\ ~FillConnFailed
  BY <1>2 DEF LookForSingleChar, FillConnFailed
<1>10. CASE FillCtxEnded
  BY <1>7, <1>10 DEF FillCtxEnded, CtxErr
<1>11. CASE FillTimedOut
  BY <1>7, <1>11 DEF FillTimedOut
<1> QED
  BY <1>4, <1>5, <1>6, <1>8, <1>9, <1>10, <1>11 DEF ClientStep, Look, Fill

LEMMA InitSound == Init => StreamAligned /\ NoSpuriousError
<1>1. <<>> \o <<>> = <<>> /\ Len(<<>>) = 0
  BY ConcatEmptySeq, EmptySeq
<1>2. Aligned(<<>>)
  BY <1>1 DEF Aligned
<1> QED
  BY <1>1, <1>2 DEF Init, ClientInit, NoResult, StreamAligned, NoSpuriousError

\* StreamAligned is inductive given Busy and the types, and carries
\* NoSpuriousError with it.
LEMMA NextSound ==
    TypeOK /\ Busy /\ StreamAligned /\ NoSpuriousError /\ [Next]_vars
        => (StreamAligned /\ NoSpuriousError)'
<1> SUFFICES ASSUME TypeOK, Busy, StreamAligned, NoSpuriousError, [Next]_vars, SoundLine
             PROVE  /\ Aligned(buf' \o line')
                    /\ ret'.err \cap Malformed # {} =>
                         ret'.op = "ReadLongFrame" /\ buf' # <<>> /\ buf'[1] = <<Ack, 1>>
  BY DEF StreamAligned, NoSpuriousError
<1>1. Aligned(buf \o line) /\ buf \in Seq(Byte) /\ line \in Seq(Byte)
  BY DEF StreamAligned, TypeOK, ClientTypeOK
<1>2. ret.err \cap Malformed # {} =>
        ret.op = "ReadLongFrame" /\ buf # <<>> /\ buf[1] = <<Ack, 1>>
  BY DEF NoSpuriousError
<1>3. ASSUME NEW o \in Calls, Begin(o)
      PROVE  UNCHANGED <<buf, line>> /\ ret'.err = {}
  BY <1>3 DEF Begin, Call, NoResult
<1>4. ASSUME NEW t \in Transmissions, Transmit(t)
      PROVE  Aligned(buf' \o line') /\ UNCHANGED <<buf, ret>>
  <2>1. t.bytes = Bytes(t.msg) /\ t.msg \in Msg
    BY StreamAssumption DEF SoundLine, Intact
  <2>2. t.bytes \in Seq(Byte) /\ Aligned(t.bytes)
    BY <2>1, AlignedBytes, BytesLemma
  <2>3. line' = line \o t.bytes /\ UNCHANGED <<buf, ret>>
    BY <1>4 DEF Transmit, Receive
  <2>4. Aligned(buf \o (line \o t.bytes))
    BY <1>1, <2>2, AlignedAppend
  <2> QED
    BY <2>3, <2>4, Zenon
<1>5. CASE Step
  BY <1>1, <1>5, StepSound DEF Step, NoneMalformed
<1>6. ~Shut /\ ~Fail
  BY DEF SoundLine, Shut, Fail
<1>7. Deadline \/ Cancel \/ UNCHANGED vars => UNCHANGED <<buf, line, ret>>
  BY DEF Deadline, DeadlinePasses, Cancel, CtxEnds, vars, clientVars
<1> QED
  BY <1>1, <1>2, <1>3, <1>4, <1>5, <1>6, <1>7 DEF Next

\* On a sound line no byte is lost and none taken twice, whatever the cuts
\* between Reads, timeouts and cancellations (read.go 92-110, scan.go 427-475).
THEOREM StreamStaysAligned == Spec => []StreamAligned
<1>1. Init => TypeOK /\ Busy /\ StreamAligned /\ NoSpuriousError
  BY InitType, InitBusy, InitSound
<1>2. TypeOK /\ Busy /\ StreamAligned /\ NoSpuriousError /\ [Next]_vars
        => (TypeOK /\ Busy /\ StreamAligned /\ NoSpuriousError)'
  BY NextType, NextBusy, NextSound
<1> QED
  BY <1>1, <1>2, PTL DEF Spec

\* On a sound line no read reports a frame error, except ReadLongFrame when the
\* oldest answer is an E5h (read.go 52-83, scan.go 461-475).
THEOREM NoErrorIsSpurious == Spec => []NoSpuriousError
<1>1. Init => TypeOK /\ Busy /\ StreamAligned /\ NoSpuriousError
  BY InitType, InitBusy, InitSound
<1>2. TypeOK /\ Busy /\ StreamAligned /\ NoSpuriousError /\ [Next]_vars
        => (TypeOK /\ Busy /\ StreamAligned /\ NoSpuriousError)'
  BY NextType, NextBusy, NextSound
<1> QED
  BY <1>1, <1>2, PTL DEF Spec

-----------------------------------------------------------------------------
(* Any line                                                                *)

\* A long frame that parseLongFrame returns is at the head of the buffer,
\* whatever the line made of what was sent.
LEMMA ParseExact ==
    ASSUME NEW b \in Seq(Byte), parseLongFrame(b).err = {}
    PROVE  LET m == parseLongFrame(b).msg IN
           /\ m \in LongMsg
           /\ Size[m] \in 1..Len(b)
           /\ SubSeq(b, 1, Size[m]) = Bytes(m)
<1>1. ASSUME NEW e PROVE Failed(e).err # {}
  BY DEF Failed
<1>2. ~(Len(b) < HeadLen) /\ \E m \in LongMsg : StartsFrame(b, m)
  BY <1>1 DEF parseLongFrame
<1> DEFINE m == CHOOSE m \in LongMsg : StartsFrame(b, m)
<1>3. m \in LongMsg /\ parseLongFrame(b) = ParseBody(b, m)
  BY <1>2 DEF parseLongFrame
<1>4. m \in Msg /\ Size[m] \in Nat /\ Size[m] > HeadLen /\ HeadLen \in Nat /\ Len(b) \in Nat
  BY <1>3, ClientAssumption, LenProperties DEF LongMsg
<1> HIDE DEF m
<1>5. /\ ~(Len(b) < Size[m])
      /\ \A i \in 1..Size[m] : b[i] = <<m, i>>
      /\ parseLongFrame(b) = Parsed(m)
  BY <1>1, <1>3 DEF ParseBody
<1>6. Size[m] \in 1..Len(b) /\ Size[m] \in 0..Len(b)
  BY <1>4, <1>5
<1>7. /\ SubSeq(b, 1, Size[m]) \in Seq(Byte)
      /\ Len(SubSeq(b, 1, Size[m])) = Size[m]
      /\ \A i \in 1..Size[m] : SubSeq(b, 1, Size[m])[i] = b[i]
  BY <1>6, PrefixLemma
<1>8. /\ Bytes(m) \in Seq(Byte) /\ Len(Bytes(m)) = Size[m]
      /\ \A i \in 1..Size[m] : Bytes(m)[i] = <<m, i>>
  BY <1>4, BytesLemma
<1>9. SubSeq(b, 1, Size[m]) = Bytes(m)
  <2>1. \A i \in 1..Size[m] : SubSeq(b, 1, Size[m])[i] = Bytes(m)[i]
    BY <1>5, <1>7, <1>8
  <2>2. Len(SubSeq(b, 1, Size[m])) = Len(Bytes(m))
    BY <1>7, <1>8
  <2> QED
    BY <1>7, <1>8, <2>1, <2>2, SeqEqual, Zenon
<1>10. parseLongFrame(b).msg = m
  BY <1>5 DEF Parsed
<1> QED
  BY <1>3, <1>6, <1>9, <1>10

\* A call that returns a frame takes the frame's own bytes and, for
\* ReadSingleCharFrame, those before the first E5h, and nothing after it.
LEMMA ReturnTakes ==
    ASSUME TypeOK, Busy, [Next]_vars, Returns
    PROVE  Step /\ ret'.msg \in Msg /\ \E n \in 0..Len(buf) : Takes(n)
<1>1. buf \in Seq(Byte) /\ line \in Seq(Byte) /\ Len(buf) \in Nat
  BY LenProperties DEF TypeOK, ClientTypeOK
<1>2. op # "none" /\ op' = "none" /\ ret'.err = {}
  BY DEF Returns
<1>3. Step
  BY <1>2 DEF Next, Begin, Call, Transmit, Receive, Shut, Close, Fail, ConnFails,
                    Deadline, DeadlinePasses, Cancel, CtxEnds, vars, clientVars
<1>4. \A e : ~GiveUp(e)
  <2> SUFFICES ASSUME NEW e, GiveUp(e) PROVE FALSE
    OBVIOUS
  <2>1. ret'.err = {e} \/ ret'.err = {"ErrNoLongFrameFound", e}
    BY DEF GiveUp, Return, wrapFillErr
  <2> QED
    BY <1>2, <2>1
<1>5. LookForLongFrame \/ LookForSingleChar \/ LookForAnswer
  BY <1>2, <1>3, <1>4 DEF Step, ClientStep, Look, Fill, FillCtxEnded, FillTimedOut,
     FillConnFailed, FillBytes, LookForFirstByte, GoFill
<1>6. ASSUME NEW m \in LongMsg, Size[m] \in 1..Len(buf),
             SubSeq(buf, 1, Size[m]) = Bytes(m),
             buf' = Drop(buf, Size[m]), line' = line, ret'.msg = m
      PROVE  ret'.msg \in Msg /\ 0 \in 0..Len(buf) /\ Takes(0)
  <2>1. Size[m] \in Nat /\ Size[m] \in 0..Len(buf) /\ m # Ack
    BY <1>1, <1>6, ClientAssumption DEF LongMsg
  <2>2. buf' \o line' = Drop(buf \o line, Size[m])
    BY <1>1, <1>6, <2>1, DropConcat
  <2> QED
    BY <1>1, <1>6, <2>1, <2>2 DEF Takes, LongMsg
<1>7. CASE LookForLongFrame
  <2> DEFINE p == parseLongFrame(buf)
  <2>1. p.err = {} /\ buf' = Drop(buf, Size[p.msg]) /\ ret'.msg = p.msg /\ line' = line
    BY <1>2, <1>7 DEF LookForLongFrame, GoFill, Return
  <2> QED
    BY <1>1, <1>3, <1>6, <2>1, ParseExact
<1>8. CASE LookForSingleChar
  <2>1. PICK i \in 1..Len(buf) : FirstE5(buf, i) /\ buf' = Drop(buf, i) /\ Return({}, Ack)
    BY <1>2, <1>8 DEF LookForSingleChar, GoFill
  <2>2. line' = line /\ ret'.msg = Ack /\ op = "ReadSingleCharFrame"
    BY <1>8, <2>1 DEF LookForSingleChar, Return
  <2>3. buf' \o line' = Drop(buf \o line, i)
    <3>1. i \in 0..Len(buf)
      BY <1>1
    <3> QED
      BY <1>1, <2>1, <2>2, <3>1, DropConcat
  <2>4. /\ i - 1 \in 0..Len(buf) /\ (i - 1) + 1 = i /\ Size[Ack] = 1 /\ Ack \in Msg
    BY <1>1, ClientAssumption
  <2>5. IsE5(buf[i]) /\ \A j \in 1..(i - 1) : ~IsE5(buf[j])
    BY <2>1 DEF FirstE5
  <2>6. Takes(i - 1)
    BY <1>1, <2>2, <2>3, <2>4, <2>5 DEF Takes
  <2> QED
    BY <1>3, <2>2, <2>4, <2>6
<1>9. CASE LookForAnswer
  <2> DEFINE p == takeBufferedFrame(buf)
  <2>1. /\ p.err = {} /\ buf' = Drop(buf, Size[p.msg]) /\ ret'.msg = p.msg /\ line' = line
        /\ op # "ReadSingleCharFrame"
    BY <1>2, <1>9 DEF LookForAnswer, GoFill, Return
  <2>2. CASE buf # <<>> /\ IsE5(buf[1])
    <3>1. p.msg = Ack /\ Size[Ack] = 1 /\ Ack \in Msg
      BY <2>2, ClientAssumption DEF takeBufferedFrame, Parsed
    <3>2. 1 \in 0..Len(buf)
      BY <1>1, <2>2, EmptySeq
    <3>3. buf' \o line' = Drop(buf \o line, 1)
      <4>1. buf' = Drop(buf, 1) /\ line' = line
        BY <2>1, <3>1
      <4>2. Drop(buf, 1) \o line = Drop(buf \o line, 1)
        BY <1>1, <3>2, DropConcat
      <4> QED
        BY <4>1, <4>2
    <3>4. Takes(0)
      BY <1>1, <2>1, <2>2, <3>1, <3>2, <3>3 DEF Takes
    <3> QED
      BY <1>1, <1>3, <2>1, <3>1, <3>4
  <2>3. CASE ~(buf # <<>> /\ IsE5(buf[1]))
    <3>1. p = parseLongFrame(buf)
      BY <2>1, <2>3 DEF takeBufferedFrame, Failed
    <3> QED
      BY <1>1, <1>3, <1>6, <2>1, <3>1, ParseExact
  <2> QED
    BY <2>2, <2>3
<1> QED
  BY <1>3, <1>5, <1>7, <1>8, <1>9

\* A call that returns a frame takes the frame's own bytes and, for
\* ReadSingleCharFrame, those before the first E5h, and nothing after it: on
\* any line, with any transport (read.go 92-133, scan.go 427-475).
THEOREM ConsumptionIsExact == Spec => ExactConsumption
<1>1. TypeOK /\ Busy /\ [Next]_vars => [Returns => \E n \in 0..Len(buf) : Takes(n)]_vars
  BY ReturnTakes
<1>2. Init => TypeOK /\ Busy
  BY InitType, InitBusy
<1>3. TypeOK /\ Busy /\ [Next]_vars => (TypeOK /\ Busy)'
  BY NextType, NextBusy
<1> QED
  BY <1>1, <1>2, <1>3, PTL DEF Spec, ExactConsumption

-----------------------------------------------------------------------------
(* Answers that stand on the line                                          *)

\* m stands in s from i on.
Holds(s, m, i) ==
    /\ i + Size[m] - 1 <= Len(s)
    /\ \A j \in 1..Size[m] : s[i + j - 1] = <<m, j>>

Places(s, m) == {i \in 1..Len(s) : Holds(s, m, i)}

\* s does not begin inside m.
BeginsOutside(s, m) == s # <<>> => \A j \in 2..Size[m] : s[1] # <<m, j>>

\* What arrives of an answer that was not left whole has no whole frame in it, and
\* does not begin inside one: noise does not make frames, nor their second halves.
Debris ==
    \A t \in Transmissions : ~Intact(t) =>
        \A m \in LongMsg : Places(t.bytes, m) = {} /\ BeginsOutside(t.bytes, m)

\* The answers that may still be returned have been sent and not returned yet.
Backed == \A m \in LongMsg : Cardinality(Places(buf \o line, m)) <= credit[m]

LEMMA LongSize ==
    ASSUME NEW m \in LongMsg
    PROVE  m \in Msg /\ m # Ack /\ Size[m] \in Nat /\ Size[m] >= 2
  BY ClientAssumption DEF LongMsg

LEMMA PlacesFinite ==
    ASSUME NEW s \in Seq(Byte), NEW m
    PROVE  IsFiniteSet(Places(s, m)) /\ Cardinality(Places(s, m)) \in Nat
<1>1. IsFiniteSet(1..Len(s))
  BY LenProperties, FS_Interval
<1>2. Places(s, m) \in SUBSET (1..Len(s))
  BY DEF Places
<1> QED
  BY <1>1, <1>2, FS_Subset, FS_CardinalityType

\* Of numbers moved by n there are no more than of those they are moved to.
LEMMA Shifted ==
    ASSUME NEW S, NEW T, S \subseteq Int, IsFiniteSet(T), NEW n \in Int,
           \A i \in S : i + n \in T
    PROVE  /\ IsFiniteSet(S)
           /\ Cardinality(S) \in Nat /\ Cardinality(T) \in Nat
           /\ Cardinality(S) <= Cardinality(T)
<1> DEFINE f == [i \in S |-> i + n]
<1>1. f \in [S -> T] /\ \A i \in S : f[i] = i + n
  OBVIOUS
<1>2. \A i, j \in S : f[i] = f[j] => i = j
  BY <1>1
<1> HIDE DEF f
<1>3. f \in Injection(S, T)
  BY <1>1, <1>2, Fun_IsInj
<1> QED
  BY <1>3, FS_Injection, FS_CardinalityType

\* Dropping bytes makes no answer, and if they hold one, there is one less.
LEMMA DropPlaces ==
    ASSUME NEW s \in Seq(Byte), NEW n \in 0..Len(s), NEW m \in LongMsg
    PROVE  /\ Cardinality(Places(Drop(s, n), m)) <= Cardinality(Places(s, m))
           /\ \A k \in Places(s, m) :
                  k <= n => Cardinality(Places(Drop(s, n), m)) <= Cardinality(Places(s, m)) - 1
<1> DEFINE d == Drop(s, n)
<1>0. Len(s) \in Nat /\ n \in Nat
  BY LenProperties
<1>1. /\ Len(s) \in Nat /\ n \in Nat /\ d \in Seq(Byte) /\ Len(d) = Len(s) - n
      /\ \A i \in 1..Len(s) - n : d[i] = s[i + n]
  BY <1>0, DropLemma
<1> HIDE DEF d
<1>2. Size[m] \in Nat
  BY LongSize
<1>3. ASSUME NEW i \in Places(d, m)
      PROVE  i \in Nat /\ i + n \in Places(s, m) /\ i + n > n
  <2>1. /\ i \in 1..Len(s) - n /\ i + Size[m] - 1 <= Len(s) - n
        /\ \A j \in 1..Size[m] : d[i + j - 1] = <<m, j>>
    BY <1>1, <1>3 DEF Places, Holds
  <2>2. ASSUME NEW j \in 1..Size[m]
        PROVE  s[(i + n) + j - 1] = <<m, j>>
    <3>1. i + j - 1 \in 1..Len(s) - n /\ (i + j - 1) + n = (i + n) + j - 1
      <4>1. i \in Int /\ 1 <= i /\ i + Size[m] - 1 <= Len(s) - n
        BY <2>1
      <4> QED
        BY <1>0, <1>2, <4>1
    <3>2. d[i + j - 1] = s[(i + j - 1) + n]
      BY <1>1, <3>1
    <3>3. d[i + j - 1] = <<m, j>>
      BY <2>1
    <3> QED
      BY <3>1, <3>2, <3>3
  <2>3. i + n \in 1..Len(s) /\ (i + n) + Size[m] - 1 <= Len(s) /\ i + n > n /\ i \in Nat
    BY <1>1, <1>2, <2>1
  <2> QED
    BY <2>2, <2>3 DEF Places, Holds
<1>4. IsFiniteSet(Places(s, m)) /\ Cardinality(Places(s, m)) \in Nat
  BY PlacesFinite
<1>5. Places(d, m) \subseteq Int
  BY <1>3
<1>6. Cardinality(Places(d, m)) <= Cardinality(Places(s, m))
  BY <1>1, <1>3, <1>4, <1>5, Shifted
<1>7. ASSUME NEW k \in Places(s, m), k <= n
      PROVE  Cardinality(Places(d, m)) <= Cardinality(Places(s, m)) - 1
  <2> DEFINE T == Places(s, m) \ {k}
  <2>1. IsFiniteSet(T) /\ Cardinality(T) = Cardinality(Places(s, m)) - 1
    BY <1>4, <1>7, FS_RemoveElement
  <2>2. k \in Nat
    BY <1>1, <1>7 DEF Places
  <2>3. \A i \in Places(d, m) : i + n \in T
    BY <1>1, <1>3, <1>7, <2>2
  <2> HIDE DEF T
  <2> QED
    BY <1>1, <1>5, <2>1, <2>3, Shifted
<1> QED
  BY <1>6, <1>7 DEF d

\* Bytes that do not begin inside an answer add only the answers they hold.
LEMMA ConcatPlaces ==
    ASSUME NEW s \in Seq(Byte), NEW t \in Seq(Byte), NEW m \in LongMsg, BeginsOutside(t, m)
    PROVE  Cardinality(Places(s \o t, m)) <= Cardinality(Places(s, m)) + Cardinality(Places(t, m))
<1> DEFINE u == s \o t
           A == {i \in Places(u, m) : i <= Len(s)}
           B == {i \in Places(u, m) : i > Len(s)}
<1>1. /\ Len(s) \in Nat /\ Len(t) \in Nat /\ u \in Seq(Byte) /\ Len(u) = Len(s) + Len(t)
      /\ \A i \in 1..Len(s) + Len(t) : u[i] = IF i <= Len(s) THEN s[i] ELSE t[i - Len(s)]
  BY ConcatProperties, LenProperties
<1> HIDE DEF u
<1>2. Size[m] \in Nat /\ Size[m] >= 2
  BY LongSize
<1>3. ASSUME NEW i \in Places(u, m)
      PROVE  /\ i \in 1..Len(u) /\ i + Size[m] - 1 <= Len(u)
             /\ \A j \in 1..Size[m] : u[i + j - 1] = <<m, j>>
  BY <1>3 DEF Places, Holds
<1>4. ASSUME NEW i \in A PROVE i \in Places(s, m)
  <2>1. /\ i \in 1..Len(u) /\ i \in 1..Len(s) /\ i + Size[m] - 1 <= Len(u)
        /\ \A j \in 1..Size[m] : u[i + j - 1] = <<m, j>>
    BY <1>1, <1>3, <1>4
  <2>2. i + Size[m] - 1 <= Len(s)
    <3> SUFFICES ASSUME ~(i + Size[m] - 1 <= Len(s)) PROVE FALSE
      OBVIOUS
    <3> DEFINE j == Len(s) - i + 2
    <3>1. /\ j \in 2..Size[m] /\ j \in 1..Size[m] /\ i + j - 1 = Len(s) + 1
          /\ Len(s) + 1 \in 1..Len(s) + Len(t) /\ ~(Len(s) + 1 <= Len(s))
          /\ (Len(s) + 1) - Len(s) = 1 /\ Len(t) # 0
      BY <1>1, <1>2, <2>1
    <3>2. u[Len(s) + 1] = <<m, j>>
      BY <2>1, <3>1
    <3>3. t[1] = <<m, j>>
      BY <1>1, <3>1, <3>2
    <3>4. t # <<>>
      BY <3>1, EmptySeq
    <3> QED
      BY <3>1, <3>3, <3>4 DEF BeginsOutside
  <2>3. ASSUME NEW j \in 1..Size[m] PROVE s[i + j - 1] = <<m, j>>
    <3>1. i + j - 1 \in 1..Len(s) + Len(t) /\ i + j - 1 <= Len(s)
      BY <1>1, <1>2, <2>1, <2>2
    <3> QED
      BY <1>1, <2>1, <3>1
  <2> QED
    BY <2>1, <2>2, <2>3 DEF Places, Holds
<1>5. ASSUME NEW i \in B PROVE i \in Int /\ i + (0 - Len(s)) \in Places(t, m)
  <2>1. /\ i \in 1..Len(u) /\ i > Len(s) /\ i + Size[m] - 1 <= Len(u)
        /\ \A j \in 1..Size[m] : u[i + j - 1] = <<m, j>>
    BY <1>3, <1>5
  <2>2. ASSUME NEW j \in 1..Size[m] PROVE t[(i + (0 - Len(s))) + j - 1] = <<m, j>>
    <3>1. /\ i + j - 1 \in 1..Len(s) + Len(t) /\ ~(i + j - 1 <= Len(s))
          /\ (i + j - 1) - Len(s) = (i + (0 - Len(s))) + j - 1
      BY <1>1, <1>2, <2>1
    <3>2. u[i + j - 1] = t[(i + j - 1) - Len(s)]
      BY <1>1, <3>1
    <3> QED
      BY <2>1, <3>1, <3>2
  <2>3. /\ i + (0 - Len(s)) \in 1..Len(t)
        /\ (i + (0 - Len(s))) + Size[m] - 1 <= Len(t)
    BY <1>1, <1>2, <2>1
  <2> QED
    BY <2>1, <2>2, <2>3 DEF Places, Holds
<1>6. /\ IsFiniteSet(Places(s, m)) /\ Cardinality(Places(s, m)) \in Nat
      /\ IsFiniteSet(Places(t, m)) /\ Cardinality(Places(t, m)) \in Nat
  BY PlacesFinite
<1>7. Places(u, m) = A \cup B
  <2>1. \A i \in Places(u, m) : i \in Int /\ (i <= Len(s) \/ i > Len(s))
    BY <1>1, <1>3
  <2> QED
    BY <2>1
<1>8. B \subseteq Int
  BY <1>5
<1> HIDE DEF A, B
<1>9. A \in SUBSET Places(s, m)
  BY <1>4
<1>10. IsFiniteSet(A) /\ Cardinality(A) \in Nat /\ Cardinality(A) <= Cardinality(Places(s, m))
  BY <1>6, <1>9, FS_Subset, FS_CardinalityType
<1>11. IsFiniteSet(B) /\ Cardinality(B) \in Nat /\ Cardinality(B) <= Cardinality(Places(t, m))
  <2> DEFINE n == 0 - Len(s)
  <2>1. n \in Int /\ \A i \in B : i + n \in Places(t, m)
    BY <1>1, <1>5
  <2> HIDE DEF n
  <2> QED
    BY <1>6, <1>8, <2>1, Shifted
<1>12. /\ Cardinality(A \cup B) = Cardinality(A) + Cardinality(B) - Cardinality(A \cap B)
       /\ Cardinality(A \cap B) \in Nat
  BY <1>10, <1>11, FS_Union, FS_Intersection, FS_CardinalityType
<1> QED
  BY <1>6, <1>7, <1>10, <1>11, <1>12 DEF u

\* An answer as it was sent holds itself and no other.
LEMMA SentPlaces ==
    ASSUME NEW k \in Msg, NEW m \in LongMsg
    PROVE  /\ Cardinality(Places(Bytes(k), m)) <= IF k = m THEN 1 ELSE 0
           /\ BeginsOutside(Bytes(k), m)
<1> DEFINE s == Bytes(k)
<1>1. /\ s \in Seq(Byte) /\ Len(s) = Size[k] /\ Size[k] \in Nat
      /\ \A i \in 1..Size[k] : s[i] = <<k, i>>
  BY BytesLemma, ClientAssumption
<1> HIDE DEF s
<1>2. Size[m] \in Nat /\ Size[m] >= 2
  BY LongSize
<1>3. ASSUME NEW i \in Places(s, m) PROVE i = 1 /\ k = m
  <2>1. i \in 1..Size[k] /\ s[i + 1 - 1] = <<m, 1>>
    BY <1>1, <1>2, <1>3 DEF Places, Holds
  <2>2. s[i] = <<k, i>> /\ i + 1 - 1 = i
    BY <1>1, <2>1
  <2> QED
    BY <2>1, <2>2
<1>4. IsFiniteSet({1}) /\ Cardinality({1}) = 1
  BY FS_Singleton
<1>5. Cardinality(Places(s, m)) <= 1
  <2>1. Places(s, m) \in SUBSET {1}
    BY <1>3
  <2> QED
    BY <1>4, <2>1, FS_Subset
<1>6. k # m => Cardinality(Places(s, m)) = 0
  <2>1. k # m => Places(s, m) = {}
    BY <1>3
  <2> QED
    BY <2>1, FS_EmptySet
<1>7. BeginsOutside(s, m)
  <2>1. s # <<>> => 1 \in 1..Size[k]
    BY <1>1, EmptySeq
  <2>2. s # <<>> => s[1] = <<k, 1>>
    BY <1>1, <2>1
  <2> QED
    BY <1>2, <2>2 DEF BeginsOutside
<1> QED
  BY <1>5, <1>6, <1>7 DEF s

\* A step of the client drops bytes at the head of the buffer, or none.
LEMMA StepDrops ==
    ASSUME TypeOK, Busy, ClientStep
    PROVE  \E n \in 0..Len(buf) : buf' \o line' = Drop(buf \o line, n)
<1>1. /\ buf \in Seq(Byte) /\ line \in Seq(Byte) /\ Len(buf) \in Nat /\ Len(line) \in Nat
      /\ buf \o line \in Seq(Byte)
  BY LenProperties, ConcatProperties DEF TypeOK, ClientTypeOK
<1>2. ASSUME NEW n \in 0..Len(buf), buf' = Drop(buf, n), line' = line
      PROVE  buf' \o line' = Drop(buf \o line, n)
  BY <1>1, <1>2, DropConcat
<1>3. ASSUME buf' \o line' = buf \o line
      PROVE  0 \in 0..Len(buf) /\ buf' \o line' = Drop(buf \o line, 0)
  BY <1>1, <1>3, WholePrefix DEF Drop
<1>4. ASSUME buf' = <<>>, line' = line
      PROVE  Len(buf) \in 0..Len(buf) /\ buf' \o line' = Drop(buf \o line, Len(buf))
  <2>1. Len(buf) \in 0..Len(buf) /\ Drop(buf, Len(buf)) = <<>>
    BY <1>1, DropAll
  <2> QED
    BY <1>1, <1>4, <2>1, DropConcat
<1>5. CASE Fill
  <2>1. CASE UNCHANGED <<line, buf>>
    BY <1>3, <2>1
  <2>2. ASSUME NEW c \in 1..Len(line), FillBytes(c)
        PROVE  buf' \o line' = buf \o line
    <3>1. c \in 0..Len(line)
      BY <1>1
    <3>2. (buf \o SubSeq(line, 1, c)) \o Drop(line, c) = buf \o line
      BY <1>1, <3>1, CutKeeps
    <3>3. buf' = buf \o SubSeq(line, 1, c) /\ line' = Drop(line, c)
      BY <2>2 DEF FillBytes
    <3> QED
      BY <3>2, <3>3, Zenon
  <2>3. UNCHANGED <<line, buf>> \/ \E c \in 1..Len(line) : FillBytes(c)
    BY <1>5, FillOutcomes DEF TypeOK
  <2> QED
    BY <1>3, <2>1, <2>2, <2>3
<1>6. CASE Look
  <2>1. CASE op = "ReadLongFrame"
    <3>1. /\ line' = line
          /\ buf' = buf \/ \E m \in LongMsg : parseLongFrame(buf) = Parsed(m)
                                              /\ buf' = Drop(buf, Size[m])
      BY <1>6, <2>1, LongOutcomes
    <3>2. ASSUME NEW m \in LongMsg, parseLongFrame(buf) = Parsed(m)
          PROVE  Size[m] \in 0..Len(buf)
      BY <1>1, <3>2, ParsedIsThere, ClientAssumption DEF LongMsg
    <3> QED
      BY <1>2, <1>3, <3>1, <3>2
  <2>2. CASE op = "ReadSingleCharFrame"
    <3>1. /\ line' = line
          /\ buf' = <<>> \/ \E i \in 1..Len(buf) : buf' = Drop(buf, i)
      BY <1>6, <2>2, SingleOutcomes
    <3>2. \A i \in 1..Len(buf) : i \in 0..Len(buf)
      BY <1>1
    <3> QED
      BY <1>2, <1>4, <3>1, <3>2
  <2>3. CASE op \in {"probeSilence", "probeResponse"}
    <3>1. /\ line' = line
          /\ \/ buf' = buf \/ buf' = <<>>
             \/ \E m \in Msg : takeBufferedFrame(buf) = Parsed(m) /\ buf' = Drop(buf, Size[m])
      BY <1>6, <2>3, ProbeOutcomes
    <3>2. ASSUME NEW m \in Msg, takeBufferedFrame(buf) = Parsed(m)
          PROVE  Size[m] \in 0..Len(buf)
      BY <1>1, <3>2, TakenIsThere
    <3> QED
      BY <1>2, <1>3, <1>4, <3>1, <3>2
  <2>4. op \in {"ReadLongFrame", "ReadSingleCharFrame", "probeSilence", "probeResponse"}
    BY <1>6 DEF Look, LookForLongFrame, LookForSingleChar, LookForFirstByte, LookForAnswer
  <2> QED
    BY <2>1, <2>2, <2>3, <2>4
<1> QED
  BY <1>5, <1>6 DEF ClientStep

LEMMA InitBacked == Init => Backed
<1> SUFFICES ASSUME Init, NEW m \in LongMsg
             PROVE  Cardinality(Places(buf \o line, m)) <= credit[m]
  BY DEF Backed
<1>1. buf \o line = <<>> /\ Len(<<>>) = 0
  BY EmptySeq, ConcatEmptySeq DEF Init, ClientInit
<1>2. Places(buf \o line, m) = {}
  BY <1>1 DEF Places
<1>3. credit[m] = 0
  BY LongSize DEF Init
<1> QED
  BY <1>2, <1>3, FS_EmptySet

LEMMA NextBacked ==
    ASSUME Debris, TypeOK, Busy, Backed, [Next]_vars
    PROVE  Backed'
<1> SUFFICES ASSUME NEW m \in LongMsg
             PROVE  Cardinality(Places(buf' \o line', m)) <= credit'[m]
  BY DEF Backed
<1> DEFINE c == Cardinality(Places(buf \o line, m))
           c1 == Cardinality(Places(buf' \o line', m))
<1> SUFFICES c1 <= credit'[m]
  OBVIOUS
<1>1. /\ buf \in Seq(Byte) /\ line \in Seq(Byte) /\ Len(buf) \in Nat /\ Len(line) \in Nat
      /\ buf \o line \in Seq(Byte) /\ Len(buf \o line) = Len(buf) + Len(line)
      /\ \A i \in 1..Len(buf) : (buf \o line)[i] = buf[i]
  BY LenProperties, ConcatProperties DEF TypeOK, ClientTypeOK
<1>2. buf' \in Seq(Byte) /\ line' \in Seq(Byte) /\ buf' \o line' \in Seq(Byte)
  <2>1. TypeOK'
    BY NextType
  <2> QED
    BY <2>1, ConcatProperties DEF TypeOK, ClientTypeOK
<1>3. m \in Msg /\ credit \in [Msg -> Int] /\ credit[m] \in Int
  BY LongSize DEF TypeOK
<1>4. c \in Nat /\ c1 \in Nat /\ c <= credit[m]
  BY <1>1, <1>2, PlacesFinite DEF Backed
<1>5. ASSUME NEW t \in Transmissions, Transmit(t) PROVE c1 <= credit'[m]
  <2>1. t.msg \in Msg /\ t.bytes \in Seq(Byte)
    BY StreamAssumption
  <2>2. /\ buf' = buf /\ line' = line \o t.bytes
        /\ credit' = [credit EXCEPT ![t.msg] = @ + IF Intact(t) THEN 1 ELSE 0]
    BY <1>5 DEF Transmit, Receive
  <2>3. buf' \o line' = (buf \o line) \o t.bytes
    <3>1. ASSUME NEW b \in Seq(Byte), NEW l \in Seq(Byte), NEW s \in Seq(Byte)
          PROVE  (b \o l) \o s = b \o (l \o s)
      BY ConcatAssociative
    <3>2. (buf \o line) \o t.bytes = buf \o (line \o t.bytes)
      BY <1>1, <2>1, <3>1, Zenon
    <3> QED
      BY <2>2, <3>2, Zenon
  <2> DEFINE p == Cardinality(Places(t.bytes, m))
  <2>4. p <= (IF Intact(t) /\ t.msg = m THEN 1 ELSE 0) /\ BeginsOutside(t.bytes, m)
    <3>1. CASE Intact(t)
      BY <2>1, <3>1, SentPlaces DEF Intact
    <3>2. CASE ~Intact(t)
      BY <3>2, FS_EmptySet DEF Debris
    <3> QED
      BY <3>1, <3>2
  <2>5. p \in Nat
    BY <2>1, PlacesFinite
  <2>6. c1 <= c + p
    BY <1>1, <2>1, <2>4, <2>3, ConcatPlaces
  <2>7. credit'[m] = credit[m] + IF Intact(t) /\ t.msg = m THEN 1 ELSE 0
    BY <1>3, <2>1, <2>2
  <2> HIDE DEF c, c1, p
  <2> QED
    BY <1>3, <1>4, <2>4, <2>5, <2>6, <2>7
<1>6. CASE Step /\ ~Returns
  <2>1. PICK n \in 0..Len(buf) : buf' \o line' = Drop(buf \o line, n)
    BY <1>6, StepDrops DEF Step
  <2>2. n \in 0..Len(buf \o line)
    BY <1>1
  <2>3. c1 <= c
    BY <1>1, <2>1, <2>2, DropPlaces
  <2>4. credit' = credit
    BY <1>6 DEF Step
  <2> HIDE DEF c, c1
  <2> QED
    BY <1>3, <1>4, <2>3, <2>4
<1>7. CASE Step /\ Returns
  <2>1. PICK n \in 0..Len(buf) : Takes(n)
    BY <1>7, ReturnTakes
  <2> DEFINE k == ret'.msg
             l == n + Size[k]
  <2>2. k \in Msg /\ Size[k] \in Nat
    BY <1>7, ReturnTakes, ClientAssumption
  <2>3. l \in 0..Len(buf \o line) /\ l <= Len(buf) /\ buf' \o line' = Drop(buf \o line, l)
    BY <1>1, <2>1, <2>2 DEF Takes
  <2>4. credit'[m] = IF k = m THEN credit[m] - 1 ELSE credit[m]
    BY <1>3, <1>7, <2>2 DEF Step
  <2>5. c1 <= c
    BY <1>1, <2>3, DropPlaces
  <2>6. k = m => c1 <= c - 1
    <3> SUFFICES ASSUME k = m PROVE c1 <= c - 1
      OBVIOUS
    <3>1. k # Ack /\ Size[k] >= 2
      BY LongSize
    <3>2. SubSeq(buf, n + 1, l) = Bytes(k)
      BY <2>1, <3>1 DEF Takes
    <3>3. \A i \in n + 1..l : buf[i] \in Byte
      BY <1>1, <2>2, <2>3, ElementOfSeq
    <3>4. n + 1 \in Int /\ l \in Int /\ l - (n + 1) + 1 = Size[k]
      BY <2>2
    <3>5. ASSUME NEW j \in 1..Size[k]
          PROVE  SubSeq(buf, n + 1, l)[j] = buf[(n + 1) + j - 1]
      <4>1. \A a \in Int : (\A i \in a..l : buf[i] \in Byte)
                => \A i \in 1..l - a + 1 : SubSeq(buf, a, l)[i] = buf[a + i - 1]
        BY <3>4, SubSeqProperties
      <4>2. j \in 1..l - (n + 1) + 1
        BY <3>4
      <4> QED
        BY <3>3, <3>4, <4>1, <4>2
    <3>6. ASSUME NEW j \in 1..Size[k] PROVE (buf \o line)[(n + 1) + j - 1] = <<k, j>>
      <4>1. (n + 1) + j - 1 \in 1..Len(buf)
        BY <1>1, <2>2, <2>3
      <4>2. SubSeq(buf, n + 1, l)[j] = <<k, j>>
        BY <2>2, <3>2, BytesLemma
      <4> QED
        BY <1>1, <3>4, <3>5, <4>1, <4>2
    <3>7. n + 1 \in 1..Len(buf \o line) /\ (n + 1) + Size[k] - 1 <= Len(buf \o line) /\ n + 1 <= l
      BY <1>1, <2>2, <2>3, <3>1
    <3>8. n + 1 \in Places(buf \o line, m)
      BY <3>6, <3>7 DEF Places, Holds
    <3> QED
      BY <1>1, <2>3, <3>7, <3>8, DropPlaces
  <2> HIDE DEF c, c1, k, l
  <2> QED
    BY <1>3, <1>4, <2>4, <2>5, <2>6
<1>8. CASE Shut
  <2>1. buf' \o line' = <<>> /\ Len(<<>>) = 0 /\ credit' = credit
    BY <1>8, EmptySeq, ConcatEmptySeq DEF Shut, Close
  <2>2. Places(buf' \o line', m) = {}
    BY <2>1 DEF Places
  <2>3. c1 = 0
    BY <2>2, FS_EmptySet
  <2> HIDE DEF c, c1
  <2> QED
    BY <1>3, <1>4, <2>1, <2>3
<1>9. CASE Fail
  <2>1. buf' = buf /\ (line' = line \/ line' = <<>>) /\ credit' = credit
    BY <1>9 DEF Fail, ConnFails
  <2>2. CASE line' = <<>>
    <3>1. buf' \o line' = buf
      BY <1>1, <2>1, <2>2, ConcatEmptySeq
    <3>2. Places(buf, m) \in SUBSET Places(buf \o line, m)
      <4> SUFFICES ASSUME NEW i \in Places(buf, m) PROVE i \in Places(buf \o line, m)
        OBVIOUS
      <4>1. /\ i \in 1..Len(buf) /\ i + Size[m] - 1 <= Len(buf) /\ Size[m] \in Nat
            /\ \A j \in 1..Size[m] : buf[i + j - 1] = <<m, j>>
        BY LongSize DEF Places, Holds
      <4>2. \A j \in 1..Size[m] : i + j - 1 \in 1..Len(buf)
        BY <1>1, <4>1
      <4>3. \A j \in 1..Size[m] : (buf \o line)[i + j - 1] = <<m, j>>
        BY <1>1, <4>1, <4>2
      <4>4. i \in 1..Len(buf \o line) /\ i + Size[m] - 1 <= Len(buf \o line)
        BY <1>1, <4>1
      <4> QED
        BY <4>3, <4>4 DEF Places, Holds
    <3>3. c1 <= c
      BY <1>1, <3>1, <3>2, PlacesFinite, FS_Subset
    <3> HIDE DEF c, c1
    <3> QED
      BY <1>3, <1>4, <2>1, <3>3
  <2> QED
    BY <1>4, <2>1, <2>2
<1>10. (\E o \in Calls : Begin(o)) \/ Deadline \/ Cancel \/ UNCHANGED vars
           => UNCHANGED <<buf, line, credit>>
  BY DEF Begin, Call, Deadline, DeadlinePasses, Cancel, CtxEnds, vars, clientVars
<1>11. UNCHANGED <<buf, line, credit>> => c1 <= credit'[m]
  BY <1>4
<1> QED
  BY <1>5, <1>6, <1>7, <1>8, <1>9, <1>10, <1>11 DEF Next

\* A long frame is returned at most as often as it was sent whole: no answer that was
\* garbled, cut short or spliced is taken for one, and none is returned twice, with any
\* calls, cuts, timeouts and failures (read.go 52-110, scan.go 427-475).
THEOREM NoneIsInvented == Debris => (Spec => []NoAnswerInvented)
<1> SUFFICES ASSUME Debris PROVE Spec => []NoAnswerInvented
  OBVIOUS
<1>1. Init => TypeOK /\ Busy /\ Backed
  BY InitType, InitBusy, InitBacked
<1>2. TypeOK /\ Busy /\ Backed /\ [Next]_vars => (TypeOK /\ Busy /\ Backed)'
  BY NextType, NextBusy, NextBacked
<1>3. TypeOK /\ Backed => NoAnswerInvented
  <2> SUFFICES ASSUME TypeOK, Backed, NEW m \in LongMsg PROVE credit[m] >= 0
    BY DEF NoAnswerInvented
  <2>1. buf \o line \in Seq(Byte)
    BY ConcatProperties DEF TypeOK, ClientTypeOK
  <2>2. Cardinality(Places(buf \o line, m)) \in Nat
    BY <2>1, PlacesFinite
  <2>3. credit[m] \in Int /\ Cardinality(Places(buf \o line, m)) <= credit[m]
    BY LongSize DEF TypeOK, Backed
  <2> QED
    BY <2>2, <2>3
<1> QED
  BY <1>1, <1>2, <1>3, PTL DEF Spec

-----------------------------------------------------------------------------
(* The Client is a queue                                                   *)

UpTo(F, i) == {j \in F : j <= i}

LEMMA MsgSize ==
    ASSUME NEW m \in Msg
    PROVE  Size[m] \in Nat /\ Size[m] >= 1
  BY ClientAssumption DEF LongMsg

LEMMA FirstsFinite ==
    ASSUME NEW s \in Seq(Byte)
    PROVE  /\ Firsts(s) \subseteq 1..Len(s)
           /\ IsFiniteSet(Firsts(s)) /\ Cardinality(Firsts(s)) \in Nat
           /\ \A i : /\ IsFiniteSet(UpTo(Firsts(s), i))
                     /\ Cardinality(UpTo(Firsts(s), i)) \in Nat
                     /\ Cardinality(UpTo(Firsts(s), i)) <= Cardinality(Firsts(s))
<1>1. IsFiniteSet(1..Len(s))
  BY LenProperties, FS_Interval
<1>2. Firsts(s) \in SUBSET (1..Len(s))
  BY DEF Firsts
<1>3. IsFiniteSet(Firsts(s)) /\ Cardinality(Firsts(s)) \in Nat
  BY <1>1, <1>2, FS_Subset, FS_CardinalityType
<1>4. ASSUME NEW i
      PROVE  /\ IsFiniteSet(UpTo(Firsts(s), i))
             /\ Cardinality(UpTo(Firsts(s), i)) \in Nat
             /\ Cardinality(UpTo(Firsts(s), i)) <= Cardinality(Firsts(s))
  <2>1. UpTo(Firsts(s), i) \in SUBSET Firsts(s)
    BY DEF UpTo
  <2> QED
    BY <1>3, <2>1, FS_Subset, FS_CardinalityType
<1> QED
  BY <1>2, <1>3, <1>4

\* What the queue holds at k.
Item(s, k) == CHOOSE m \in Kth(s, k) : TRUE

LEMMA AnswersLemma ==
    ASSUME NEW s \in Seq(Byte)
    PROVE  /\ Answers(s) \in Seq({Item(s, k) : k \in 1..Cardinality(Firsts(s))})
           /\ Len(Answers(s)) = Cardinality(Firsts(s))
           /\ \A k \in 1..Cardinality(Firsts(s)) : Answers(s)[k] = Item(s, k)
<1> DEFINE n == Cardinality(Firsts(s))
           S == {Item(s, k) : k \in 1..n}
           q == [k \in 1..n |-> Item(s, k)]
<1>1. n \in Nat
  BY FirstsFinite
<1>2. q \in [1..n -> S] /\ \A k \in 1..n : q[k] = Item(s, k)
  OBVIOUS
<1>3. Answers(s) = q
  BY DEF Answers, Item
<1> HIDE DEF n, S, q
<1>4. q \in Seq(S) /\ Len(q) = n
  BY <1>1, <1>2, SeqDef
<1> QED
  BY <1>2, <1>3, <1>4 DEF n, S

\* Two queues are the same if they are as long and hold the same.
LEMMA SameQueue ==
    ASSUME NEW S, NEW T, NEW p \in Seq(S), NEW q \in Seq(T), Len(p) = Len(q),
           \A k \in 1..Len(p) : p[k] = q[k]
    PROVE  p = q
<1>1. p \in Seq(S \cup T) /\ q \in Seq(S \cup T)
  BY SeqMonotonic
<1> QED
  BY <1>1, SeqEqual

\* An answer that arrives is the last in the queue.
LEMMA ArriveLemma ==
    ASSUME NEW s \in Seq(Byte), NEW m \in Msg
    PROVE  Answers(s \o Bytes(m)) = Append(Answers(s), m)
<1> DEFINE t == Bytes(m)
           u == s \o t
           F == Firsts(s)
           G == Firsts(u)
           n == Cardinality(F)
           e == Len(s) + 1
<1>1. /\ t \in Seq(Byte) /\ Len(t) = Size[m] /\ Size[m] \in Nat /\ Size[m] >= 1
      /\ \A i \in 1..Size[m] : t[i] = <<m, i>>
  BY BytesLemma, MsgSize
<1> HIDE DEF t
<1>2. /\ Len(s) \in Nat /\ u \in Seq(Byte) /\ Len(u) = Len(s) + Size[m]
      /\ \A i \in 1..Len(s) + Size[m] : u[i] = IF i <= Len(s) THEN s[i] ELSE t[i - Len(s)]
  BY <1>1, ConcatProperties, LenProperties
<1> HIDE DEF u
<1>3. /\ \A i \in 1..Len(s) : i \in 1..Len(u) /\ u[i] = s[i]
      /\ e \in 1..Len(u) /\ u[e] = <<m, 1>> /\ e \notin 1..Len(s)
      /\ \A i \in 1..Len(u) : i > e => u[i][2] # 1
      /\ \A i \in 1..Len(u) : i \in 1..Len(s) \/ i = e \/ i > e
  <2>1. ASSUME NEW i \in 1..Len(u), i > Len(s)
        PROVE  u[i] = <<m, i - Len(s)>>
    <3>1. i - Len(s) \in 1..Size[m] /\ ~(i <= Len(s)) /\ i \in 1..Len(s) + Size[m]
      BY <1>1, <1>2, <2>1
    <3> QED
      BY <1>1, <1>2, <3>1
  <2>2. e \in 1..Len(u) /\ e > Len(s) /\ e - Len(s) = 1
    BY <1>1, <1>2
  <2>3. \A i \in 1..Len(u) : i > e => i > Len(s) /\ i - Len(s) # 1
    BY <1>2
  <2>4. \A i \in 1..Len(s) : i \in 1..Len(u) /\ u[i] = s[i]
    BY <1>1, <1>2
  <2>5. \A i \in 1..Len(u) : i \in 1..Len(s) \/ i = e \/ i > e
    BY <1>1, <1>2
  <2>6. e \notin 1..Len(s) /\ u[e] = <<m, 1>>
    BY <1>2, <2>1, <2>2
  <2>7. \A i \in 1..Len(u) : i > e => u[i][2] # 1
    BY <2>1, <2>3
  <2> QED
    BY <2>2, <2>4, <2>5, <2>6, <2>7
<1>4. G = F \cup {e} /\ e \notin F /\ F \subseteq 1..Len(s)
  BY <1>3 DEF Firsts
<1> HIDE DEF F, G, e
<1>5. /\ IsFiniteSet(F) /\ n \in Nat
      /\ \A i : Cardinality(UpTo(F, i)) \in Nat /\ Cardinality(UpTo(F, i)) <= n
  BY FirstsFinite DEF F
<1> HIDE DEF n
<1>6. Cardinality(G) = n + 1
  BY <1>4, <1>5, FS_AddElement DEF n
<1>7. ASSUME NEW i \in F PROVE UpTo(G, i) = UpTo(F, i)
  <2>1. i <= Len(s) /\ i \in Nat
    BY <1>2, <1>4, <1>7
  <2>2. ~(e <= i)
    BY <1>2, <2>1 DEF e
  <2> QED
    BY <1>4, <2>2 DEF UpTo
<1>8. Cardinality(UpTo(G, e)) = n + 1
  <2>1. \A i \in G : i <= e
    BY <1>2, <1>4 DEF e
  <2>2. UpTo(G, e) = G
    BY <2>1 DEF UpTo
  <2> QED
    BY <1>6, <2>2
<1>9. ASSUME NEW k \in 1..n PROVE Kth(u, k) = Kth(s, k)
  <2>1. k # n + 1
    BY <1>5
  <2>2. {i \in G : Cardinality(UpTo(G, i)) = k} = {i \in F : Cardinality(UpTo(F, i)) = k}
    BY <1>4, <1>7, <1>8, <2>1
  <2>3. \A i \in F : u[i] = s[i]
    BY <1>3, <1>4
  <2> QED
    BY <2>2, <2>3 DEF Kth, UpTo, F, G
<1>10. Kth(u, n + 1) = {m}
  <2>1. \A i \in F : Cardinality(UpTo(F, i)) # n + 1
    BY <1>5
  <2>2. {i \in G : Cardinality(UpTo(G, i)) = n + 1} = {e}
    BY <1>4, <1>7, <1>8, <2>1
  <2>3. u[e][1] = m
    BY <1>3 DEF e
  <2> QED
    BY <2>2, <2>3 DEF Kth, UpTo, G
<1> DEFINE p == Answers(u)
           q == Answers(s)
           S == {Item(s, k) : k \in 1..n} \cup {m}
           S0 == {Item(s, k) : k \in 1..n}
<1>11. /\ q \in Seq(S) /\ Len(q) = n
       /\ \A k \in 1..n : q[k] = Item(s, k)
  <2>1. /\ q \in Seq(S0) /\ Len(q) = n
        /\ \A k \in 1..n : q[k] = Item(s, k)
    BY AnswersLemma DEF n, F
  <2>2. S0 \subseteq S
    OBVIOUS
  <2> HIDE DEF q, S, S0
  <2> QED
    BY <2>1, <2>2, SeqMonotonic
<1>12. /\ p \in Seq({Item(u, k) : k \in 1..n + 1}) /\ Len(p) = n + 1
       /\ \A k \in 1..n + 1 : p[k] = Item(u, k)
  BY <1>2, <1>6, AnswersLemma DEF G
<1>13. m \in S
  OBVIOUS
<1> HIDE DEF p, q, S
<1>14. /\ Append(q, m) \in Seq(S) /\ Len(Append(q, m)) = n + 1
       /\ \A k \in 1..n : Append(q, m)[k] = q[k]
       /\ Append(q, m)[n + 1] = m
  BY <1>11, <1>13, AppendProperties
<1>15. ASSUME NEW k \in 1..n + 1 PROVE p[k] = Append(q, m)[k]
  <2>1. CASE k \in 1..n
    <3>1. p[k] = Item(u, k)
      BY <1>12
    <3>2. Append(q, m)[k] = Item(s, k)
      BY <1>11, <1>14, <2>1
    <3>3. Kth(u, k) = Kth(s, k)
      BY <1>9, <2>1
    <3> QED
      BY <3>1, <3>2, <3>3, Zenon DEF Item
  <2>2. CASE k = n + 1
    BY <1>10, <1>12, <1>14, <2>2 DEF Item
  <2>3. k \in 1..n \/ k = n + 1
    BY <1>5
  <2> QED
    BY <2>1, <2>2, <2>3
<1>16. p = Append(q, m)
  BY <1>12, <1>14, <1>15, SameQueue
<1> QED
  BY <1>16 DEF p, q, u, t

\* The answer at the head of the stream is the first in the queue.
LEMMA TakeLemma ==
    ASSUME NEW s \in Seq(Byte), NEW m \in Msg, Size[m] \in 1..Len(s),
           \A i \in 1..Size[m] : s[i] = <<m, i>>
    PROVE  /\ Answers(s) # <<>>
           /\ Head(Answers(s)) = m
           /\ Tail(Answers(s)) = Answers(Drop(s, Size[m]))
<1> DEFINE l == Size[m]
           d == Drop(s, l)
           F == Firsts(s)
           G == Firsts(d)
           n == Cardinality(G)
<1>1. Len(s) \in Nat /\ l \in Nat /\ l >= 1 /\ l <= Len(s) /\ l \in 0..Len(s)
  BY LenProperties
<1>2. /\ d \in Seq(Byte) /\ Len(d) = Len(s) - l
      /\ \A i \in 1..Len(s) - l : d[i] = s[i + l]
  BY <1>1, DropLemma
<1> HIDE DEF d, l
<1>3. F = {1} \cup {i + l : i \in G}
  <2>1. ASSUME NEW i \in F PROVE i = 1 \/ (i - l \in G /\ i = (i - l) + l)
    <3>1. i \in 1..Len(s) /\ s[i][2] = 1
      BY <2>1 DEF Firsts
    <3>2. CASE i <= l
      <4>1. i \in 1..Size[m]
        BY <1>1, <3>1, <3>2 DEF l
      <4> QED
        BY <3>1, <4>1
    <3>3. CASE ~(i <= l)
      <4>1. i - l \in 1..Len(s) - l /\ (i - l) + l = i
        BY <1>1, <3>1, <3>3
      <4> QED
        BY <1>2, <3>1, <4>1 DEF Firsts
    <3> QED
      BY <3>2, <3>3
  <2>2. 1 \in F
    <3>1. 1 \in 1..Len(s) /\ 1 \in 1..Size[m]
      BY <1>1 DEF l
    <3> QED
      BY <3>1 DEF Firsts
  <2>3. ASSUME NEW i \in G PROVE i + l \in F
    <3>1. i \in 1..Len(s) - l /\ d[i][2] = 1
      BY <1>2, <2>3 DEF Firsts
    <3>2. i + l \in 1..Len(s)
      BY <1>1, <3>1
    <3> QED
      BY <1>2, <3>1, <3>2 DEF Firsts
  <2> QED
    BY <2>1, <2>2, <2>3
<1>4. /\ G \subseteq 1..Len(s) - l /\ IsFiniteSet(G) /\ n \in Nat
      /\ \A i : IsFiniteSet(UpTo(G, i)) /\ Cardinality(UpTo(G, i)) \in Nat
  BY <1>2, FirstsFinite
<1> HIDE DEF F, G
<1>5. \A i \in G : i \in Nat /\ i >= 1
  BY <1>1, <1>4
\* The numbers of T moved by l, and 1, are one more than those of T.
<1>6. ASSUME NEW T \in SUBSET G, IsFiniteSet(T)
      PROVE  Cardinality({1} \cup {i + l : i \in T}) = Cardinality(T) + 1
  <2> DEFINE M == {i + l : i \in T}
  <2>1. M \subseteq Int /\ T \subseteq Int /\ 1 \notin M
    BY <1>1, <1>5
  <2>2. \A i \in T : i + l \in M
    OBVIOUS
  <2>3. \A j \in M : j + (0 - l) \in T
    BY <1>1, <2>1
  <2> HIDE DEF M
  <2>4. IsFiniteSet(M) /\ Cardinality(M) <= Cardinality(T)
    <3> DEFINE k == 0 - l
    <3>1. k \in Int /\ \A j \in M : j + k \in T
      BY <1>1, <2>3
    <3> HIDE DEF k
    <3> QED
      BY <1>6, <2>1, <3>1, Shifted
  <2>5. Cardinality(T) <= Cardinality(M) /\ Cardinality(T) \in Nat /\ Cardinality(M) \in Nat
    <3>1. l \in Int
      BY <1>1
    <3> QED
      BY <2>1, <2>2, <2>4, <3>1, Shifted
  <2>6. Cardinality(M \cup {1}) = Cardinality(M) + 1
    BY <2>1, <2>4, FS_AddElement
  <2>7. Cardinality(M) + 1 = Cardinality(T) + 1
    BY <2>4, <2>5
  <2>8. {1} \cup M = M \cup {1}
    OBVIOUS
  <2>9. Cardinality({1} \cup M) = Cardinality(T) + 1
    BY <2>6, <2>7, <2>8, Zenon
  <2> QED
    BY <2>9 DEF M
<1>7. Cardinality(F) = n + 1
  BY <1>3, <1>4, <1>6
<1>8. UpTo(F, 1) = {1}
  <2>1. \A i \in G : ~(i + l <= 1)
    BY <1>1, <1>5
  <2> QED
    BY <1>3, <2>1 DEF UpTo
<1>9. Cardinality(UpTo(F, 1)) = 1
  BY <1>8, FS_Singleton
<1>10. ASSUME NEW i \in G
       PROVE  /\ Cardinality(UpTo(F, i + l)) = Cardinality(UpTo(G, i)) + 1
              /\ Cardinality(UpTo(G, i)) \in Nat \ {0}
  <2>1. \A j \in G : j + l <= i + l <=> j <= i
    BY <1>1, <1>5
  <2>2. 1 <= i + l
    BY <1>1, <1>5
  <2>3. UpTo(F, i + l) = {1} \cup {j + l : j \in UpTo(G, i)}
    BY <1>3, <2>1, <2>2 DEF UpTo
  <2>4. UpTo(G, i) \in SUBSET G
    BY DEF UpTo
  <2>5. Cardinality(UpTo(F, i + l)) = Cardinality(UpTo(G, i)) + 1
    BY <1>4, <1>6, <2>3, <2>4
  <2>6. i \in UpTo(G, i)
    BY <1>5 DEF UpTo
  <2>7. Cardinality(UpTo(G, i)) # 0
    BY <1>4, <2>6, FS_EmptySet
  <2> QED
    BY <1>4, <2>5, <2>7
<1>11. Kth(s, 1) = {m}
  <2>1. \A i \in G : Cardinality(UpTo(F, i + l)) # 1
    BY <1>10
  <2>2. {i \in F : Cardinality(UpTo(F, i)) = 1} = {1}
    BY <1>3, <1>9, <2>1
  <2>3. s[1][1] = m
    <3>1. 1 \in 1..Size[m]
      BY <1>1 DEF l
    <3> QED
      BY <3>1
  <2> QED
    BY <2>2, <2>3 DEF Kth, UpTo, F
<1>12. ASSUME NEW k \in 1..n PROVE Kth(s, k + 1) = Kth(d, k)
  <2>1. k \in Nat /\ k + 1 # 1
    BY <1>4
  <2>2. \A i \in G : Cardinality(UpTo(F, i + l)) = k + 1 <=> Cardinality(UpTo(G, i)) = k
    BY <1>10, <2>1
  <2> DEFINE A == {i \in G : Cardinality(UpTo(G, i)) = k}
  <2>3. {i \in F : Cardinality(UpTo(F, i)) = k + 1} = {i + l : i \in A}
    BY <1>3, <1>9, <2>1, <2>2
  <2>4. \A i \in A : s[i + l] = d[i]
    BY <1>2, <1>4
  <2>5. Kth(s, k + 1) = {s[j][1] : j \in {i + l : i \in A}}
    BY <2>3 DEF Kth, UpTo, F
  <2>6. Kth(d, k) = {d[i][1] : i \in A}
    BY DEF Kth, UpTo, G
  <2> HIDE DEF A
  <2> QED
    BY <2>4, <2>5, <2>6
<1> DEFINE p == Answers(s)
           q == Answers(d)
<1>13. /\ p \in Seq({Item(s, k) : k \in 1..n + 1}) /\ Len(p) = n + 1
       /\ \A k \in 1..n + 1 : p[k] = Item(s, k)
  BY <1>7, AnswersLemma DEF F
<1>14. /\ q \in Seq({Item(d, k) : k \in 1..n}) /\ Len(q) = n
       /\ \A k \in 1..n : q[k] = Item(d, k)
  BY <1>2, AnswersLemma DEF G
<1> HIDE DEF p, q, n
<1>15. p # <<>>
  BY <1>4, <1>13, EmptySeq
<1>16. Head(p) = m
  <2>1. Head(p) = p[1] /\ 1 \in 1..n + 1
    BY <1>4, <1>13, <1>15
  <2>2. Item(s, 1) = m
    BY <1>11 DEF Item
  <2> QED
    BY <1>13, <2>1, <2>2
<1>17. Tail(p) = q
  <2>1. /\ Tail(p) \in Seq({Item(s, k) : k \in 1..n + 1}) /\ Len(Tail(p)) = n
        /\ \A k \in 1..n : Tail(p)[k] = p[k + 1]
    BY <1>4, <1>13, <1>15, HeadTailProperties
  <2>2. ASSUME NEW k \in 1..n PROVE Tail(p)[k] = q[k]
    <3>1. k + 1 \in 1..n + 1
      BY <1>4
    <3> QED
      BY <1>12, <1>13, <1>14, <2>1, <3>1 DEF Item
  <2> DEFINE r == Tail(p)
             S == {Item(s, k) : k \in 1..n + 1}
             T == {Item(d, k) : k \in 1..n}
  <2>3. /\ r \in Seq(S) /\ q \in Seq(T) /\ Len(r) = Len(q)
        /\ \A k \in 1..Len(r) : r[k] = q[k]
    BY <1>14, <2>1, <2>2
  <2> HIDE DEF r, S, T
  <2>4. r = q
    BY <2>3, SameQueue
  <2> QED
    BY <2>4 DEF r
<1> QED
  BY <1>15, <1>16, <1>17 DEF p, q, d, l

\* A call in progress has returned nothing.
Unanswered == op # "none" => ret.msg = NoMsg

LEMMA NextUnanswered == Unanswered /\ [Next]_vars => Unanswered'
<1> SUFFICES ASSUME Unanswered, [Next]_vars PROVE Unanswered'
  OBVIOUS
<1>1. ASSUME NEW o \in Calls, Begin(o) PROVE Unanswered'
  BY <1>1 DEF Begin, Call, NoResult, Unanswered
<1>2. CASE Step
  BY <1>2 DEF Unanswered, Step, ClientStep, Look, Fill, LookForLongFrame, LookForSingleChar,
     LookForFirstByte, LookForAnswer, GoFill, Return, FillCtxEnded, FillTimedOut, FillBytes,
     FillConnFailed, GiveUp
<1>3. (\E t \in Transmissions : Transmit(t)) \/ Shut \/ Fail \/ Deadline \/ Cancel
          \/ UNCHANGED vars => Unanswered'
  BY DEF Unanswered, Transmit, Receive, Shut, Close, Fail, ConnFails, Deadline, DeadlinePasses,
     Cancel, CtxEnds, vars, clientVars
<1> QED
  BY <1>1, <1>2, <1>3 DEF Next

\* A step of a call that does not return a frame leaves what is to be read as it is.
LEMMA StepKeeps ==
    ASSUME TypeOK, Busy, SoundLine, Aligned(buf \o line), Unanswered, ClientStep, ~Returns
    PROVE  buf' \o line' = buf \o line /\ ret'.msg = ret.msg
<1>1. buf \in Seq(Byte) /\ line \in Seq(Byte) /\ Len(line) \in Nat
  BY LenProperties DEF TypeOK, ClientTypeOK
<1>2. op # "none" => ret.msg = NoMsg
  BY DEF Unanswered
<1>3. op # "none" /\ op # "ReadSingleCharFrame"
  BY ClientStepType DEF TypeOK, Busy, SoundLine
<1>4. ~(op' = "none" /\ ret'.err = {})
  BY <1>3 DEF Returns
<1>5. ASSUME NEW n \in 1..Len(line), FillBytes(n)
      PROVE  buf' \o line' = buf \o line /\ ret'.msg = ret.msg
  <2>0. n \in 0..Len(line)
    BY <1>1
  <2>1. (buf \o SubSeq(line, 1, n)) \o Drop(line, n) = buf \o line
    BY <1>1, <2>0, CutKeeps
  <2>2. buf' = buf \o SubSeq(line, 1, n) /\ line' = Drop(line, n) /\ ret' = ret
    BY <1>5 DEF FillBytes
  <2> QED
    BY <2>1, <2>2, Zenon
<1>6. ASSUME NEW e, GiveUp(e)
      PROVE  buf' = buf /\ line' = line /\ ret'.msg = ret.msg
  BY <1>2, <1>3, <1>6 DEF GiveUp, Return
<1>7. CASE LookForLongFrame
  BY <1>2, <1>3, <1>4, <1>7 DEF LookForLongFrame, GoFill, Return
<1>8. CASE LookForFirstByte
  BY <1>8 DEF LookForFirstByte, GoFill
<1>9. CASE LookForAnswer
  <2>1. takeBufferedFrame(buf).err = {} \/ takeBufferedFrame(buf).err = NeedMore
    BY <1>1, TakeAligned DEF Failed, Parsed, NeedMore
  <2> QED
    BY <1>4, <1>9, <2>1 DEF LookForAnswer, GoFill, Return
<1> QED
  BY <1>3, <1>5, <1>6, <1>7, <1>8, <1>9 DEF ClientStep, Look, Fill, LookForSingleChar,
     FillCtxEnded, FillTimedOut, FillConnFailed

\* On a sound line each step of the Client and its slaves is one of the queue, or leaves
\* it alone.
LEMMA QueueStep ==
    ASSUME SoundLine, TypeOK, Busy, StreamAligned, Unanswered, [Next]_vars
    PROVE  [Queue!Next]_(Queue!vars)
<1> DEFINE s == buf \o line
           t == buf' \o line'
<1>1. /\ buf \in Seq(Byte) /\ line \in Seq(Byte) /\ Len(buf) \in Nat /\ Len(line) \in Nat
      /\ s \in Seq(Byte) /\ Len(s) = Len(buf) + Len(line)
      /\ \A i \in 1..Len(buf) : s[i] = buf[i]
  BY LenProperties, ConcatProperties DEF TypeOK, ClientTypeOK
<1>2. Aligned(s)
  BY DEF StreamAligned
<1>3. ASSUME t = s, ret'.msg = ret.msg PROVE [Queue!Next]_(Queue!vars)
  BY <1>3 DEF Queue!vars
<1>4. ASSUME NEW o \in Calls, Begin(o) PROVE Queue!Begin
  BY <1>4 DEF Begin, Call, NoResult, Queue!Begin
<1>5. ASSUME NEW x \in Transmissions, Transmit(x) PROVE \E m \in Msg : Queue!Arrive(m)
  <2>1. x.msg \in Msg /\ x.bytes = Bytes(x.msg) /\ x.bytes \in Seq(Byte)
    BY StreamAssumption DEF SoundLine, Intact
  <2>2. buf' = buf /\ line' = line \o x.bytes /\ ret' = ret
    BY <1>5 DEF Transmit, Receive
  <2>3. t = s \o Bytes(x.msg)
    <3>1. ASSUME NEW b \in Seq(Byte), NEW l \in Seq(Byte), NEW y \in Seq(Byte)
          PROVE  (b \o l) \o y = b \o (l \o y)
      BY ConcatAssociative
    <3>2. (buf \o line) \o x.bytes = buf \o (line \o x.bytes)
      BY <1>1, <2>1, <3>1, Zenon
    <3> QED
      BY <2>1, <2>2, <3>2, Zenon
  <2> HIDE DEF s
  <2>4. Answers(t) = Append(Answers(s), x.msg)
    BY <1>1, <2>1, <2>3, ArriveLemma
  <2> QED
    BY <2>1, <2>2, <2>4 DEF Queue!Arrive, s
<1>6. CASE Step /\ Returns
  <2>1. PICK n \in 0..Len(buf) : Takes(n)
    BY <1>6, ReturnTakes
  <2>2. op # "none" /\ op # "ReadSingleCharFrame"
    BY <1>6 DEF Returns, Busy, SoundLine
  <2> DEFINE m == ret'.msg
  <2>3. m \in Msg /\ Size[m] \in Nat /\ Size[m] >= 1 /\ Size[Ack] = 1
    BY <1>6, ReturnTakes, MsgSize, ClientAssumption
  <2>4. n = 0 /\ Size[m] <= Len(buf) /\ t = Drop(s, Size[m])
    BY <2>1, <2>2, <2>3 DEF Takes
  <2>5. Size[m] \in 1..Len(s)
    BY <1>1, <2>3, <2>4
  <2>6. \A i \in 1..Size[m] : s[i] = <<m, i>>
    <3>1. CASE m # Ack
      <4>1. SubSeq(buf, 1, Size[m]) = Bytes(m)
        BY <2>1, <2>3, <2>4, <3>1 DEF Takes
      <4>2. Size[m] \in 0..Len(buf)
        BY <1>1, <2>3, <2>4
      <4> QED
        BY <1>1, <2>3, <2>4, <4>1, <4>2, PrefixLemma, BytesLemma
    <3>2. CASE m = Ack
      <4>1. IsE5(buf[1]) /\ 1 \in 1..Len(buf) /\ s[1] = buf[1]
        BY <1>1, <2>1, <2>3, <2>4, <3>2 DEF Takes
      <4>2. s[1] \in Wire /\ s[1][2] = 1
        <5>1. s # <<>> /\ 1 \in 1..Len(s)
          BY <1>1, <4>1, EmptySeq
        <5> QED
          BY <1>2, <5>1 DEF Aligned
      <4>3. buf[1] = <<Ack, 1>>
        BY <4>1, <4>2, ClientAssumption DEF IsE5, LongMsg
      <4> QED
        BY <2>3, <3>2, <4>1, <4>3
    <3> QED
      BY <3>1, <3>2
  <2>7. ret.msg = NoMsg
    BY <2>2 DEF Unanswered
  <2> HIDE DEF s, t, m
  <2>8. Answers(s) # <<>> /\ Head(Answers(s)) = m /\ Tail(Answers(s)) = Answers(t)
    BY <1>1, <2>3, <2>4, <2>5, <2>6, TakeLemma
  <2>9. Queue!Take
    BY <2>7, <2>8 DEF Queue!Take, s, t, m
  <2> QED
    BY <2>9 DEF Queue!Next
<1>7. CASE Step /\ ~Returns
  BY <1>2, <1>3, <1>7, StepKeeps DEF Step
<1>8. ~Shut /\ ~Fail
  BY DEF SoundLine, Shut, Fail
<1>9. Deadline \/ Cancel \/ UNCHANGED vars => UNCHANGED <<buf, line, ret>>
  BY DEF Deadline, DeadlinePasses, Cancel, CtxEnds, vars, clientVars
<1> QED
  BY <1>3, <1>4, <1>5, <1>6, <1>7, <1>8, <1>9 DEF Next, Queue!Next

\* While the line is sound a Client is the queue of AnswerQueue: a read returns the oldest
\* answer or, failing, none, however the answers are cut into Reads and whatever deadlines
\* and contexts do meanwhile (gombus.go 20-28, read.go 52-110, scan.go 427-475).
THEOREM ClientIsAQueue == SoundLine => (Spec => ImplementsQueue)
<1> SUFFICES ASSUME SoundLine PROVE Spec => ImplementsQueue
  OBVIOUS
<1> DEFINE Inv == TypeOK /\ Busy /\ StreamAligned /\ NoSpuriousError /\ Unanswered
<1>1. Init => Inv
  BY InitType, InitBusy, InitSound DEF Init, ClientInit, Unanswered
<1>2. Inv /\ [Next]_vars => Inv'
  BY NextType, NextBusy, NextSound, NextUnanswered
<1>3. Init => Queue!Init
  <2> SUFFICES ASSUME Init PROVE Answers(buf \o line) = <<>> /\ ret.msg = NoMsg
    BY DEF Queue!Init
  <2>1. buf \o line = <<>> /\ Len(<<>>) = 0 /\ <<>> \in Seq(Byte)
    BY EmptySeq, ConcatEmptySeq DEF Init, ClientInit
  <2>2. Firsts(<<>>) = {}
    BY <2>1 DEF Firsts
  <2>3. Len(Answers(<<>>)) = 0
    BY <2>1, <2>2, AnswersLemma, FS_EmptySet
  <2>4. Answers(<<>>) = <<>>
    BY <2>1, <2>3, AnswersLemma, EmptySeq
  <2> QED
    BY <2>1, <2>4 DEF Init, ClientInit, NoResult
<1>4. Inv /\ [Next]_vars => [Queue!Next]_(Queue!vars)
  BY QueueStep
<1> HIDE DEF Inv
<1> QED
  BY <1>1, <1>2, <1>3, <1>4, PTL DEF Spec, ImplementsQueue, Queue!Spec

=============================================================================
