------------------------- MODULE ReadSessionProofs -------------------------
(***************************************************************************)
(* What the operations of one Client return, for any slaves, telegrams,    *)
(* sizes, cuts, faults and failures.  The invariant says of every state    *)
(* where the bytes come from that the call in progress may find, and, in a *)
(* walk, where its slave stands.                                           *)
(***************************************************************************)
EXTENDS ReadSession, ClientProofs

\* Every long frame has a legal length.
Legal == \A m \in LongMsg : Size[m] >= MinSize

Steps == {"reset", "ack", "request", "response"}

Jobs == [kind : Kinds, slave : Slaves, frames : Seq(Frames), lastFCB : {0, 1},
         step : Steps]

Walking == job # NoJob /\ job.kind = "ReadAllFrames"

\* Every variable has its type, a call is in progress only where an operation
\* waits for one, and what ReadLongFrame returned is a long frame.
SessionTypeOK ==
    /\ ClientTypeOK
    /\ outbox \in Seq(Seq(Byte))
    /\ job \in Jobs \cup {NoJob}
    /\ fcb \in [Slaves -> SUBSET {0, 1}]
    /\ pos \in [Slaves -> Nat \ {0}]
    /\ \A s \in Slaves : pos[s] <= Telegrams[s]
    /\ sound \in BOOLEAN /\ calm \in BOOLEAN
    /\ op \in {"none", "ReadSingleCharFrame", "ReadLongFrame"}
    /\ op = "none" => at = "look" /\ ~late
    /\ op = "ReadSingleCharFrame" => job # NoJob /\ job.step = "ack"
    /\ op = "ReadLongFrame" => job # NoJob /\ job.step = "response"
    /\ job # NoJob /\ job.step \in {"reset", "ack"} =>
           job.kind = "ReadAllFrames" /\ job.frames = <<>> /\ job.lastFCB = 1
    /\ job # NoJob /\ job.kind # "ReadAllFrames" => job.frames = <<>>
    /\ job # NoJob /\ job.step = "response" /\ op = "none" /\ ret.err = {} =>
           ret.msg \in Frames

\* A walk has room for the frame it waits for.
HasRoom ==
    job # NoJob => /\ Len(job.frames) <= MaxFramesPerRead
                   /\ job.step = "response" => Len(job.frames) < MaxFramesPerRead

-----------------------------------------------------------------------------
(* Where a call's bytes come from                                          *)

\* ReadLongFrame can only return an error, now and whatever else arrives.
Blocked == at = "look" /\ parseLongFrame(buf).err \cap Malformed # {}

Fresh == Quiet /\ Starved(buf)

\* No byte is read any more: the transport is over.
Dead == conn # "up" /\ line = <<>> /\ Starved(buf)

\* The telegram the slave has for the request it heard last.
Asked == <<job.slave, pos[job.slave]>>

\* The slave heard the request that is to be answered: it has its bit, and in
\* a walk the telegram is the next one.
Heard ==
    /\ fcb[job.slave] = {job.lastFCB}
    /\ Walking /\ job.slave \notin Endless => pos[job.slave] = Len(job.frames) + 1

\* The answer waits, or is on its way behind what earlier calls left.
Waiting == Heard /\ line = <<>> /\ Starved(buf) /\ outbox = <<Bytes(Asked)>>

Arriving ==
    /\ Heard /\ outbox = <<>>
    /\ at = "fill" => Starved(buf)
    /\ \E n \in 0..Len(buf) : Reply(n, Asked)

\* The slave has started over.
Restarted == fcb[job.slave] = {} /\ pos[job.slave] = 1

OnlyLastE5(b) == \A i \in 1..Len(b) : i < Len(b) => ~IsE5(b[i])

\* There is at most one E5h to be read, behind everything else, and it is the
\* acknowledgement of the link reset.
AckIsLast ==
    /\ outbox # <<>> => ~HasE5(buf) /\ ~HasE5(line)
    /\ line # <<>> => ~HasE5(buf)
    /\ \A i \in 1..Len(outbox) : i < Len(outbox) => ~HasE5(outbox[i])
    /\ OnlyLastE5(buf) /\ OnlyLastE5(line)
    /\ \A i \in 1..Len(outbox) : OnlyLastE5(outbox[i])
    /\ LeftE5 => Restarted
    /\ at = "fill" => buf = <<>>

Accounted ==
    /\ op = "none" => Blocked \/ Fresh \/ Dead
    /\ op = "ReadLongFrame" => Blocked \/ Fresh \/ Dead \/ Waiting \/ Arriving

\* No context has ended, so the calls are over when nothing is on its way.
CalmInv ==
    Prompt /\ calm => /\ ctx = "live"
                      /\ late => Quiet
                      /\ Accounted

-----------------------------------------------------------------------------
(* On a bus that stays sound                                               *)

Clean == Quiet /\ buf = <<>>

\* The answer as it was sent, some of it read.
Coming ==
    /\ Heard /\ outbox = <<>>
    /\ Split(Asked)
    /\ at = "fill" => line # <<>>

Due == Waiting /\ buf = <<>>

SoundPlaces ==
    /\ job.step = "reset" => Quiet /\ ~LeftE5
    /\ job.step = "ack" /\ op # "none" => LeftE5
    /\ job.step \in {"ack", "response"} /\ op = "none" => ret.err = {} /\ Clean
    /\ job.step = "request" => Clean
    /\ job.step = "response" /\ op # "none" => Due \/ Coming

SoundInv ==
    Legal /\ sound => /\ ctx = "live" /\ conn = "up"
                      /\ late => Quiet
                      /\ Walking => SoundPlaces

-----------------------------------------------------------------------------
(* Where a walk stands                                                     *)

Tidy == (Prompt /\ calm) \/ (Legal /\ sound /\ Walking)

SoFar(s, n) == [k \in 1..n |-> <<s, k>>]

WalkInv ==
    Tidy /\ job # NoJob =>
        /\ job.step = "reset" => ~LeftE5
        /\ job.step = "ack" /\ op # "none" => AckIsLast
        /\ job.step = "ack" /\ op = "none" /\ ret.err = {} => Restarted
        /\ job.step = "response" /\ op = "none" /\ ret.err = {} =>
               Heard /\ ret.msg = Asked
        /\ \A i \in 1..Len(job.frames) : job.frames[i][1] = job.slave
        /\ Walking /\ job.slave \notin Endless =>
               job.frames = SoFar(job.slave, Len(job.frames))
        /\ Walking /\ job.step = "request" =>
               IF job.frames = <<>> THEN Restarted /\ job.lastFCB = 1
               ELSE /\ fcb[job.slave] = {job.lastFCB}
                    /\ job.slave \notin Endless =>
                           /\ pos[job.slave] = Len(job.frames)
                           /\ Len(job.frames) < Telegrams[job.slave]

ResultInv ==
    /\ Prompt => CalmFramesFromTheSlave /\ WalkIsComplete
    /\ Prompt /\ calm /\ Returned("ReadAllFrames") => result.slave \notin Endless
    /\ Legal => SoundWalkSucceeds

SessionInv == SessionTypeOK /\ HasRoom /\ CalmInv /\ SoundInv /\ WalkInv /\ ResultInv

-----------------------------------------------------------------------------
(* The values                                                              *)

\* A slave's telegrams are the long frames there are.
LEMMA FrameLemma ==
    /\ LongMsg = Frames
    /\ \A s \in Slaves : \A k \in 1..Telegrams[s] : <<s, k>> \in Frames
    /\ \A m \in Frames : m[1] \in Slaves /\ m[2] \in 1..Telegrams[m[1]] /\ m = <<m[1], m[2]>>
<1>1. LongMsg = Frames
  BY SessionAssumption DEF LongMsg
<1>2. \A s \in Slaves : \A k \in 1..Telegrams[s] : <<s, k>> \in Frames
  BY DEF Frames
<1>3. ASSUME NEW m \in Frames
      PROVE  m[1] \in Slaves /\ m[2] \in 1..Telegrams[m[1]] /\ m = <<m[1], m[2]>>
  <2>1. PICK s \in Slaves : m \in {<<s, k>> : k \in 1..Telegrams[s]}
    BY DEF Frames
  <2>2. PICK k \in 1..Telegrams[s] : m = <<s, k>>
    BY <2>1
  <2> QED
    BY <2>2
<1> QED
  BY <1>1, <1>2, <1>3

\* An operation in progress is none of the values that say there is none.
LEMMA JobLemma ==
    ASSUME NEW j \in Jobs
    PROVE  /\ j # NoJob
           /\ j.kind \in Kinds /\ j.slave \in Slaves /\ j.frames \in Seq(Frames)
           /\ j.lastFCB \in {0, 1} /\ j.step \in Steps
<1>1. j.kind \in Kinds
  BY DEF Jobs
<1>2. "none" \notin Kinds /\ NoJob.kind = "none"
  BY SessionAssumption DEF NoJob
<1> QED
  BY <1>1, <1>2 DEF Jobs

\* The telegram asked for is a frame, of the slave asked.
LEMMA AskedLemma ==
    ASSUME SessionTypeOK, job # NoJob
    PROVE  /\ Asked \in Frames /\ Asked \in LongMsg /\ Asked \in Msg
           /\ Asked[1] = job.slave /\ Asked[2] = pos[job.slave]
           /\ pos[job.slave] \in 1..Telegrams[job.slave]
           /\ Asked # Ack
<1>1. job \in Jobs /\ job.slave \in Slaves
  BY JobLemma DEF SessionTypeOK
<1>2. pos[job.slave] \in Nat \ {0} /\ pos[job.slave] <= Telegrams[job.slave]
  BY <1>1 DEF SessionTypeOK
<1>3. Telegrams[job.slave] \in Nat
  BY <1>1, SessionAssumption
<1>4. pos[job.slave] \in 1..Telegrams[job.slave]
  BY <1>2, <1>3
<1> QED
  BY <1>1, <1>4, FrameLemma DEF Asked, LongMsg

\* Where a frame follows a walk's frames so far, the walk has the one more.
LEMMA SoFarLemma ==
    ASSUME NEW s, NEW n \in Nat
    PROVE  /\ SoFar(s, 0) = <<>>
           /\ Len(SoFar(s, n)) = n
           /\ Append(SoFar(s, n), <<s, n + 1>>) = SoFar(s, n + 1)
<1> DEFINE D == {<<s, k>> : k \in Nat}
<1>1. ASSUME NEW l \in Nat
      PROVE  /\ SoFar(s, l) \in Seq(D) /\ Len(SoFar(s, l)) = l
             /\ \A i \in 1..l : SoFar(s, l)[i] = <<s, i>>
  <2>1. SoFar(s, l) \in [1..l -> D]
    BY DEF SoFar
  <2>2. SoFar(s, l) \in Seq(D)
    BY <2>1, SeqDef
  <2>3. Len(SoFar(s, l)) = l
    BY <2>1, <2>2, LenProperties DEF SoFar
  <2> QED
    BY <2>2, <2>3 DEF SoFar
<1>2. <<s, n + 1>> \in D
  OBVIOUS
<1> HIDE DEF D
<1>3. SoFar(s, 0) = <<>>
  BY <1>1, EmptySeq
<1> DEFINE a == Append(SoFar(s, n), <<s, n + 1>>)
<1>4. /\ a \in Seq(D) /\ Len(a) = n + 1
      /\ \A i \in 1..n : a[i] = <<s, i>>
      /\ a[n + 1] = <<s, n + 1>>
  BY <1>1, <1>2, AppendProperties
<1> HIDE DEF a
<1>5. n + 1 \in Nat /\ \A i \in 1..n + 1 : i \in 1..n \/ i = n + 1
  OBVIOUS
<1>6. \A i \in 1..n + 1 : a[i] = SoFar(s, n + 1)[i]
  BY <1>1, <1>4, <1>5
<1>7. a = SoFar(s, n + 1)
  BY <1>1, <1>4, <1>5, <1>6, SeqEqual
<1> QED
  BY <1>1, <1>3, <1>7 DEF a

-----------------------------------------------------------------------------
(* E5h bytes                                                               *)

\* What a Read takes and what it leaves have the E5h bytes there were.
LEMMA E5Read ==
    ASSUME NEW s \in Seq(Byte), NEW c \in 1..Len(s)
    PROVE  /\ HasE5(SubSeq(s, 1, c)) \/ HasE5(Drop(s, c)) <=> HasE5(s)
           /\ OnlyLastE5(s) =>
                 /\ OnlyLastE5(SubSeq(s, 1, c)) /\ OnlyLastE5(Drop(s, c))
                 /\ Drop(s, c) # <<>> => ~HasE5(SubSeq(s, 1, c))
<1> DEFINE p == SubSeq(s, 1, c)
           d == Drop(s, c)
<1>1. Len(s) \in Nat /\ c \in 0..Len(s)
  BY LenProperties
<1>2. Len(p) = c /\ \A i \in 1..c : p[i] = s[i]
  BY <1>1, PrefixLemma
<1>3. /\ d \in Seq(Byte) /\ Len(d) = Len(s) - c
      /\ \A i \in 1..Len(s) - c : d[i] = s[i + c]
  BY <1>1, DropLemma
<1>4. d # <<>> => Len(d) # 0
  BY <1>3, EmptySeq
<1> HIDE DEF p, d
<1>5. ASSUME HasE5(s) PROVE HasE5(p) \/ HasE5(d)
  <2>1. PICK i \in 1..Len(s) : IsE5(s[i])
    BY <1>5 DEF HasE5
  <2>2. CASE i <= c
    <3>1. i \in 1..c
      BY <2>2
    <3> QED
      BY <1>2, <2>1, <3>1 DEF HasE5
  <2>3. CASE ~(i <= c)
    <3>1. i - c \in 1..Len(s) - c /\ (i - c) + c = i
      BY <1>1, <2>3
    <3> QED
      BY <1>3, <2>1, <3>1 DEF HasE5
  <2> QED
    BY <2>2, <2>3
<1>6. ASSUME HasE5(p) \/ HasE5(d) PROVE HasE5(s)
  <2>1. CASE HasE5(p)
    <3>1. PICK i \in 1..c : IsE5(p[i])
      BY <1>2, <2>1 DEF HasE5
    <3>2. i \in 1..Len(s)
      BY <1>1
    <3> QED
      BY <1>2, <3>1, <3>2 DEF HasE5
  <2>2. CASE HasE5(d)
    <3>1. PICK i \in 1..Len(s) - c : IsE5(d[i])
      BY <1>3, <2>2 DEF HasE5
    <3>2. i + c \in 1..Len(s)
      BY <1>1
    <3> QED
      BY <1>3, <3>1, <3>2 DEF HasE5
  <2> QED
    BY <1>6, <2>1, <2>2
<1>7. ASSUME OnlyLastE5(s) PROVE OnlyLastE5(p) /\ OnlyLastE5(d) /\ (d # <<>> => ~HasE5(p))
  <2>1. \A i \in 1..c : i \in 1..Len(s) /\ (i < c \/ c < Len(s) => i < Len(s))
    BY <1>1
  <2>2. OnlyLastE5(p)
    BY <1>2, <1>7, <2>1 DEF OnlyLastE5
  <2>3. \A i \in 1..Len(s) - c :
           i + c \in 1..Len(s) /\ (i < Len(s) - c => i + c < Len(s))
    BY <1>1
  <2>4. OnlyLastE5(d)
    BY <1>3, <1>7, <2>3 DEF OnlyLastE5
  <2>5. d # <<>> => c < Len(s)
    BY <1>1, <1>3, <1>4
  <2>6. d # <<>> => ~HasE5(p)
    BY <1>2, <1>7, <2>1, <2>5 DEF OnlyLastE5, HasE5
  <2> QED
    BY <2>2, <2>4, <2>6
<1> QED
  BY <1>5, <1>6, <1>7 DEF p, d

\* Damage makes no E5h.
LEMMA E5Damaged ==
    ASSUME NEW t \in Seq(Byte), NEW s \in Damaged(t) \cup {t}
    PROVE  /\ s \in Seq(Byte)
           /\ HasE5(s) => HasE5(t)
           /\ OnlyLastE5(t) => OnlyLastE5(s)
<1>1. ~IsE5(Junk)
  BY JunkIsNoE5
<1>2. Len(t) \in Nat
  BY LenProperties
<1>3. /\ s \in Seq(Byte) /\ Len(s) \in 0..Len(t)
      /\ \A i \in 1..Len(s) : s[i] \in {t[i], Junk}
  <2>1. CASE s = t
    BY <1>2, <2>1
  <2>2. CASE s \in Damaged(t)
    BY <2>2, DamagedType
  <2> QED
    BY <2>1, <2>2
<1>4. \A i \in 1..Len(s) : i \in 1..Len(t) /\ (i < Len(s) => i < Len(t))
  BY <1>2, <1>3
<1> QED
  BY <1>1, <1>3, <1>4 DEF HasE5, OnlyLastE5

\* What is behind other bytes on the line.
LEMMA E5Concat ==
    ASSUME NEW a \in Seq(Byte), NEW b \in Seq(Byte)
    PROVE  /\ HasE5(a \o b) <=> HasE5(a) \/ HasE5(b)
           /\ ~HasE5(a) /\ OnlyLastE5(b) => OnlyLastE5(a \o b)
<1> DEFINE u == a \o b
<1>1. Len(a) \in Nat /\ Len(b) \in Nat
  BY LenProperties
<1>2. /\ Len(u) = Len(a) + Len(b)
      /\ \A i \in 1..Len(a) + Len(b) : u[i] = IF i <= Len(a) THEN a[i] ELSE b[i - Len(a)]
  BY ConcatProperties
<1> HIDE DEF u
<1>3. ASSUME NEW i \in 1..Len(u)
      PROVE  \/ i \in 1..Len(a) /\ u[i] = a[i]
             \/ /\ i - Len(a) \in 1..Len(b) /\ u[i] = b[i - Len(a)]
                /\ i < Len(u) => i - Len(a) < Len(b)
  BY <1>1, <1>2
<1>4. ASSUME NEW i \in 1..Len(a) PROVE i \in 1..Len(u) /\ u[i] = a[i]
  BY <1>1, <1>2
<1>5. ASSUME NEW i \in 1..Len(b)
      PROVE  i + Len(a) \in 1..Len(u) /\ u[i + Len(a)] = b[i]
  <2>1. /\ i + Len(a) \in 1..Len(u) /\ i + Len(a) \in 1..Len(a) + Len(b)
        /\ ~(i + Len(a) <= Len(a)) /\ (i + Len(a)) - Len(a) = i
    BY <1>1, <1>2
  <2> QED
    BY <1>2, <2>1
<1>6. HasE5(u) <=> HasE5(a) \/ HasE5(b)
  BY <1>3, <1>4, <1>5 DEF HasE5
<1>7. ~HasE5(a) /\ OnlyLastE5(b) => OnlyLastE5(u)
  BY <1>3 DEF HasE5, OnlyLastE5
<1> QED
  BY <1>6, <1>7 DEF u

\* The E5h bytes of what waits in outbox.
QueueE5(q) == \E i \in 1..Len(q) : HasE5(q[i])

\* The first of what waits goes, and the others stay.
LEMMA E5Tail ==
    ASSUME NEW q \in Seq(Seq(Byte)), q # <<>>
    PROVE  /\ Head(q) \in Seq(Byte) /\ Tail(q) \in Seq(Seq(Byte)) /\ Head(q) = q[1]
           /\ QueueE5(q) <=> HasE5(Head(q)) \/ QueueE5(Tail(q))
           /\ 1 \in 1..Len(q) /\ (Tail(q) # <<>> => 1 < Len(q))
           /\ Len(Tail(q)) = Len(q) - 1
           /\ \A i \in 1..Len(Tail(q)) :
                 /\ Tail(q)[i] = q[i + 1] /\ i + 1 \in 1..Len(q)
                 /\ i < Len(Tail(q)) => i + 1 < Len(q)
<1>1. /\ Len(q) \in Nat /\ Head(q) \in Seq(Byte) /\ Tail(q) \in Seq(Seq(Byte))
      /\ Head(q) = q[1] /\ Len(Tail(q)) = Len(q) - 1
      /\ \A i \in 1..Len(Tail(q)) : Tail(q)[i] = q[i + 1]
  BY HeadTailProperties, LenProperties
<1>2. Len(q) # 0
  BY <1>1, EmptySeq
<1>3. Tail(q) # <<>> => Len(Tail(q)) # 0
  BY <1>1, EmptySeq
<1>4. 1 \in 1..Len(q) /\ (Tail(q) # <<>> => 1 < Len(q))
  BY <1>1, <1>2, <1>3
<1>5. ASSUME NEW i \in 1..Len(Tail(q))
      PROVE  i + 1 \in 1..Len(q) /\ (i < Len(Tail(q)) => i + 1 < Len(q))
  BY <1>1, <1>2
<1>6. ASSUME NEW i \in 1..Len(q), i # 1
      PROVE  i - 1 \in 1..Len(Tail(q)) /\ Tail(q)[i - 1] = q[i]
  <2>1. i - 1 \in 1..Len(Tail(q)) /\ (i - 1) + 1 = i
    BY <1>1, <1>6
  <2> QED
    BY <1>1, <2>1
<1>7. QueueE5(q) <=> HasE5(Head(q)) \/ QueueE5(Tail(q))
  BY <1>1, <1>4, <1>5, <1>6 DEF QueueE5
<1> QED
  BY <1>1, <1>4, <1>5, <1>7

\* One more waits.
LEMMA E5Append ==
    ASSUME NEW q \in Seq(Seq(Byte)), NEW b \in Seq(Byte)
    PROVE  /\ Append(q, b) \in Seq(Seq(Byte)) /\ Append(q, b) # <<>>
           /\ QueueE5(Append(q, b)) <=> QueueE5(q) \/ HasE5(b)
           /\ Len(Append(q, b)) = Len(q) + 1 /\ Len(q) \in Nat
           /\ \A i \in 1..Len(q) + 1 :
                 Append(q, b)[i] = (IF i < Len(q) + 1 THEN q[i] ELSE b)
<1> DEFINE a == Append(q, b)
<1>1. /\ Len(q) \in Nat /\ a \in Seq(Seq(Byte)) /\ a # <<>> /\ Len(a) = Len(q) + 1
      /\ \A i \in 1..Len(q) : a[i] = q[i]
      /\ a[Len(q) + 1] = b
  BY AppendProperties, LenProperties
<1> HIDE DEF a
<1>2. \A i \in 1..Len(q) + 1 : i \in 1..Len(q) \/ (i = Len(q) + 1 /\ ~(i < Len(q) + 1))
  BY <1>1
<1>3. \A i \in 1..Len(q) : i \in 1..Len(q) + 1 /\ i < Len(q) + 1
  BY <1>1
<1>4. Len(q) + 1 \in 1..Len(q) + 1
  BY <1>1
<1>5. QueueE5(a) <=> QueueE5(q) \/ HasE5(b)
  BY <1>1, <1>2, <1>3, <1>4 DEF QueueE5
<1> QED
  BY <1>1, <1>2, <1>3, <1>5 DEF a

-----------------------------------------------------------------------------
(* The types                                                               *)

\* The types hold at first.
LEMMA InitSessionType == Init => SessionTypeOK /\ HasRoom
<1> SUFFICES ASSUME Init PROVE SessionTypeOK /\ HasRoom
  OBVIOUS
<1>1. NoResult \in Results /\ <<>> \in Seq(Byte) /\ <<>> \in Seq(Seq(Byte))
  BY EmptySeq DEF NoResult, Results
<1>2. ClientTypeOK
  BY <1>1 DEF Init, ClientInit, ClientTypeOK
<1>3. /\ fcb \in [Slaves -> SUBSET {0, 1}]
      /\ pos \in [Slaves -> Nat \ {0}]
      /\ \A s \in Slaves : pos[s] <= Telegrams[s]
  BY SessionAssumption DEF Init
<1> QED
  BY <1>1, <1>2, <1>3 DEF Init, ClientInit, BusInit, SessionTypeOK, HasRoom

\* A Client's step is a step of the call in progress.
LEMMA StepOfCall ==
    ASSUME SessionTypeOK, ClientStep
    PROVE  /\ op # "none" /\ ClientTypeOK'
           /\ op' \in {op, "none"}
           /\ op' = "none" => at' = "look" /\ ~late'
           /\ ~late => ~late'
           /\ UNCHANGED <<conn, ctx>>
<1>1. op # "none"
  BY DEF ClientStep, Look, LookForLongFrame, LookForSingleChar, LookForFirstByte,
     LookForAnswer, Fill, FillCtxEnded, FillTimedOut, FillBytes, FillConnFailed,
     SessionTypeOK
<1>2. ClientTypeOK'
  BY <1>1, LookType, FillType DEF ClientStep, SessionTypeOK
<1>3. /\ op' \in {op, "none"} /\ (op' = "none" => at' = "look" /\ ~late')
      /\ UNCHANGED <<conn, ctx>> /\ (~late => ~late')
  BY <1>1 DEF ClientStep, Look, LookForLongFrame, LookForSingleChar, LookForFirstByte,
     LookForAnswer, Fill, FillCtxEnded, FillTimedOut, FillBytes, FillConnFailed,
     GiveUp, GoFill, Return, SessionTypeOK
<1> QED
  BY <1>1, <1>2, <1>3

\* What ReadLongFrame returns is a frame of a slave.
LEMMA ReturnIsFrame ==
    ASSUME SessionTypeOK, op = "ReadLongFrame", ClientStep, op' = "none", ret'.err = {}
    PROVE  ret'.msg \in Frames
  BY LongOutcomes, FillOutcomes, FrameLemma DEF ClientStep, SessionTypeOK

\* What a slave makes of a request.
LEMMA SlaveType ==
    ASSUME SessionTypeOK, job # NoJob,
           \/ AnswerReset(job.slave)
           \/ \E bit \in {0, 1} : AnswerRequest(job.slave, bit)
           \/ UNCHANGED <<outbox, slaveVars>>
    PROVE  /\ outbox' \in Seq(Seq(Byte))
           /\ fcb' \in [Slaves -> SUBSET {0, 1}]
           /\ pos' \in [Slaves -> Nat \ {0}]
           /\ \A s \in Slaves : pos'[s] <= Telegrams[s]
<1>1. /\ outbox \in Seq(Seq(Byte))
      /\ fcb \in [Slaves -> SUBSET {0, 1}]
      /\ pos \in [Slaves -> Nat \ {0}]
      /\ \A s \in Slaves : pos[s] <= Telegrams[s]
  BY DEF SessionTypeOK
<1>2. job.slave \in Slaves
  BY JobLemma DEF SessionTypeOK
<1>3. Telegrams \in [Slaves -> Nat \ {0}]
  BY SessionAssumption
<1>4. CASE AnswerReset(job.slave)
  <2>1. outbox' \in Seq(Seq(Byte))
    BY <1>1, <1>4, BytesLemma, E5Append, ClientAssumption DEF AnswerReset
  <2> QED
    BY <1>1, <1>2, <1>3, <1>4, <2>1 DEF AnswerReset
<1>5. ASSUME NEW bit \in {0, 1}, AnswerRequest(job.slave, bit)
      PROVE  /\ outbox' \in Seq(Seq(Byte))
             /\ fcb' \in [Slaves -> SUBSET {0, 1}]
             /\ pos' \in [Slaves -> Nat \ {0}]
             /\ \A s \in Slaves : pos'[s] <= Telegrams[s]
  <2> DEFINE s == job.slave
             next == IF pos[s] < Telegrams[s] THEN pos[s] + 1 ELSE 1
             k == IF fcb[s] \subseteq {bit} THEN pos[s] ELSE next
  <2>1. k \in 1..Telegrams[s]
    BY <1>1, <1>2, <1>3
  <2>2. /\ fcb' = [fcb EXCEPT ![s] = {bit}] /\ pos' = [pos EXCEPT ![s] = k]
        /\ outbox' = Append(outbox, Bytes(<<s, k>>))
    BY <1>5 DEF AnswerRequest
  <2>3. <<s, k>> \in Msg
    BY <1>2, <2>1, FrameLemma DEF LongMsg
  <2> HIDE DEF k
  <2>4. outbox' \in Seq(Seq(Byte))
    BY <1>1, <2>2, <2>3, BytesLemma, E5Append
  <2>5. fcb' \in [Slaves -> SUBSET {0, 1}]
    BY <1>1, <1>2, <2>2
  <2>6. pos' \in [Slaves -> Nat \ {0}] /\ \A x \in Slaves : pos'[x] <= Telegrams[x]
    BY <1>1, <1>2, <1>3, <2>1, <2>2
  <2> QED
    BY <2>4, <2>5, <2>6
<1>6. CASE UNCHANGED <<outbox, slaveVars>>
  BY <1>1, <1>6 DEF slaveVars
<1> QED
  BY <1>4, <1>5, <1>6

\* Every step keeps the types.
LEMMA NextSessionType == SessionTypeOK /\ [Next]_vars => SessionTypeOK'
<1> SUFFICES ASSUME SessionTypeOK, [Next]_vars PROVE SessionTypeOK'
  OBVIOUS
<1>0. /\ <<>> \in Seq(Byte) /\ <<>> \in Seq(Frames)
      /\ job # NoJob => job \in Jobs
      /\ job = NoJob => op = "none"
  BY EmptySeq DEF SessionTypeOK
<1>1. ASSUME NEW kind \in Kinds, NEW s \in Slaves, StartJob(kind, s)
      PROVE  SessionTypeOK'
  <2>1. job' \in Jobs
    BY <1>0, <1>1 DEF StartJob, Jobs, Steps
  <2>2. ClientTypeOK'
    BY <1>1 DEF StartJob, SessionTypeOK, ClientTypeOK
  <2>3. kind \in {"ReadAllFrames", "ReadSingleFrame"}
    BY SessionAssumption
  <2>4. sound' \in BOOLEAN /\ calm' \in BOOLEAN
    BY <1>1 DEF StartJob, SessionTypeOK
  <2>5. /\ job'.kind = kind /\ job'.frames = <<>> /\ job'.lastFCB = 1
        /\ job'.step = (IF kind = "ReadAllFrames" THEN "reset" ELSE "request")
        /\ op = "none" /\ UNCHANGED <<op, at, late, busVars, slaveVars>>
    BY <1>0, <1>1 DEF StartJob
  <2> QED
    BY <2>1, <2>2, <2>3, <2>4, <2>5 DEF SessionTypeOK, busVars, slaveVars
<1>2. CASE LinkReset
  <2>1. /\ job # NoJob /\ job \in Jobs /\ job.step = "reset"
        /\ job' = [job EXCEPT !.step = "ack"] /\ Call("ReadSingleCharFrame")
        /\ UNCHANGED <<ctx, calm>> /\ sound' \in BOOLEAN
    BY <1>0, <1>2 DEF LinkReset, At, Lost, SessionTypeOK
  <2>2. job' \in Jobs /\ job'.step = "ack" /\ job'.kind = job.kind
        /\ job'.frames = job.frames /\ job'.lastFCB = job.lastFCB
    BY <2>1 DEF Jobs, Steps
  <2>3. ClientTypeOK'
    BY <2>1, CallType DEF SessionTypeOK, Ops
  <2>4. /\ outbox' \in Seq(Seq(Byte)) /\ fcb' \in [Slaves -> SUBSET {0, 1}]
        /\ pos' \in [Slaves -> Nat \ {0}] /\ \A s \in Slaves : pos'[s] <= Telegrams[s]
    BY <1>2, <2>1, SlaveType DEF LinkReset, Lost
  <2>5. op' = "ReadSingleCharFrame" /\ job' # NoJob
    BY <2>1, <2>2, JobLemma DEF Call
  <2> QED
    BY <2>1, <2>2, <2>3, <2>4, <2>5 DEF SessionTypeOK
<1>3. CASE LinkResetDone
  <2>1. /\ job # NoJob /\ job \in Jobs /\ job.step = "ack" /\ op = "none"
        /\ job' = [job EXCEPT !.step = "request"]
        /\ UNCHANGED <<clientVars, busVars, slaveVars, sound, calm>>
    BY <1>0, <1>3 DEF LinkResetDone, At
  <2>2. job' \in Jobs /\ job'.step = "request" /\ job'.kind = job.kind
        /\ job'.frames = job.frames
    BY <2>1 DEF Jobs, Steps
  <2> QED
    BY <2>1, <2>2 DEF SessionTypeOK, ClientTypeOK, clientVars, busVars, slaveVars
<1>4. CASE Request
  <2>1. /\ job # NoJob /\ job \in Jobs /\ job.step = "request"
        /\ job' = [job EXCEPT !.step = "response", !.lastFCB = NextFCB]
        /\ Call("ReadLongFrame")
        /\ UNCHANGED <<ctx, calm>> /\ sound' \in BOOLEAN /\ NextFCB \in {0, 1}
    BY <1>0, <1>4 DEF Request, At, Lost, SessionTypeOK, NextFCB
  <2>2. job' \in Jobs /\ job'.step = "response" /\ job'.kind = job.kind
        /\ job'.frames = job.frames
    BY <2>1 DEF Jobs, Steps
  <2>3. ClientTypeOK'
    BY <2>1, CallType DEF SessionTypeOK, Ops
  <2>4. /\ outbox' \in Seq(Seq(Byte)) /\ fcb' \in [Slaves -> SUBSET {0, 1}]
        /\ pos' \in [Slaves -> Nat \ {0}] /\ \A s \in Slaves : pos'[s] <= Telegrams[s]
    BY <1>4, <2>1, SlaveType DEF Request, Lost
  <2>5. op' = "ReadLongFrame" /\ job' # NoJob
    BY <2>1, <2>2, JobLemma DEF Call
  <2> QED
    BY <2>1, <2>2, <2>3, <2>4, <2>5 DEF SessionTypeOK
<1>5. ASSUME op = "none", NEW e, NEW f, Finish(e, f)
      PROVE  SessionTypeOK'
  BY <1>5 DEF Finish, SessionTypeOK, ClientTypeOK, clientVars, busVars, slaveVars
<1>6. CASE TooManyFrames \/ WriteRefused \/ ReadFailed
  BY <1>5, <1>6 DEF TooManyFrames, WriteRefused, ReadFailed, At
<1>7. CASE Response
  <2>1. /\ job # NoJob /\ job \in Jobs /\ job.step = "response" /\ op = "none"
        /\ ret.err = {}
    BY <1>0, <1>7 DEF Response, At
  <2>2. CASE \E e, f : Finish(e, f)
    BY <1>5, <2>1, <2>2
  <2>3. CASE /\ job.kind = "ReadAllFrames" /\ HasMoreRecords(ret.msg)
             /\ job' = [job EXCEPT !.step = "request", !.frames = Append(job.frames, ret.msg)]
             /\ UNCHANGED <<clientVars, busVars, slaveVars, sound, calm>>
    <3>1. ret.msg \in Frames
      BY <2>1 DEF SessionTypeOK
    <3>2. Append(job.frames, ret.msg) \in Seq(Frames)
      BY <2>1, <3>1, JobLemma, AppendProperties
    <3>3. /\ job' \in Jobs /\ job'.step = "request" /\ job'.kind = "ReadAllFrames"
      BY <2>1, <2>3, <3>2 DEF Jobs, Steps
    <3> QED
      BY <2>1, <2>3, <3>3 DEF SessionTypeOK, ClientTypeOK, clientVars, busVars, slaveVars
  <2> QED
    BY <1>7, <2>2, <2>3 DEF Response
<1>8. CASE Read
  <2>1. ClientStep /\ UNCHANGED <<outbox, job, fcb, pos, sound, calm>>
    BY <1>8 DEF Read, BusStep, busVars, slaveVars
  <2>2. /\ op # "none" /\ ClientTypeOK' /\ op' \in {op, "none"}
        /\ op' = "none" => at' = "look" /\ ~late'
    BY <2>1, StepOfCall
  <2>3. op = "ReadLongFrame" /\ op' = "none" /\ ret'.err = {} => ret'.msg \in Frames
    BY <2>1, ReturnIsFrame
  <2> QED
    BY <2>1, <2>2, <2>3 DEF SessionTypeOK
<1>9. CASE Transmit
  <2>1. outbox # <<>> /\ outbox' = Tail(outbox)
    BY <1>9 DEF Transmit, TransmitWhole, TransmitDamaged
  <2>2. Head(outbox) \in Seq(Byte) /\ outbox' \in Seq(Seq(Byte))
    BY <2>1, E5Tail DEF SessionTypeOK
  <2>3. PICK s \in Damaged(Head(outbox)) \cup {Head(outbox)} : Receive(s)
    BY <1>9 DEF Transmit, TransmitWhole, TransmitDamaged
  <2>4. s \in Seq(Byte)
    BY <2>2, E5Damaged
  <2>5. line' \in Seq(Byte)
    BY <2>3, <2>4, ConcatProperties DEF Receive, SessionTypeOK, ClientTypeOK
  <2>6. ClientTypeOK'
    BY <2>3, <2>5 DEF Receive, SessionTypeOK, ClientTypeOK
  <2>7. UNCHANGED <<op, at, late, ret, job, fcb, pos, calm>> /\ sound' \in BOOLEAN
    BY <1>9, <2>3 DEF Transmit, Receive, slaveVars, SessionTypeOK
  <2> QED
    BY <2>2, <2>6, <2>7 DEF SessionTypeOK
<1>10. CASE Deadline
  <2>1. /\ op # "none" /\ late' = TRUE
        /\ UNCHANGED <<line, buf, conn, ctx, op, at, ret, outbox, job, fcb, pos, calm>>
    BY <1>10 DEF Deadline, BusDeadline, DeadlinePasses, busVars, slaveVars
  <2>2. sound' \in BOOLEAN
    BY <1>10 DEF Deadline, Quiet, SessionTypeOK
  <2> QED
    BY <2>1, <2>2 DEF SessionTypeOK, ClientTypeOK
<1>11. CASE Cancel
  BY <1>11 DEF Cancel, CtxEnds, CtxErrors, slaveVars, SessionTypeOK, ClientTypeOK
<1>12. CASE Break
  BY <1>0, <1>11, <1>12 DEF Break, ConnFails, slaveVars, SessionTypeOK, ClientTypeOK
<1>13. CASE UNCHANGED vars
  BY <1>13 DEF vars, clientVars, busVars, slaveVars, SessionTypeOK, ClientTypeOK
<1> QED
  BY <1>1, <1>2, <1>3, <1>4, <1>6, <1>7, <1>8, <1>9, <1>10, <1>11, <1>12, <1>13
     DEF Next, Master

\* A walk asks for no more frames than it may keep.
LEMMA NextRoom == SessionTypeOK /\ HasRoom /\ [Next]_vars => HasRoom'
<1> SUFFICES ASSUME SessionTypeOK, HasRoom, [Next]_vars PROVE HasRoom'
  OBVIOUS
<1>0. /\ MaxFramesPerRead \in Nat \ {0} /\ Len(<<>>) = 0
      /\ job # NoJob => /\ job \in Jobs /\ job.frames \in Seq(Frames)
                        /\ Len(job.frames) \in Nat
  BY SessionAssumption, EmptySeq, JobLemma, LenProperties DEF SessionTypeOK
<1>1. CASE UNCHANGED job \/ job' = NoJob
  BY <1>1 DEF HasRoom
<1>2. ASSUME NEW kind \in Kinds, NEW s \in Slaves, StartJob(kind, s)
      PROVE  HasRoom'
  <2>1. job'.frames = <<>> /\ job'.step \in {"reset", "request"}
    BY <1>2 DEF StartJob
  <2>2. Len(job'.frames) = 0 /\ job'.step # "response"
    BY <1>0, <2>1
  <2> QED
    BY <1>0, <2>2 DEF HasRoom
<1>3. CASE LinkReset \/ LinkResetDone
  <2>1. job # NoJob /\ job'.frames = job.frames /\ job'.step # "response"
    BY <1>0, <1>3 DEF LinkReset, LinkResetDone, At, Jobs
  <2> QED
    BY <2>1 DEF HasRoom
<1>4. CASE Request
  <2>1. job # NoJob /\ job'.frames = job.frames /\ ~WalkIsFull
    BY <1>0, <1>4 DEF Request, At, Jobs
  <2>2. Len(job.frames) < MaxFramesPerRead
    BY <1>0, <2>1 DEF WalkIsFull, SessionTypeOK
  <2> QED
    BY <1>0, <2>1, <2>2 DEF HasRoom
<1>5. CASE Response
  <2>1. job # NoJob /\ job.step = "response" /\ op = "none" /\ ret.err = {}
    BY <1>5 DEF Response, At
  <2>2. CASE job' = NoJob
    BY <2>2, <1>1
  <2>3. CASE job' = [job EXCEPT !.step = "request", !.frames = Append(job.frames, ret.msg)]
    <3>1. ret.msg \in Frames
      BY <2>1 DEF SessionTypeOK
    <3>2. Len(Append(job.frames, ret.msg)) = Len(job.frames) + 1
      BY <1>0, <2>1, <3>1, AppendProperties
    <3>3. job'.frames = Append(job.frames, ret.msg) /\ job'.step = "request"
      BY <1>0, <2>1, <2>3 DEF Jobs
    <3>4. Len(job.frames) < MaxFramesPerRead
      BY <2>1 DEF HasRoom
    <3>5. Len(job'.frames) <= MaxFramesPerRead
      BY <1>0, <2>1, <3>2, <3>3, <3>4
    <3> QED
      BY <3>3, <3>5 DEF HasRoom
  <2> QED
    BY <1>5, <2>2, <2>3 DEF Response, Finish
<1>6. CASE TooManyFrames \/ WriteRefused \/ ReadFailed
  BY <1>1, <1>6 DEF TooManyFrames, WriteRefused, ReadFailed, Finish
<1>7. CASE Read \/ Transmit \/ Deadline \/ Cancel \/ Break \/ UNCHANGED vars
  BY <1>1, <1>7 DEF Read, Transmit, Deadline, Cancel, Break, vars
<1> QED
  BY <1>2, <1>3, <1>4, <1>5, <1>6, <1>7 DEF Next, Master

-----------------------------------------------------------------------------
(* The operations                                                          *)

\* What is returned stays true of the operation that returned it.
LEMMA ResultKept ==
    ASSUME ResultInv, result' = result, calm' => calm, sound' => sound
    PROVE  ResultInv'
  BY DEF ResultInv, CalmFramesFromTheSlave, FramesFromTheSlave, WalkIsComplete,
     SoundWalkSucceeds, Returned, Readable

\* Between two calls what is under way does not depend on the operation.
LEMMA BetweenCalls ==
    ASSUME op = "none", CalmInv, UNCHANGED <<clientVars, busVars>>, calm' => calm
    PROVE  CalmInv'
  BY DEF CalmInv, Accounted, Blocked, Fresh, Dead, Quiet, Starved, clientVars, busVars

\* An operation begins.
LEMMA StartKeeps ==
    ASSUME SessionTypeOK, CalmInv, NEW kind \in Kinds, NEW s \in Slaves, StartJob(kind, s)
    PROVE  CalmInv' /\ SoundInv' /\ WalkInv' /\ ResultInv'
<1>1. /\ job = NoJob /\ op = "none" /\ ~late /\ result' = NoJob
      /\ UNCHANGED <<line, buf, conn, op, at, late, ret, outbox, slaveVars>> /\ ctx' = "live"
      /\ sound' => Quiet /\ conn = "up" /\ ~LeftE5
      /\ calm' => calm /\ (kind = "ReadAllFrames" => ~LeftE5)
  BY DEF StartJob, SessionTypeOK, busVars
<1>2. /\ job'.kind = kind /\ job'.slave = s /\ job'.frames = <<>>
      /\ job'.step = (IF kind = "ReadAllFrames" THEN "reset" ELSE "request")
      /\ job' # NoJob
  <2>1. job' = [kind |-> kind, slave |-> s, frames |-> <<>>, lastFCB |-> 1,
                step |-> IF kind = "ReadAllFrames" THEN "reset" ELSE "request"]
    BY DEF StartJob
  <2>2. job'.kind # "none"
    BY <2>1, SessionAssumption
  <2> QED
    BY <2>1, <2>2 DEF NoJob
<1>3. CalmInv'
  BY <1>1 DEF CalmInv, Accounted, Blocked, Fresh, Dead, Quiet, Starved
<1>4. SoundInv'
  BY <1>1, <1>2 DEF SoundInv, SoundPlaces, Walking, Quiet, LeftE5
<1>5. WalkInv'
  <2>1. Len(<<>>) = 0 /\ SoFar(s, 0) = <<>>
    BY EmptySeq, SoFarLemma
  <2>2. Tidy' => (job'.step = "reset" => ~LeftE5')
    BY <1>1, <1>2 DEF Tidy, LeftE5
  <2>3. \A i \in 1..Len(job'.frames) : job'.frames[i][1] = job'.slave
    BY <1>2, <2>1
  <2>4. job'.frames = SoFar(job'.slave, Len(job'.frames))
    BY <1>2, <2>1
  <2>5. job'.step \in {"reset", "request"} /\ ~(Walking' /\ job'.step = "request")
    BY <1>2 DEF Walking
  <2> QED
    BY <2>2, <2>3, <2>4, <2>5 DEF WalkInv
<1>6. ResultInv'
  BY <1>1 DEF ResultInv, CalmFramesFromTheSlave, FramesFromTheSlave, WalkIsComplete,
     SoundWalkSucceeds, Returned
<1> QED
  BY <1>3, <1>4, <1>5, <1>6

\* An operation ends: an error is returned with no frames, and a sound walk has none.
LEMMA FinishKeeps ==
    ASSUME SessionTypeOK, CalmInv, SoundInv, job # NoJob, op = "none", NEW e, NEW f, Finish(e, f),
           Legal /\ sound /\ Walking /\ Readable(job.slave) => e = {},
           Prompt /\ calm /\ e = {} =>
               /\ \A i \in 1..Len(f) : f[i][1] = job.slave
               /\ Walking => /\ job.slave \notin Endless
                             /\ f = [k \in 1..Telegrams[job.slave] |-> <<job.slave, k>>]
    PROVE  CalmInv' /\ SoundInv' /\ WalkInv' /\ ResultInv'
<1>1. /\ job' = NoJob /\ UNCHANGED <<clientVars, busVars, slaveVars, sound, calm>>
      /\ result' = [kind |-> job.kind, slave |-> job.slave, err |-> e,
                    frames |-> IF e = {} THEN f ELSE <<>>]
  BY DEF Finish
<1>2. job.kind # "none"
  BY JobLemma, SessionAssumption DEF SessionTypeOK
<1>3. /\ result' # NoJob /\ result'.kind = job.kind /\ result'.slave = job.slave
      /\ result'.err = e /\ (e = {} => result'.frames = f)
  BY <1>1, <1>2 DEF NoJob
<1>4. CalmInv'
  BY <1>1, BetweenCalls
<1>5. SoundInv' /\ WalkInv'
  <2>1. SoundInv'
    BY <1>1 DEF SoundInv, Walking, clientVars, busVars, Quiet
  <2> QED
    BY <1>1, <2>1 DEF WalkInv
<1>6. ResultInv'
  <2>1. (Prompt => CalmFramesFromTheSlave /\ WalkIsComplete)'
    BY <1>1, <1>3 DEF CalmFramesFromTheSlave, FramesFromTheSlave, WalkIsComplete, Returned,
       Walking
  <2>2. (Prompt /\ calm /\ Returned("ReadAllFrames") => result.slave \notin Endless)'
    BY <1>1, <1>3 DEF Returned, Walking
  <2>3. (Legal => SoundWalkSucceeds)'
    BY <1>1, <1>3 DEF SoundWalkSucceeds, Walking, Readable
  <2> QED
    BY <2>1, <2>2, <2>3 DEF ResultInv
<1> QED
  BY <1>4, <1>5, <1>6

\* A walk that stays tidy has read its slave's first telegrams.
LEMMA WalkLemma ==
    ASSUME SessionInv, job # NoJob
    PROVE  /\ job \in Jobs /\ job.slave \in Slaves /\ job.frames \in Seq(Frames)
           /\ job.kind \in {"ReadAllFrames", "ReadSingleFrame"} /\ job.lastFCB \in {0, 1}
           /\ Len(job.frames) \in Nat
           /\ job.frames = <<>> <=> Len(job.frames) = 0
           /\ Telegrams[job.slave] \in Nat \ {0} /\ MaxFramesPerRead \in Nat \ {0}
           /\ pos[job.slave] \in 1..Telegrams[job.slave]
           /\ fcb[job.slave] \in SUBSET {0, 1}
<1>1. job \in Jobs
  BY DEF SessionInv, SessionTypeOK
<1>2. /\ job.slave \in Slaves /\ job.frames \in Seq(Frames) /\ job.lastFCB \in {0, 1}
      /\ job.kind \in {"ReadAllFrames", "ReadSingleFrame"}
      /\ Telegrams[job.slave] \in Nat \ {0} /\ MaxFramesPerRead \in Nat \ {0}
  BY <1>1, JobLemma, SessionAssumption
<1>3. Len(job.frames) \in Nat /\ (job.frames = <<>> <=> Len(job.frames) = 0)
  BY <1>2, LenProperties, EmptySeq
<1>4. pos[job.slave] \in 1..Telegrams[job.slave] /\ fcb[job.slave] \in SUBSET {0, 1}
  BY <1>2, AskedLemma DEF SessionInv, SessionTypeOK
<1> QED
  BY <1>1, <1>2, <1>3, <1>4

\* A walk that has read fewer frames than its slave has, and no more than it may
\* keep, is not given up.
LEMMA TooManyKeeps ==
    ASSUME SessionInv, TooManyFrames
    PROVE  CalmInv' /\ SoundInv' /\ WalkInv' /\ ResultInv'
<1>1. /\ job # NoJob /\ job.step = "request" /\ op = "none" /\ WalkIsFull
      /\ Finish({"ErrTooManyFrames"}, <<>>)
  BY DEF TooManyFrames, At
<1>2. ~(Legal /\ sound /\ Walking /\ Readable(job.slave))
  <2> SUFFICES ASSUME Legal, sound, Walking, Readable(job.slave) PROVE FALSE
    OBVIOUS
  <2>1. /\ Len(job.frames) \in Nat /\ Telegrams[job.slave] \in Nat
        /\ MaxFramesPerRead \in Nat \ {0}
        /\ Len(job.frames) >= MaxFramesPerRead
        /\ job.frames = <<>> <=> Len(job.frames) = 0
    BY <1>1, WalkLemma DEF WalkIsFull
  <2>2. Telegrams[job.slave] <= MaxFramesPerRead /\ job.slave \notin Endless
    BY DEF Readable
  <2>3. job.frames # <<>> => Len(job.frames) < Telegrams[job.slave]
    BY <1>1, <2>2 DEF SessionInv, WalkInv, Tidy, Walking
  <2> QED
    BY <2>1, <2>2, <2>3
<1> QED
  BY <1>1, <1>2, FinishKeeps DEF SessionInv

\* On a sound bus no write is refused.
LEMMA RefusedKeeps ==
    ASSUME SessionInv, WriteRefused
    PROVE  CalmInv' /\ SoundInv' /\ WalkInv' /\ ResultInv'
<1>1. job # NoJob /\ op = "none" /\ MayRefuse /\ Finish(WriteError, <<>>)
  BY DEF WriteRefused, At
<1>2. WriteError # {}
  BY DEF WriteError
<1>3. ~(Legal /\ sound)
  BY <1>1 DEF SessionInv, SoundInv, MayRefuse, CtxErr, CtxErrors
<1> QED
  BY <1>1, <1>2, <1>3, FinishKeeps DEF SessionInv

\* On a sound bus no wait of a walk fails.
LEMMA FailedKeeps ==
    ASSUME SessionInv, ReadFailed
    PROVE  CalmInv' /\ SoundInv' /\ WalkInv' /\ ResultInv'
<1>1. /\ job # NoJob /\ op = "none" /\ ret.err # {} /\ Finish(ret.err, <<>>)
      /\ job.step \in {"ack", "response"}
  BY DEF ReadFailed, At
<1>2. ~(Legal /\ sound /\ Walking)
  BY <1>1 DEF SessionInv, SoundInv, SoundPlaces
<1> QED
  BY <1>1, <1>2, FinishKeeps DEF SessionInv

\* The frame that ends a walk is its slave's last.
LEMMA ResponseKeeps ==
    ASSUME SessionInv, Response
    PROVE  CalmInv' /\ SoundInv' /\ WalkInv' /\ ResultInv'
<1> DEFINE frames == Append(job.frames, ret.msg)
           n == Len(job.frames)
<1>1. job # NoJob /\ job.step = "response" /\ op = "none" /\ ret.err = {}
  BY DEF Response, At
<1>2. ret.msg \in Frames
  BY <1>1 DEF SessionInv, SessionTypeOK
<1>3. /\ job \in Jobs /\ job.slave \in Slaves /\ job.frames \in Seq(Frames) /\ n \in Nat
      /\ job.kind \in {"ReadAllFrames", "ReadSingleFrame"}
      /\ Telegrams[job.slave] \in Nat \ {0}
      /\ pos[job.slave] \in 1..Telegrams[job.slave]
  BY <1>1, WalkLemma
<1>4. /\ frames \in Seq(Frames) /\ Len(frames) = n + 1 /\ frames # <<>>
      /\ \A i \in 1..n : frames[i] = job.frames[i]
      /\ frames[n + 1] = ret.msg
  BY <1>2, <1>3, AppendProperties
<1>5. ASSUME Tidy
      PROVE  /\ Heard /\ ret.msg = Asked
             /\ \A i \in 1..n : job.frames[i][1] = job.slave
             /\ Walking /\ job.slave \notin Endless => job.frames = SoFar(job.slave, n)
  BY <1>1, <1>5 DEF SessionInv, WalkInv
<1>6. /\ Asked[1] = job.slave /\ Asked[2] = pos[job.slave]
      /\ Asked = <<job.slave, pos[job.slave]>>
  BY DEF Asked
<1>7. Tidy => \A i \in 1..Len(frames) : frames[i][1] = job.slave
  <2>1. \A i \in 1..n + 1 : i \in 1..n \/ i = n + 1
    BY <1>3
  <2> QED
    BY <1>4, <1>5, <1>6, <2>1
<1>8. ASSUME Tidy, Walking, job.slave \notin Endless
      PROVE  frames = SoFar(job.slave, n + 1) /\ pos[job.slave] = n + 1
  <2>1. pos[job.slave] = n + 1
    BY <1>5, <1>8 DEF Heard
  <2>2. ret.msg = <<job.slave, n + 1>>
    BY <1>5, <1>6, <1>8, <2>1
  <2> QED
    BY <1>3, <1>5, <1>8, <2>1, <2>2, SoFarLemma
<1> HIDE DEF frames, n
<1>9. CASE ret.msg \in Undecodable /\ Finish({"ErrUnsupportedCI"}, <<>>)
  <2>1. ~(Legal /\ sound /\ Walking /\ Readable(job.slave))
    BY <1>3, <1>5, <1>6, <1>9 DEF Tidy, Readable
  <2> QED
    BY <1>1, <1>9, <2>1, FinishKeeps DEF SessionInv
<1>10. CASE ~(job.kind = "ReadAllFrames" /\ HasMoreRecords(ret.msg)) /\ Finish({}, frames)
  <2>1. ASSUME Prompt, calm
        PROVE  /\ \A i \in 1..Len(frames) : frames[i][1] = job.slave
               /\ Walking => /\ job.slave \notin Endless
                             /\ frames = [k \in 1..Telegrams[job.slave] |-> <<job.slave, k>>]
    <3>1. Tidy
      BY <2>1 DEF Tidy
    <3>2. ASSUME Walking
          PROVE  /\ job.slave \notin Endless
                 /\ frames = [k \in 1..Telegrams[job.slave] |-> <<job.slave, k>>]
      <4>1. job.slave \notin Endless /\ ~(pos[job.slave] < Telegrams[job.slave])
        BY <1>5, <1>6, <1>10, <3>1, <3>2 DEF HasMoreRecords, Walking
      <4>2. n + 1 = Telegrams[job.slave] /\ frames = SoFar(job.slave, n + 1)
        BY <1>3, <1>8, <3>1, <3>2, <4>1
      <4> QED
        BY <4>1, <4>2 DEF SoFar
    <3> QED
      BY <1>7, <3>1, <3>2
  <2> QED
    BY <1>1, <1>10, <2>1, FinishKeeps DEF SessionInv
<1>11. CASE /\ job.kind = "ReadAllFrames" /\ HasMoreRecords(ret.msg)
            /\ job' = [job EXCEPT !.step = "request", !.frames = frames]
            /\ UNCHANGED <<clientVars, busVars, result, slaveVars, jobs, sound, calm>>
  <2>1. /\ job'.kind = job.kind /\ job'.slave = job.slave /\ job'.lastFCB = job.lastFCB
        /\ job'.step = "request" /\ job'.frames = frames /\ job' # NoJob
    <3>1. /\ job'.kind = job.kind /\ job'.slave = job.slave /\ job'.lastFCB = job.lastFCB
          /\ job'.step = "request" /\ job'.frames = frames
      BY <1>3, <1>11 DEF Jobs
    <3> QED
      BY <1>3, <3>1 DEF NoJob
  <2>2. CalmInv' /\ ResultInv'
    BY <1>1, <1>11, BetweenCalls, ResultKept DEF SessionInv
  <2>3. SoundInv'
    <3>1. Walking' => Walking
      BY <1>1, <2>1 DEF Walking
    <3>2. Legal /\ sound /\ Walking => Clean
      BY <1>1 DEF SessionInv, SoundInv, SoundPlaces
    <3> QED
      BY <1>11, <2>1, <3>1, <3>2
         DEF SessionInv, SoundInv, SoundPlaces, Clean, Quiet, clientVars, busVars
  <2>4. ASSUME Tidy' PROVE Tidy
    BY <1>1, <1>11, <2>1, <2>4 DEF Tidy, Walking
  <2>5. WalkInv'
    <3> SUFFICES ASSUME Tidy' PROVE WalkInv'
      BY DEF WalkInv
    <3>1. \A i \in 1..Len(job'.frames) : job'.frames[i][1] = job'.slave
      BY <1>7, <2>1, <2>4
    <3>2. job'.slave \notin Endless => job'.frames = SoFar(job'.slave, Len(job'.frames))
      BY <1>1, <1>4, <1>8, <1>11, <2>1, <2>4 DEF Walking
    <3>3. fcb'[job'.slave] = {job'.lastFCB}
      BY <1>5, <1>11, <2>1, <2>4 DEF Heard, slaveVars
    <3>4. ASSUME job.slave \notin Endless
          PROVE  /\ pos'[job'.slave] = Len(job'.frames)
                 /\ Len(job'.frames) < Telegrams[job'.slave]
      <4>1. pos[job.slave] < Telegrams[job.slave]
        BY <1>5, <1>6, <1>11, <2>4, <3>4 DEF HasMoreRecords
      <4>2. pos[job.slave] = Len(frames)
        BY <1>1, <1>4, <1>8, <1>11, <2>4, <3>4 DEF Walking
      <4> QED
        BY <1>11, <2>1, <4>1, <4>2 DEF slaveVars
    <3> QED
      BY <1>4, <2>1, <3>1, <3>2, <3>3, <3>4 DEF WalkInv
  <2> QED
    BY <2>2, <2>3, <2>5
<1> QED
  BY <1>9, <1>10, <1>11 DEF Response, frames

\* After the link reset the only E5h to come is its acknowledgement.
LEMMA ResetKeeps ==
    ASSUME SessionInv, LinkReset
    PROVE  CalmInv' /\ SoundInv' /\ WalkInv' /\ ResultInv'
<1>1. /\ job # NoJob /\ job.step = "reset" /\ op = "none" /\ job \in Jobs
      /\ job' = [job EXCEPT !.step = "ack"] /\ Call("ReadSingleCharFrame")
      /\ UNCHANGED <<ctx, result, calm>>
      /\ \/ AnswerReset(job.slave) /\ UNCHANGED sound
         \/ sound' = FALSE /\ UNCHANGED <<outbox, slaveVars>>
  BY DEF LinkReset, At, Lost, SessionInv, SessionTypeOK
<1>2. /\ job'.kind = job.kind /\ job'.slave = job.slave /\ job'.frames = job.frames
      /\ job'.step = "ack" /\ job' # NoJob /\ job.kind = "ReadAllFrames"
  <2>1. /\ job'.kind = job.kind /\ job'.slave = job.slave /\ job'.frames = job.frames
        /\ job'.step = "ack"
    BY <1>1 DEF Jobs
  <2>2. job.kind = "ReadAllFrames"
    BY <1>1 DEF SessionInv, SessionTypeOK
  <2> QED
    BY <2>1, <2>2 DEF NoJob
<1>3. /\ op' = "ReadSingleCharFrame" /\ at' = "look" /\ ~late'
      /\ UNCHANGED <<line, buf, conn>>
  BY <1>1 DEF Call
<1>4. /\ outbox \in Seq(Seq(Byte)) /\ Bytes(Ack) \in Seq(Byte)
      /\ OnlyLastE5(Bytes(Ack)) /\ HasE5(Bytes(Ack))
  <2>1. /\ Bytes(Ack) \in Seq(Byte) /\ Len(Bytes(Ack)) = 1 /\ Bytes(Ack)[1] = <<Ack, 1>>
    <3>1. Ack \in Msg /\ Size[Ack] = 1 /\ 1 \in 1..1
      BY ClientAssumption
    <3> QED
      BY <3>1, BytesLemma
  <2>2. OnlyLastE5(Bytes(Ack))
    BY <2>1 DEF OnlyLastE5
  <2>3. HasE5(Bytes(Ack))
    BY <2>1 DEF HasE5, IsE5
  <2> QED
    BY <2>1, <2>2, <2>3 DEF SessionInv, SessionTypeOK
<1>5. ASSUME AnswerReset(job.slave)
      PROVE  Restarted' /\ LeftE5'
  <2>1. job.slave \in Slaves
    BY <1>1, WalkLemma
  <2>2. Restarted'
    BY <1>2, <1>5, <2>1 DEF AnswerReset, Restarted, SessionInv, SessionTypeOK
  <2>3. QueueE5(outbox')
    BY <1>4, <1>5, E5Append DEF AnswerReset
  <2> QED
    BY <2>2, <2>3 DEF LeftE5, QueueE5
<1>6. CalmInv'
  BY <1>1, <1>3 DEF SessionInv, CalmInv, Accounted
<1>7. SoundInv'
  BY <1>1, <1>2, <1>3, <1>5 DEF SessionInv, SoundInv, SoundPlaces
<1>8. WalkInv'
  <2>1. Tidy' => Tidy
    BY <1>1, <1>2 DEF Tidy, Walking
  <2> SUFFICES ASSUME Tidy PROVE WalkInv'
    BY <2>1 DEF WalkInv
  <2>2. ~HasE5(buf) /\ ~HasE5(line) /\ ~QueueE5(outbox)
    BY <1>1 DEF SessionInv, WalkInv, LeftE5, QueueE5
  <2>3. OnlyLastE5(buf) /\ OnlyLastE5(line)
    BY <2>2 DEF HasE5, OnlyLastE5
  <2>4. AckIsLast'
    <3>1. CASE UNCHANGED outbox
      BY <1>3, <2>2, <2>3, <3>1 DEF AckIsLast, QueueE5, LeftE5, HasE5, OnlyLastE5
    <3>2. CASE AnswerReset(job.slave)
      <4>1. outbox' = Append(outbox, Bytes(Ack))
        BY <3>2 DEF AnswerReset
      <4>2. /\ Len(outbox') = Len(outbox) + 1 /\ Len(outbox) \in Nat
            /\ \A i \in 1..Len(outbox) + 1 :
                  outbox'[i] = (IF i < Len(outbox) + 1 THEN outbox[i] ELSE Bytes(Ack))
        BY <1>4, <4>1, E5Append
      <4>3. ASSUME NEW i \in 1..Len(outbox'), i < Len(outbox') PROVE ~HasE5(outbox'[i])
        <5>1. i \in 1..Len(outbox) /\ outbox'[i] = outbox[i]
          BY <4>2, <4>3
        <5> QED
          BY <2>2, <5>1 DEF QueueE5
      <4>4. ASSUME NEW i \in 1..Len(outbox') PROVE OnlyLastE5(outbox'[i])
        <5>1. CASE i < Len(outbox')
          BY <4>3, <5>1 DEF HasE5, OnlyLastE5
        <5>2. CASE ~(i < Len(outbox'))
          BY <1>4, <4>2, <5>2
        <5> QED
          BY <5>1, <5>2
      <4> QED
        BY <1>3, <1>5, <2>2, <2>3, <3>2, <4>3, <4>4 DEF AckIsLast
    <3> QED
      BY <1>1, <3>1, <3>2
  <2>5. /\ \A i \in 1..Len(job.frames) : job.frames[i][1] = job.slave
        /\ Walking /\ job.slave \notin Endless =>
               job.frames = SoFar(job.slave, Len(job.frames))
    BY <1>1 DEF SessionInv, WalkInv
  <2> QED
    BY <1>2, <1>3, <2>4, <2>5, <1>1 DEF WalkInv, Walking
<1>9. ResultInv'
  BY <1>1, ResultKept DEF SessionInv
<1> QED
  BY <1>6, <1>7, <1>8, <1>9

\* The acknowledgement has been read, and nothing is under way.
LEMMA ResetDoneKeeps ==
    ASSUME SessionInv, LinkResetDone
    PROVE  CalmInv' /\ SoundInv' /\ WalkInv' /\ ResultInv'
<1>1. /\ job # NoJob /\ job.step = "ack" /\ op = "none" /\ ret.err = {} /\ job \in Jobs
      /\ job' = [job EXCEPT !.step = "request"]
      /\ UNCHANGED <<clientVars, busVars, result, slaveVars, jobs, sound, calm>>
  BY DEF LinkResetDone, At, SessionInv, SessionTypeOK
<1>2. /\ job'.kind = job.kind /\ job'.slave = job.slave /\ job'.frames = job.frames
      /\ job'.lastFCB = job.lastFCB /\ job'.step = "request" /\ job' # NoJob
      /\ job.frames = <<>> /\ job.lastFCB = 1
  <2>1. /\ job'.kind = job.kind /\ job'.slave = job.slave /\ job'.frames = job.frames
        /\ job'.lastFCB = job.lastFCB /\ job'.step = "request"
    BY <1>1 DEF Jobs
  <2>2. job.frames = <<>> /\ job.lastFCB = 1 /\ job.kind = "ReadAllFrames"
    BY <1>1 DEF SessionInv, SessionTypeOK
  <2> QED
    BY <2>1, <2>2 DEF NoJob
<1>3. CalmInv' /\ ResultInv'
  BY <1>1, BetweenCalls, ResultKept DEF SessionInv
<1>4. SoundInv'
  <2>1. Walking' => Walking
    BY <1>1, <1>2 DEF Walking
  <2>2. Legal /\ sound /\ Walking => Clean
    BY <1>1 DEF SessionInv, SoundInv, SoundPlaces
  <2> QED
    BY <1>1, <1>2, <2>1, <2>2
       DEF SessionInv, SoundInv, SoundPlaces, Clean, Quiet, clientVars, busVars
<1>5. WalkInv'
  <2>1. Tidy' => Tidy
    BY <1>1, <1>2 DEF Tidy, Walking
  <2> SUFFICES ASSUME Tidy PROVE WalkInv'
    BY <2>1 DEF WalkInv
  <2>2. Restarted
    BY <1>1 DEF SessionInv, WalkInv
  <2>3. Restarted'
    BY <1>1, <1>2, <2>2 DEF Restarted, slaveVars
  <2>4. /\ \A i \in 1..Len(job.frames) : job.frames[i][1] = job.slave
        /\ Walking /\ job.slave \notin Endless =>
               job.frames = SoFar(job.slave, Len(job.frames))
    BY <1>1 DEF SessionInv, WalkInv
  <2> QED
    BY <1>1, <1>2, <2>3, <2>4 DEF WalkInv, Walking
<1> QED
  BY <1>3, <1>4, <1>5

\* The slave that hears the request sends the next telegram.
LEMMA RequestKeeps ==
    ASSUME SessionInv, Request
    PROVE  CalmInv' /\ SoundInv' /\ WalkInv' /\ ResultInv'
<1> DEFINE s == job.slave
<1>1. /\ job # NoJob /\ job.step = "request" /\ op = "none" /\ job \in Jobs
      /\ job' = [job EXCEPT !.step = "response", !.lastFCB = NextFCB]
      /\ Call("ReadLongFrame")
      /\ UNCHANGED <<ctx, result, calm>>
      /\ \/ AnswerRequest(s, NextFCB) /\ UNCHANGED sound
         \/ sound' = FALSE /\ UNCHANGED <<outbox, slaveVars>>
  BY DEF Request, At, Lost, SessionInv, SessionTypeOK
<1>2. /\ job'.kind = job.kind /\ job'.slave = job.slave /\ job'.frames = job.frames
      /\ job'.lastFCB = NextFCB /\ job'.step = "response" /\ job' # NoJob
  <2>1. /\ job'.kind = job.kind /\ job'.slave = job.slave /\ job'.frames = job.frames
        /\ job'.lastFCB = NextFCB /\ job'.step = "response"
    BY <1>1 DEF Jobs
  <2> QED
    BY <1>1, <2>1, WalkLemma DEF NoJob
<1>3. /\ op' = "ReadLongFrame" /\ at' = "look" /\ ~late'
      /\ UNCHANGED <<line, buf, conn>>
  BY <1>1 DEF Call
<1>4. /\ s \in Slaves /\ Telegrams[s] \in Nat \ {0} /\ pos[s] \in 1..Telegrams[s]
      /\ Len(job.frames) \in Nat /\ (job.frames = <<>> <=> Len(job.frames) = 0)
      /\ job.lastFCB \in {0, 1}
  BY <1>1, WalkLemma
<1>5. Tidy' => Tidy
  BY <1>1, <1>2 DEF Tidy, Walking
<1>6. ASSUME Tidy, AnswerRequest(s, NextFCB)
      PROVE  Heard' /\ outbox' = Append(outbox, Bytes(Asked'))
  <2> DEFINE k == IF fcb[s] \subseteq {NextFCB} THEN pos[s]
                  ELSE IF pos[s] < Telegrams[s] THEN pos[s] + 1 ELSE 1
  <2>1. /\ fcb' = [fcb EXCEPT ![s] = {NextFCB}] /\ pos' = [pos EXCEPT ![s] = k]
        /\ outbox' = Append(outbox, Bytes(<<s, k>>))
    BY <1>6 DEF AnswerRequest
  <2>2. fcb'[s] = {NextFCB} /\ pos'[s] = k
    BY <1>4, <2>1 DEF SessionInv, SessionTypeOK
  <2>3. outbox' = Append(outbox, Bytes(Asked'))
    BY <1>2, <2>1, <2>2 DEF Asked
  <2>4. ASSUME Walking, s \notin Endless PROVE k = Len(job.frames) + 1
    <3>1. CASE job.frames = <<>>
      <4>1. fcb[s] = {} /\ pos[s] = 1
        BY <1>1, <1>6, <2>4, <3>1 DEF SessionInv, WalkInv, Restarted
      <4> QED
        BY <1>4, <3>1, <4>1
    <3>2. CASE job.frames # <<>>
      <4>1. /\ fcb[s] = {job.lastFCB} /\ pos[s] = Len(job.frames)
            /\ Len(job.frames) < Telegrams[s]
        BY <1>1, <1>6, <2>4, <3>2 DEF SessionInv, WalkInv
      <4>2. job.lastFCB \in {0, 1} /\ NextFCB # job.lastFCB
        BY <1>4, <2>4 DEF NextFCB, Walking
      <4>3. ~(fcb[s] \subseteq {NextFCB})
        BY <4>1, <4>2
      <4> QED
        BY <4>1, <4>3
    <3> QED
      BY <3>1, <3>2
  <2> HIDE DEF k
  <2>5. Heard'
    BY <1>1, <1>2, <2>2, <2>4 DEF Heard, Walking
  <2> QED
    BY <2>3, <2>5
<1>7. CalmInv'
  <2> SUFFICES ASSUME Prompt, calm PROVE CalmInv'
    BY <1>1 DEF CalmInv
  <2>1. ctx' = "live" /\ Tidy
    BY <1>1 DEF SessionInv, CalmInv, Tidy
  <2>2. Blocked \/ Fresh \/ Dead
    BY <1>1 DEF SessionInv, CalmInv, Accounted
  <2>3. CASE Blocked
    BY <1>3, <2>1, <2>3 DEF Blocked, Accounted, CalmInv
  <2>4. CASE Dead
    BY <1>3, <2>1, <2>4 DEF Dead, Starved, Accounted, CalmInv
  <2>5. CASE Fresh /\ UNCHANGED outbox
    BY <1>3, <2>1, <2>5 DEF Fresh, Quiet, Starved, Accounted, CalmInv
  <2>6. CASE Fresh /\ AnswerRequest(s, NextFCB)
    <3>1. outbox' = <<Bytes(Asked')>> /\ Heard'
      BY <1>6, <2>1, <2>6 DEF Fresh, Quiet
    <3>2. Waiting'
      BY <1>3, <2>6, <3>1 DEF Fresh, Quiet, Starved, Waiting
    <3> QED
      BY <1>3, <2>1, <3>2 DEF Accounted, CalmInv
  <2> QED
    BY <1>1, <2>2, <2>3, <2>4, <2>5, <2>6
<1>8. SoundInv'
  <2> SUFFICES ASSUME Legal, sound' PROVE SoundInv'
    BY DEF SoundInv
  <2>1. sound /\ AnswerRequest(s, NextFCB)
    BY <1>1
  <2>2. ctx' = "live" /\ conn' = "up"
    BY <1>1, <1>3, <2>1 DEF SessionInv, SoundInv
  <2>3. ASSUME Walking' PROVE Due'
    <3>1. Walking /\ Tidy
      BY <1>1, <1>2, <2>1, <2>3 DEF Walking, Tidy
    <3>2. Clean
      BY <1>1, <2>1, <3>1 DEF SessionInv, SoundInv, SoundPlaces
    <3>3. outbox' = <<Bytes(Asked')>> /\ Heard'
      BY <1>6, <2>1, <3>1, <3>2 DEF Clean, Quiet
    <3>4. Starved(buf')
      BY <1>3, <3>2, EmptyIsStarved DEF Clean
    <3> QED
      BY <1>3, <3>2, <3>3, <3>4 DEF Clean, Quiet, Due, Waiting, Starved
  <2> QED
    BY <1>2, <1>3, <2>2, <2>3 DEF SoundInv, SoundPlaces
<1>9. WalkInv'
  <2> SUFFICES ASSUME Tidy PROVE WalkInv'
    BY <1>5 DEF WalkInv
  <2>1. /\ \A i \in 1..Len(job.frames) : job.frames[i][1] = job.slave
        /\ Walking /\ job.slave \notin Endless =>
               job.frames = SoFar(job.slave, Len(job.frames))
    BY <1>1 DEF SessionInv, WalkInv
  <2> QED
    BY <1>1, <1>2, <1>3, <2>1 DEF WalkInv, Walking
<1>10. ResultInv'
  BY <1>1, ResultKept DEF SessionInv
<1> QED
  BY <1>7, <1>8, <1>9, <1>10

-----------------------------------------------------------------------------
(* The calls                                                               *)

\* Nothing but the call's own state changes in its loops.
LEMMA ReadLemmaOfCall ==
    ASSUME SessionInv, Read
    PROVE  /\ ClientStep /\ op # "none" /\ ClientTypeOK /\ job # NoJob
           /\ UNCHANGED <<outbox, job, result, fcb, pos, sound, calm, conn, ctx>>
           /\ Tidy => ctx = "live" /\ (late => Quiet)
           /\ op = "ReadSingleCharFrame" => job.step = "ack" /\ Walking
           /\ op = "ReadLongFrame" => job.step = "response"
           /\ op \in {"ReadSingleCharFrame", "ReadLongFrame"}
<1>1. ClientStep /\ UNCHANGED <<outbox, job, result, fcb, pos, sound, calm>>
  BY DEF Read, BusStep, busVars, slaveVars
<1>2. op # "none" /\ UNCHANGED <<conn, ctx>>
  BY <1>1, StepOfCall DEF SessionInv
<1>3. ClientTypeOK /\ op \in {"none", "ReadSingleCharFrame", "ReadLongFrame"}
  BY DEF SessionInv, SessionTypeOK
<1>4. /\ op = "ReadSingleCharFrame" => job # NoJob /\ job.step = "ack" /\ Walking
      /\ op = "ReadLongFrame" => job # NoJob /\ job.step = "response"
  BY DEF SessionInv, SessionTypeOK, Walking
<1>5. Tidy => ctx = "live" /\ (late => Quiet)
  BY DEF Tidy, SessionInv, CalmInv, SoundInv
<1> QED
  BY <1>1, <1>2, <1>3, <1>4, <1>5

\* The wait for the acknowledgement drops what comes before it, and leaves nothing.
LEMMA SingleCharKeeps ==
    ASSUME SessionInv, Read, op = "ReadSingleCharFrame"
    PROVE  CalmInv' /\ SoundInv' /\ WalkInv'
<1>1. /\ ClientStep /\ ClientTypeOK /\ job # NoJob /\ job.step = "ack" /\ Walking
      /\ UNCHANGED <<outbox, job, fcb, pos, sound, calm, conn, ctx>>
      /\ Tidy => ctx = "live" /\ (late => Quiet)
  BY ReadLemmaOfCall
<1>2. /\ buf \in Seq(Byte) /\ Len(buf) \in Nat
      /\ line \in Seq(Byte) /\ Len(line) \in Nat
      /\ Len(<<>>) = 0
  BY <1>1, LenProperties, EmptySeq DEF ClientTypeOK
<1>3. Tidy => AckIsLast
  BY <1>1 DEF SessionInv, WalkInv
<1>4. Tidy' = Tidy /\ Walking' /\ job'.step = "ack"
  BY <1>1 DEF Tidy, Walking
<1>5. /\ Prompt /\ calm => ctx' = "live"
      /\ Legal /\ sound => ctx' = "live" /\ conn' = "up" /\ LeftE5
  BY <1>1 DEF SessionInv, CalmInv, SoundInv, SoundPlaces
<1>6. Tidy => /\ \A i \in 1..Len(job.frames) : job.frames[i][1] = job.slave
              /\ Walking /\ job.slave \notin Endless =>
                     job.frames = SoFar(job.slave, Len(job.frames))
  BY <1>1 DEF SessionInv, WalkInv
<1>7. /\ Prompt /\ calm => Tidy
      /\ Legal /\ sound => Tidy
  BY <1>1 DEF Tidy
<1>8. ASSUME op' = "none", ~late', at' = "look",
             Tidy => /\ ret'.err = {} => Restarted
                     /\ Fresh' \/ Dead',
             Legal /\ sound => ret'.err = {} /\ Clean'
      PROVE  CalmInv' /\ SoundInv' /\ WalkInv'
  <2>1. CalmInv'
    BY <1>1, <1>5, <1>7, <1>8 DEF CalmInv, Accounted
  <2>2. SoundInv'
    BY <1>1, <1>4, <1>5, <1>8 DEF SoundInv, SoundPlaces
  <2>3. WalkInv'
    BY <1>1, <1>4, <1>6, <1>8 DEF WalkInv, Restarted, Walking
  <2> QED
    BY <2>1, <2>2, <2>3
<1>9. ASSUME op' = op, LeftE5 => LeftE5', Tidy => AckIsLast' /\ (late' => Quiet')
      PROVE  CalmInv' /\ SoundInv' /\ WalkInv'
  <2>1. CalmInv'
    BY <1>1, <1>5, <1>7, <1>9 DEF CalmInv, Accounted
  <2>2. SoundInv'
    BY <1>1, <1>4, <1>5, <1>7, <1>9 DEF SoundInv, SoundPlaces
  <2>3. WalkInv'
    BY <1>1, <1>4, <1>6, <1>9 DEF WalkInv, Walking
  <2> QED
    BY <2>1, <2>2, <2>3
<1>10. CASE Look
  <2>0. UNCHANGED line
    BY <1>10, SingleOutcomes
  <2>1. ASSUME NEW i \in 1..Len(buf), FirstE5(buf, i), buf' = Drop(buf, i),
               op' = "none", at' = "look", ~late', ret'.err = {}
        PROVE  CalmInv' /\ SoundInv' /\ WalkInv'
    <3>1. HasE5(buf) /\ LeftE5
      BY <2>1 DEF FirstE5, HasE5, LeftE5
    <3>2. ASSUME Tidy PROVE Restarted /\ Fresh' /\ Clean'
      <4>1. i = Len(buf)
        BY <1>2, <1>3, <2>1, <3>2 DEF AckIsLast, OnlyLastE5, FirstE5
      <4>2. buf' = <<>>
        BY <1>2, <2>1, <4>1, DropAll
      <4>3. Restarted /\ line = <<>> /\ outbox = <<>>
        BY <1>3, <3>1, <3>2 DEF AckIsLast
      <4>4. Starved(buf')
        BY <4>2, EmptyIsStarved
      <4> QED
        BY <1>1, <2>0, <4>2, <4>3, <4>4 DEF Fresh, Clean, Quiet, Starved
    <3> QED
      BY <1>7, <1>8, <2>1, <3>2
  <2>2. ASSUME \A i \in 1..Len(buf) : ~IsE5(buf[i]), buf' = <<>>, at' = "fill",
               UNCHANGED <<op, late, ret>>
        PROVE  CalmInv' /\ SoundInv' /\ WalkInv'
    <3>1. ~HasE5(buf) /\ ~HasE5(buf') /\ OnlyLastE5(buf')
      BY <1>2, <2>2 DEF HasE5, OnlyLastE5
    <3>2. LeftE5' = LeftE5
      BY <1>1, <2>0, <3>1 DEF LeftE5
    <3>3. Tidy => AckIsLast'
      BY <1>1, <1>3, <2>0, <2>2, <3>1, <3>2 DEF AckIsLast, Restarted
    <3>4. Quiet' = Quiet
      BY <1>1, <2>0 DEF Quiet
    <3> QED
      BY <1>1, <1>9, <2>2, <3>2, <3>3, <3>4
  <2> QED
    BY <1>10, <2>1, <2>2, SingleOutcomes
<1>11. CASE Fill
  <2>1. at = "fill" /\ at' = "look"
    BY <1>1, <1>11, FillOutcomes
  <2>2. Tidy => buf = <<>>
    BY <1>3, <2>1 DEF AckIsLast
  <2>3. ASSUME op' = "none", ~late', ret'.err # {}, UNCHANGED <<line, buf>>,
               CtxErr \/ (~CtxErr /\ Past) \/ (conn # "up" /\ line = <<>>)
        PROVE  CalmInv' /\ SoundInv' /\ WalkInv'
    <3>1. ASSUME Tidy PROVE Fresh' \/ Dead'
      <4>1. ctx = "live" /\ Starved(buf)
        BY <1>1, <2>2, <3>1, EmptyIsStarved
      <4>2. Quiet \/ (conn # "up" /\ line = <<>>)
        BY <1>1, <2>3, <3>1, <4>1 DEF CtxErr, CtxErrors, Past
      <4> QED
        BY <1>1, <2>3, <4>1, <4>2 DEF Fresh, Dead, Quiet, Starved
    <3>2. ASSUME Legal, sound PROVE FALSE
      <4>1. Quiet /\ buf = <<>> /\ LeftE5
        BY <1>1, <1>5, <1>7, <2>2, <2>3, <3>2
           DEF CtxErr, CtxErrors, Past
      <4> QED
        BY <1>2, <4>1 DEF LeftE5, HasE5, Quiet
    <3> QED
      BY <1>8, <2>1, <2>3, <3>1, <3>2
  <2>4. ASSUME NEW c \in 1..Len(line), FillBytes(c), op' = op, ~late', line # <<>>
        PROVE  CalmInv' /\ SoundInv' /\ WalkInv'
    <3>1. /\ buf' = buf \o SubSeq(line, 1, c) /\ line' = Drop(line, c)
      BY <2>4 DEF FillBytes
    <3>2. SubSeq(line, 1, c) \in Seq(Byte)
      BY <1>2, PrefixLemma
    <3>3. HasE5(buf') <=> HasE5(buf) \/ HasE5(SubSeq(line, 1, c))
      BY <1>2, <3>1, <3>2, E5Concat
    <3>4. HasE5(line) <=> HasE5(SubSeq(line, 1, c)) \/ HasE5(line')
      BY <1>2, <3>1, E5Read
    <3>5. LeftE5' = LeftE5
      BY <1>1, <3>3, <3>4 DEF LeftE5
    <3>6. ASSUME Tidy PROVE AckIsLast'
      <4>1. AckIsLast /\ buf = <<>> /\ ~HasE5(buf)
        BY <1>2, <1>3, <2>2, <3>6 DEF HasE5
      <4>2. buf' = SubSeq(line, 1, c)
        BY <3>1, <3>2, <4>1, ConcatEmptySeq
      <4>3. OnlyLastE5(buf') /\ OnlyLastE5(line') /\ (line' # <<>> => ~HasE5(buf'))
        BY <1>2, <3>1, <4>1, <4>2, E5Read DEF AckIsLast
      <4>4. outbox' # <<>> => ~HasE5(buf') /\ ~HasE5(line')
        BY <1>1, <3>4, <4>1, <4>2 DEF AckIsLast
      <4> QED
        BY <1>1, <2>1, <3>5, <4>1, <4>3, <4>4 DEF AckIsLast, Restarted
    <3> QED
      BY <1>9, <2>4, <3>5, <3>6
  <2> QED
    BY <1>1, <1>11, <2>3, <2>4, FillOutcomes
<1> QED
  BY <1>1, <1>10, <1>11 DEF ClientStep

\* A Read of some of the answer to the request.
LEMMA AskedReads ==
    ASSUME ClientTypeOK, Asked \in Msg, Asked' = Asked, NEW c \in 1..Len(line), FillBytes(c)
    PROVE  /\ \A n \in 0..Len(buf) : Reply(n, Asked) => n \in 0..Len(buf') /\ Reply(n, Asked)'
           /\ Split(Asked) => Split(Asked)'
<1>1. PICK m \in Msg : m = Asked
  OBVIOUS
<1>2. ASSUME NEW n \in 0..Len(buf), Reply(n, m)
      PROVE  n \in 0..Len(buf') /\ Reply(n, m)'
  BY <1>2, ReplyReads
<1>3. Split(m) => Split(m)'
  BY SplitReads
<1> QED
  BY <1>1, <1>2, <1>3 DEF Reply, Split

\* A turn of ReadLongFrame's loop takes the answer, whole, or is blocked, or waits.
LEMMA LongLookKeeps ==
    ASSUME SessionInv, Read, op = "ReadLongFrame", Look
    PROVE  CalmInv' /\ SoundInv' /\ WalkInv'
<1>1. /\ ClientTypeOK /\ job # NoJob /\ job.step = "response"
      /\ UNCHANGED <<outbox, job, fcb, pos, sound, calm, conn, ctx>>
  BY ReadLemmaOfCall
<1>2. /\ at = "look" /\ UNCHANGED line
      /\ buf \in Seq(Byte) /\ Asked \in LongMsg /\ Asked \in Msg /\ Asked # Ack
  BY <1>1, LongOutcomes, AskedLemma DEF ClientTypeOK, SessionInv
<1>3. Tidy' = Tidy /\ Walking' = Walking /\ Heard' = Heard /\ Asked' = Asked
  BY <1>1 DEF Tidy, Walking, Heard, Asked
<1>4. /\ Prompt /\ calm => ctx' = "live" /\ (late => Quiet) /\ Accounted
      /\ Legal /\ sound => /\ ctx' = "live" /\ conn' = "up" /\ (late => Quiet)
                           /\ Walking => Due \/ Coming
  BY <1>1 DEF SessionInv, CalmInv, SoundInv, SoundPlaces
<1>5. Tidy => /\ \A i \in 1..Len(job.frames) : job.frames[i][1] = job.slave
              /\ Walking /\ job.slave \notin Endless =>
                     job.frames = SoFar(job.slave, Len(job.frames))
  BY <1>1 DEF SessionInv, WalkInv
<1>6. Quiet' = Quiet
  BY <1>1, <1>2 DEF Quiet
<1>7. /\ Starved(buf) => parseLongFrame(buf).err = NeedMore
      /\ \A k : Parsed(k).err = {} /\ Parsed(k).msg = k /\ Failed("errNeedMore").err = NeedMore
      /\ NeedMore # {} /\ NeedMore \cap Malformed = {} /\ {} \cap Malformed = {}
  BY <1>2, StarvedParse DEF Parsed, Failed, NeedMore, Malformed
<1>8. Legal => Size[Asked] >= MinSize
  BY <1>2 DEF Legal
<1>9. Coming => buf = <<>> \/ ~IsE5(buf[1])
  <2> SUFFICES ASSUME Coming, buf # <<>> PROVE ~IsE5(buf[1])
    OBVIOUS
  <2>1. Len(buf) \in Nat /\ Len(buf) # 0
    BY <1>2, LenProperties, EmptySeq
  <2>2. buf[1] = <<Asked, 1>>
    BY <2>1 DEF Coming, Split
  <2> QED
    BY <1>2, <2>2, HeadIsNoE5
<1>10. ASSUME NEW m \in LongMsg, parseLongFrame(buf) = Parsed(m), buf' = Drop(buf, Size[m]),
              op' = "none", at' = "look", ~late', ret'.err = {}, ret'.msg = m
       PROVE  CalmInv' /\ SoundInv' /\ WalkInv'
  <2>1. buf # <<>>
    BY <1>7, <1>10, EmptyIsStarved
  <2>2. ~Starved(buf) /\ parseLongFrame(buf).err \cap Malformed = {}
    BY <1>7, <1>10
  <2>3. ~Starved(buf) => takeBufferedFrame(buf) = parseLongFrame(buf) \/ IsE5(buf[1])
    BY <2>1 DEF takeBufferedFrame
  <2>4. ASSUME Prompt, calm PROVE Heard /\ m = Asked /\ Fresh'
    <3>1. Arriving
      BY <1>4, <2>2, <2>4 DEF Accounted, Blocked, Fresh, Dead, Waiting
    <3>2. PICK n \in 0..Len(buf) : Reply(n, Asked)
      BY <3>1 DEF Arriving
    <3>3. ~IsE5(buf[1])
      BY <1>1, <1>2, <2>1, <3>2, ReplyHead
    <3>4. takeBufferedFrame(buf) = Parsed(m)
      BY <1>10, <2>2, <2>3, <3>3
    <3>5. m = Asked /\ line = <<>> /\ Len(buf) = Size[m]
      BY <1>1, <1>2, <3>2, <3>4, TakenIsTheReply DEF LongMsg
    <3>6. buf' = <<>>
      BY <1>2, <1>10, <3>5, DropAll
    <3> QED
      BY <1>1, <1>2, <3>1, <3>5, <3>6, EmptyIsStarved DEF Arriving, Fresh, Quiet, Starved
  <2>5. ASSUME Legal, sound, Walking PROVE Heard /\ m = Asked /\ Clean'
    <3>1. Coming
      BY <1>4, <2>2, <2>5 DEF Due, Waiting
    <3>2. takeBufferedFrame(buf) = Parsed(m)
      BY <1>9, <1>10, <2>1, <2>2, <2>3, <3>1
    <3>3. takeBufferedFrame(buf) = Parsed(Asked) /\ Len(buf) = Size[Asked] /\ line = <<>>
      BY <1>1, <1>2, <1>7, <1>8, <2>5, <3>1, <3>2, SplitTake DEF Coming
    <3>4. m = Asked
      <4>1. Parsed(m).msg = m /\ Parsed(Asked).msg = Asked
        BY DEF Parsed
      <4> QED
        BY <3>2, <3>3, <4>1
    <3>5. buf' = <<>>
      BY <1>2, <1>10, <3>3, <3>4, DropAll
    <3> QED
      BY <1>1, <1>2, <3>1, <3>3, <3>4, <3>5 DEF Coming, Clean, Quiet
  <2>6. CalmInv'
    BY <1>1, <1>4, <1>10, <2>4 DEF CalmInv, Accounted
  <2>7. SoundInv'
    BY <1>1, <1>3, <1>4, <1>10, <2>5 DEF SoundInv, SoundPlaces
  <2>8. Tidy => Heard /\ m = Asked
    BY <2>4, <2>5 DEF Tidy
  <2>9. WalkInv'
    BY <1>1, <1>3, <1>5, <1>10, <2>8 DEF WalkInv, Walking
  <2> QED
    BY <2>6, <2>7, <2>9
<1>11. ASSUME parseLongFrame(buf).err = NeedMore, buf' = buf, at' = "fill",
              UNCHANGED <<op, late, ret>>
       PROVE  CalmInv' /\ SoundInv' /\ WalkInv'
  <2>1. ASSUME Prompt, calm PROVE Accounted'
    <3>1. ~Blocked
      BY <1>7, <1>11 DEF Blocked
    <3>2. CASE Fresh \/ Dead \/ Waiting
      BY <1>1, <1>2, <1>3, <1>11, <3>2 DEF Accounted, Fresh, Dead, Waiting, Quiet, Starved
    <3>3. CASE Arriving
      <4>1. PICK n \in 0..Len(buf) : Reply(n, Asked)
        BY <3>3 DEF Arriving
      <4>2. buf # <<>> => ~IsE5(buf[1])
        BY <1>1, <1>2, <4>1, ReplyHead
      <4>3. Starved(buf)
        BY <1>2, <1>11, <4>2, StarvedParse
      <4> QED
        BY <1>1, <1>2, <1>3, <1>11, <3>3, <4>1, <4>3 DEF Accounted, Arriving, Reply, Starved
    <3> QED
      BY <1>4, <2>1, <3>1, <3>2, <3>3 DEF Accounted
  <2>2. ASSUME Legal, sound, Walking PROVE (Due \/ Coming)'
    <3>1. CASE Due
      BY <1>1, <1>2, <1>3, <1>11, <3>1 DEF Due, Waiting, Starved
    <3>2. CASE Coming
      <4>1. takeBufferedFrame(buf) # Parsed(Asked)
        <5>1. Starved(buf)
          BY <1>2, <1>9, <1>11, <3>2, StarvedParse
        <5> QED
          BY <1>7, <5>1 DEF Starved
      <4>2. line # <<>>
        BY <1>1, <1>2, <1>8, <2>2, <3>2, <4>1, SplitTake DEF Coming
      <4> QED
        BY <1>1, <1>2, <1>3, <1>11, <3>2, <4>2 DEF Coming, Split
    <3> QED
      BY <1>4, <2>2, <3>1, <3>2
  <2>3. CalmInv'
    BY <1>1, <1>4, <1>6, <1>11, <2>1 DEF CalmInv
  <2>4. SoundInv'
    BY <1>1, <1>3, <1>4, <1>6, <1>11, <2>2 DEF SoundInv, SoundPlaces
  <2>5. WalkInv'
    BY <1>1, <1>3, <1>5, <1>11 DEF WalkInv, Walking
  <2> QED
    BY <2>3, <2>4, <2>5
<1>12. ASSUME parseLongFrame(buf).err \cap Malformed # {}, buf' = buf,
              op' = "none", at' = "look", ~late', ret'.err # {}
       PROVE  CalmInv' /\ SoundInv' /\ WalkInv'
  <2>1. CalmInv'
    BY <1>1, <1>4, <1>12 DEF CalmInv, Accounted, Blocked
  <2>2. ~(Legal /\ sound /\ Walking)
    <3> SUFFICES ASSUME Legal, sound, Walking PROVE FALSE
      OBVIOUS
    <3>1. ~Starved(buf) /\ buf # <<>>
      BY <1>7, <1>12, EmptyIsStarved
    <3>2. Coming
      BY <1>4, <3>1 DEF Due, Waiting
    <3>3. takeBufferedFrame(buf) = parseLongFrame(buf)
      BY <1>9, <3>1, <3>2 DEF takeBufferedFrame
    <3>4. parseLongFrame(buf).err \in {NeedMore, {}}
      BY <1>1, <1>2, <1>7, <1>8, <3>2, <3>3, SplitTake DEF Coming
    <3> QED
      BY <1>7, <1>12, <3>4
  <2>3. SoundInv'
    BY <1>1, <1>3, <1>4, <1>12, <2>2 DEF SoundInv
  <2>4. WalkInv'
    BY <1>1, <1>3, <1>5, <1>12 DEF WalkInv, Walking
  <2> QED
    BY <2>1, <2>3, <2>4
<1> QED
  BY <1>10, <1>11, <1>12, LongOutcomes

\* fill reads on in the answer, or gives up when nothing more can come.
LEMMA LongFillKeeps ==
    ASSUME SessionInv, Read, op = "ReadLongFrame", Fill
    PROVE  CalmInv' /\ SoundInv' /\ WalkInv'
<1>1. /\ ClientTypeOK /\ job # NoJob /\ job.step = "response"
      /\ UNCHANGED <<outbox, job, fcb, pos, sound, calm, conn, ctx>>
  BY ReadLemmaOfCall
<1>2. /\ at = "fill" /\ at' = "look"
      /\ Asked \in LongMsg /\ Asked \in Msg /\ Asked # Ack
  BY <1>1, FillOutcomes, AskedLemma DEF SessionInv
<1>3. Tidy' = Tidy /\ Walking' = Walking /\ Heard' = Heard /\ Asked' = Asked
  BY <1>1 DEF Tidy, Walking, Heard, Asked
<1>4. /\ Prompt /\ calm => ctx = "live" /\ (late => Quiet) /\ Accounted
      /\ Legal /\ sound => /\ ctx = "live" /\ conn = "up" /\ (late => Quiet)
                           /\ Walking => Due \/ Coming
  BY <1>1 DEF SessionInv, CalmInv, SoundInv, SoundPlaces
<1>5. Tidy => /\ \A i \in 1..Len(job.frames) : job.frames[i][1] = job.slave
              /\ Walking /\ job.slave \notin Endless =>
                     job.frames = SoFar(job.slave, Len(job.frames))
  BY <1>1 DEF SessionInv, WalkInv
<1>6. Prompt /\ calm => Starved(buf) /\ (Fresh \/ Dead \/ Waiting \/ Arriving)
  BY <1>2, <1>4 DEF Accounted, Blocked, Fresh, Dead, Waiting, Arriving
<1>7. ASSUME op' = "none", ~late', ret'.err # {}, UNCHANGED <<line, buf>>,
             CtxErr \/ (~CtxErr /\ Past) \/ (conn # "up" /\ line = <<>>)
      PROVE  CalmInv' /\ SoundInv' /\ WalkInv'
  <2>1. ASSUME Prompt, calm PROVE Fresh' \/ Dead'
    <3>1. Quiet \/ (conn # "up" /\ line = <<>>)
      BY <1>4, <1>7, <2>1 DEF CtxErr, CtxErrors, Past
    <3> QED
      BY <1>1, <1>6, <1>7, <2>1, <3>1 DEF Fresh, Dead, Quiet, Starved
  <2>2. ~(Legal /\ sound /\ Walking)
    <3> SUFFICES ASSUME Legal, sound, Walking PROVE FALSE
      OBVIOUS
    <3>1. Quiet /\ (Due \/ Coming)
      BY <1>4, <1>7 DEF CtxErr, CtxErrors, Past
    <3>2. <<Bytes(Asked)>> # <<>>
      OBVIOUS
    <3> QED
      BY <1>2, <3>1, <3>2 DEF Quiet, Due, Waiting, Coming
  <2>3. CalmInv'
    BY <1>1, <1>4, <1>7, <2>1 DEF CalmInv, Accounted
  <2>4. SoundInv'
    BY <1>1, <1>3, <1>4, <1>7, <2>2 DEF SoundInv
  <2>5. WalkInv'
    BY <1>1, <1>3, <1>5, <1>7 DEF WalkInv, Walking
  <2> QED
    BY <2>3, <2>4, <2>5
<1>8. ASSUME NEW c \in 1..Len(line), FillBytes(c), op' = op, ~late', line # <<>>
      PROVE  CalmInv' /\ SoundInv' /\ WalkInv'
  <2>1. ASSUME Prompt, calm PROVE Arriving'
    <3>1. Arriving
      BY <1>6, <1>8, <2>1 DEF Fresh, Quiet, Dead, Waiting
    <3>2. PICK n \in 0..Len(buf) : Reply(n, Asked)
      BY <3>1 DEF Arriving
    <3>3. n \in 0..Len(buf') /\ Reply(n, Asked)'
      BY <1>1, <1>2, <1>3, <1>8, <3>2, AskedReads
    <3> QED
      BY <1>1, <1>2, <1>3, <3>1, <3>3 DEF Arriving
  <2>2. ASSUME Legal, sound, Walking PROVE Coming'
    <3>1. Coming
      BY <1>4, <1>8, <2>2 DEF Due, Waiting
    <3>2. Split(Asked)'
      BY <1>1, <1>2, <1>3, <1>8, <3>1, AskedReads DEF Coming
    <3> QED
      BY <1>1, <1>2, <1>3, <3>1, <3>2 DEF Coming
  <2>3. CalmInv'
    BY <1>1, <1>4, <1>8, <2>1 DEF CalmInv, Accounted
  <2>4. SoundInv'
    BY <1>1, <1>3, <1>4, <1>8, <2>2 DEF SoundInv, SoundPlaces
  <2>5. WalkInv'
    BY <1>1, <1>3, <1>5, <1>8 DEF WalkInv, Walking
  <2> QED
    BY <2>3, <2>4, <2>5
<1> QED
  BY <1>1, <1>7, <1>8, FillOutcomes

-----------------------------------------------------------------------------
(* The line and the context                                                *)

\* The answer goes on the line, as it is or damaged.
LEMMA TransmitKeeps ==
    ASSUME SessionInv, Transmit
    PROVE  CalmInv' /\ SoundInv' /\ WalkInv' /\ ResultInv'
<1>1. /\ conn = "up" /\ outbox # <<>> /\ outbox' = Tail(outbox)
      /\ UNCHANGED <<buf, conn, ctx, op, at, late, ret, job, result, fcb, pos, calm>>
      /\ sound' => sound /\ Receive(Head(outbox))
  BY DEF Transmit, TransmitWhole, TransmitDamaged, Receive, slaveVars
<1>2. PICK s \in Damaged(Head(outbox)) \cup {Head(outbox)} : Receive(s)
  BY DEF Transmit, TransmitWhole, TransmitDamaged
<1>3. /\ ClientTypeOK /\ line \in Seq(Byte) /\ buf \in Seq(Byte)
      /\ outbox \in Seq(Seq(Byte))
  BY DEF SessionInv, SessionTypeOK, ClientTypeOK
<1>4. /\ Head(outbox) \in Seq(Byte) /\ Tail(outbox) \in Seq(Seq(Byte))
      /\ Head(outbox) = outbox[1]
      /\ QueueE5(outbox) <=> HasE5(Head(outbox)) \/ QueueE5(Tail(outbox))
      /\ 1 \in 1..Len(outbox) /\ (Tail(outbox) # <<>> => 1 < Len(outbox))
      /\ \A i \in 1..Len(Tail(outbox)) :
            /\ Tail(outbox)[i] = outbox[i + 1] /\ i + 1 \in 1..Len(outbox)
            /\ i < Len(Tail(outbox)) => i + 1 < Len(outbox)
  BY <1>1, <1>3, E5Tail
<1>5. /\ s \in Seq(Byte) /\ line' = line \o s
      /\ HasE5(s) => HasE5(Head(outbox))
      /\ OnlyLastE5(Head(outbox)) => OnlyLastE5(s)
  BY <1>2, <1>4, E5Damaged DEF Receive
<1>6. /\ HasE5(line') <=> HasE5(line) \/ HasE5(s)
      /\ ~HasE5(line) /\ OnlyLastE5(s) => OnlyLastE5(line')
  BY <1>3, <1>5, E5Concat
<1>7. LeftE5' => LeftE5
  BY <1>1, <1>4, <1>5, <1>6 DEF LeftE5, QueueE5
<1>8. Tidy' => Tidy
  BY <1>1 DEF Tidy, Walking
<1>9. /\ Heard' = Heard /\ Asked' = Asked /\ Restarted' = Restarted /\ Walking' = Walking
  BY <1>1 DEF Heard, Asked, Restarted, Walking
<1>10. ~Quiet
  BY <1>1 DEF Quiet
<1>11. CalmInv'
  <2> SUFFICES ASSUME Prompt, calm PROVE CalmInv'
    BY <1>1 DEF CalmInv
  <2>1. ctx' = "live" /\ ~late' /\ Accounted
    BY <1>1, <1>10 DEF SessionInv, CalmInv
  <2>2. CASE Blocked
    BY <1>1, <2>1, <2>2 DEF Blocked, Accounted, CalmInv
  <2>3. CASE op = "ReadLongFrame" /\ Waiting
    <3>1. job # NoJob /\ outbox = <<Bytes(Asked)>> /\ line = <<>> /\ Starved(buf)
      BY <2>3 DEF Waiting, SessionInv, SessionTypeOK
    <3>2. Head(outbox) = Bytes(Asked) /\ outbox' = <<>> /\ Asked \in Msg
      BY <1>1, <3>1, AskedLemma DEF SessionInv
    <3>3. \A m \in Msg : m = Asked => Len(buf) \in 0..Len(buf) /\ Reply(Len(buf), m)'
      BY <1>2, <1>3, <3>1, <3>2, DamagedLemma, ReplyArrives
    <3>4. \E n \in 0..Len(buf') : Reply(n, Asked)'
      BY <1>1, <1>9, <3>2, <3>3
    <3>5. Arriving'
      BY <1>1, <1>9, <2>3, <3>1, <3>2, <3>4 DEF Arriving, Waiting, Starved
    <3> QED
      BY <1>1, <2>1, <2>3, <3>5 DEF CalmInv, Accounted
  <2>4. ~Fresh /\ ~Dead /\ ~Arriving
    BY <1>1, <1>10 DEF Fresh, Dead, Arriving
  <2> QED
    BY <1>1, <2>1, <2>2, <2>3, <2>4 DEF Accounted, CalmInv
<1>12. SoundInv'
  <2> SUFFICES ASSUME Legal, sound' PROVE SoundInv'
    BY DEF SoundInv
  <2>1. /\ sound /\ line' = line \o Head(outbox) /\ Receive(Head(outbox))
        /\ ctx' = "live" /\ conn' = "up" /\ ~late'
    BY <1>1, <1>10 DEF SessionInv, SoundInv, Receive
  <2>2. LeftE5 => LeftE5'
    <3>1. HasE5(line') <=> HasE5(line) \/ HasE5(Head(outbox))
      BY <1>3, <1>4, <2>1, E5Concat
    <3> QED
      BY <1>1, <1>4, <3>1 DEF LeftE5, QueueE5
  <2>3. ASSUME Walking PROVE SoundPlaces'
    <3>1. SoundPlaces
      BY <2>1, <2>3 DEF SessionInv, SoundInv
    <3>2. ~Clean /\ ~Coming
      BY <1>1, <1>10 DEF Clean, Coming
    <3>3. ASSUME Due PROVE Coming'
      <4>1. job # NoJob /\ outbox = <<Bytes(Asked)>> /\ line = <<>> /\ buf = <<>>
        BY <2>3, <3>3 DEF Due, Waiting, Walking
      <4>2. Head(outbox) = Bytes(Asked) /\ outbox' = <<>> /\ Asked \in Msg /\ Asked \in LongMsg
        BY <1>1, <4>1, AskedLemma DEF SessionInv
      <4>3. \A m \in Msg : m = Asked => Split(m)'
        BY <2>1, <4>1, <4>2, SplitArrives
      <4>4. Split(Asked)'
        BY <1>9, <4>2, <4>3
      <4>5. line' # <<>>
        <5>1. line' = Bytes(Asked)
          BY <1>4, <2>1, <4>1, <4>2, ConcatEmptySeq
        <5>2. Len(Bytes(Asked)) = Size[Asked] /\ Size[Asked] > HeadLen /\ HeadLen \in Nat
          BY <4>2, BytesLemma, ClientAssumption
        <5>3. Size[Asked] \in Nat
          BY <4>2, ClientAssumption
        <5> QED
          BY <5>1, <5>2, <5>3, EmptySeq
      <4> QED
        BY <1>9, <3>3, <4>2, <4>4, <4>5 DEF Coming, Due, Waiting
    <3> QED
      BY <1>1, <1>10, <2>2, <3>1, <3>2, <3>3 DEF SoundPlaces
  <2> QED
    BY <1>9, <2>1, <2>3 DEF SoundInv
<1>13. WalkInv'
  <2> SUFFICES ASSUME Tidy, job # NoJob PROVE WalkInv'
    BY <1>1, <1>8 DEF WalkInv
  <2>1. job.step = "reset" => ~LeftE5'
    BY <1>7 DEF SessionInv, WalkInv
  <2>2. ASSUME job.step = "ack", op # "none" PROVE AckIsLast'
    <3>1. AckIsLast
      BY <2>2 DEF SessionInv, WalkInv
    <3>2. ~HasE5(buf) /\ ~HasE5(line) /\ OnlyLastE5(s)
      BY <1>1, <1>4, <1>5, <3>1 DEF AckIsLast
    <3>3. outbox' # <<>> => ~HasE5(line')
      BY <1>1, <1>4, <1>5, <1>6, <3>1, <3>2 DEF AckIsLast
    <3>4. /\ \A i \in 1..Len(outbox') : i < Len(outbox') => ~HasE5(outbox'[i])
          /\ \A i \in 1..Len(outbox') : OnlyLastE5(outbox'[i])
      BY <1>1, <1>4, <3>1 DEF AckIsLast
    <3> QED
      BY <1>1, <1>6, <1>7, <1>9, <3>1, <3>2, <3>3, <3>4 DEF AckIsLast
  <2> QED
    BY <1>1, <1>9, <2>1, <2>2 DEF SessionInv, WalkInv
<1>14. ResultInv'
  BY <1>1, ResultKept DEF SessionInv
<1> QED
  BY <1>11, <1>12, <1>13, <1>14

\* Where the client's state, the slaves' and the operation's stay, a walk stands where
\* it stood.
LEMMA OutsideWalk ==
    ASSUME SessionInv, Tidy' => Tidy, line' \in {line, <<>>},
           UNCHANGED <<buf, op, at, ret, outbox, job, fcb, pos>>
    PROVE  WalkInv'
<1> SUFFICES ASSUME Tidy, job # NoJob PROVE WalkInv'
  BY DEF WalkInv
<1>1. HasE5(line') => HasE5(line)
  BY EmptySeq DEF HasE5
<1>2. OnlyLastE5(line) => OnlyLastE5(line')
  BY EmptySeq DEF OnlyLastE5
<1>3. LeftE5' => LeftE5
  BY <1>1 DEF LeftE5
<1>4. Heard' = Heard /\ Asked' = Asked /\ Restarted' = Restarted /\ Walking' = Walking
  BY DEF Heard, Asked, Restarted, Walking
<1>5. AckIsLast => AckIsLast'
  BY <1>1, <1>2, <1>3, <1>4 DEF AckIsLast
<1>6. /\ job.step = "reset" => ~LeftE5
      /\ job.step = "ack" /\ op # "none" => AckIsLast
      /\ job.step = "ack" /\ op = "none" /\ ret.err = {} => Restarted
      /\ job.step = "response" /\ op = "none" /\ ret.err = {} => Heard /\ ret.msg = Asked
      /\ \A i \in 1..Len(job.frames) : job.frames[i][1] = job.slave
      /\ Walking /\ job.slave \notin Endless =>
             job.frames = SoFar(job.slave, Len(job.frames))
      /\ Walking /\ job.step = "request" =>
             IF job.frames = <<>> THEN Restarted /\ job.lastFCB = 1
             ELSE /\ fcb[job.slave] = {job.lastFCB}
                  /\ job.slave \notin Endless =>
                         /\ pos[job.slave] = Len(job.frames)
                         /\ Len(job.frames) < Telegrams[job.slave]
  BY DEF SessionInv, WalkInv
<1>7. UNCHANGED <<op, ret, job, fcb, pos>>
  OBVIOUS
<1> QED
  BY <1>3, <1>4, <1>5, <1>6, <1>7 DEF WalkInv

\* A deadline waits for what is due, an ended context is no longer calm, and a
\* transport that failed is not read from again.
LEMMA OutsideKeeps ==
    ASSUME SessionInv, Deadline \/ Cancel \/ Break
    PROVE  CalmInv' /\ SoundInv' /\ WalkInv' /\ ResultInv'
<1>0. sound \in BOOLEAN /\ calm \in BOOLEAN
  BY DEF SessionInv, SessionTypeOK
<1>1. /\ UNCHANGED <<buf, op, at, ret, outbox, job, result, fcb, pos>>
      /\ calm' => calm
      /\ sound' => sound /\ Deadline
      /\ line' \in {line, <<>>}
  <2>1. CASE Deadline
    <3>1. sound' = (sound /\ Quiet) /\ calm' = calm
      BY <2>1 DEF Deadline
    <3>2. UNCHANGED <<buf, op, at, ret, outbox, job, result, fcb, pos, line>>
      BY <2>1 DEF Deadline, BusDeadline, DeadlinePasses, busVars, slaveVars
    <3> QED
      BY <1>0, <2>1, <3>1, <3>2
  <2>2. CASE Cancel
    BY <2>2 DEF Cancel, CtxEnds, slaveVars
  <2>3. CASE Break
    BY <2>3 DEF Break, ConnFails, slaveVars
  <2> QED
    BY <2>1, <2>2, <2>3
<1>2. WalkInv'
  <2>1. Tidy' => Tidy
    BY <1>1 DEF Tidy, Walking
  <2> QED
    BY <1>1, <2>1, OutsideWalk
<1>3. ResultInv'
  BY <1>1, ResultKept DEF SessionInv
<1>4. CASE Deadline
  <2>1. /\ UNCHANGED <<line, conn, ctx, calm>>
        /\ Prompt => Quiet
        /\ sound' = (sound /\ Quiet)
    BY <1>4 DEF Deadline, BusDeadline, DeadlinePasses
  <2>2. /\ Heard' = Heard /\ Asked' = Asked /\ Walking' = Walking /\ Quiet' = Quiet
        /\ LeftE5' = LeftE5 /\ (Blocked <=> Blocked') /\ (Dead <=> Dead')
    BY <1>1, <2>1 DEF Heard, Asked, Walking, Quiet, LeftE5, Blocked, Dead, Starved
  <2>3. /\ Fresh <=> Fresh'
        /\ Waiting => Waiting'
        /\ Clean => Clean'
    BY <1>1, <2>1, <2>2 DEF Fresh, Starved, Waiting, Clean
  <2>4. Arriving => Arriving'
    <3>1. \A n, m : Reply(n, m) => Reply(n, m)'
      BY <1>1, <2>1 DEF Reply
    <3>2. \A n : Reply(n, Asked) => Reply(n, Asked)'
      BY <2>2, <3>1
    <3> QED
      BY <1>1, <2>1, <2>2, <3>2 DEF Arriving, Starved
  <2>5. Coming => Coming'
    <3>1. Split(Asked) => Split(Asked)'
      BY <1>1, <2>1, <2>2 DEF Split
    <3> QED
      BY <1>1, <2>1, <2>2, <3>1 DEF Coming
  <2>6. Due => Due'
    BY <1>1, <2>3 DEF Due
  <2>7. Accounted => Accounted'
    BY <1>1, <2>2, <2>3, <2>4 DEF Accounted
  <2>8. SoundPlaces => SoundPlaces'
    BY <1>1, <2>2, <2>3, <2>5, <2>6 DEF SoundPlaces
  <2>9. CalmInv'
    BY <2>1, <2>2, <2>7 DEF SessionInv, CalmInv
  <2>10. SoundInv'
    <3>1. sound' => sound /\ Quiet'
      BY <1>0, <2>1, <2>2
    <3> QED
      BY <2>1, <2>2, <2>8, <3>1 DEF SessionInv, SoundInv
  <2> QED
    BY <1>2, <1>3, <2>9, <2>10
<1>5. CASE Cancel \/ Break
  <2>1. SoundInv'
    BY <1>1, <1>5 DEF SoundInv, Deadline, Cancel, Break, BusDeadline, DeadlinePasses
  <2>2. CalmInv'
    <3> SUFFICES ASSUME Prompt, calm' PROVE CalmInv'
      BY DEF CalmInv
    <3>0. Break
      <4>1. Cancel => calm' = FALSE
        BY DEF Cancel
      <4> QED
        BY <1>5, <4>1
    <3>1. /\ calm /\ ctx = "live" /\ (late => Quiet) /\ Accounted
          /\ conn = "up" /\ conn' # "up" /\ UNCHANGED <<ctx, late>>
      BY <1>1, <3>0 DEF SessionInv, CalmInv, Break, ConnFails, ConnErrors
    <3>2. /\ Heard' = Heard /\ Asked' = Asked
          /\ Quiet => Quiet'
      BY <1>1 DEF Heard, Asked, Walking, Quiet
    <3>3. Blocked => Blocked'
      BY <1>1 DEF Blocked
    <3>4. Fresh => Fresh'
      BY <1>1, <3>2 DEF Fresh, Starved
    <3>5. ~Dead
      BY <3>1 DEF Dead
    <3>6. Waiting => Waiting'
      BY <1>1, <3>2 DEF Waiting, Starved
    <3>7. ASSUME op = "ReadLongFrame", Arriving PROVE Arriving'
      <4>1. PICK n \in 0..Len(buf) : Reply(n, Asked)
        BY <3>7 DEF Arriving
      <4>2. job # NoJob /\ Asked \in Msg /\ ClientTypeOK
        BY <3>7, AskedLemma DEF SessionInv, SessionTypeOK
      <4>3. \A m \in Msg : Reply(n, m) => Reply(n, m)'
        BY <1>1, <4>2, ReplyBreaks
      <4>4. Reply(n, Asked)'
        BY <3>2, <4>1, <4>2, <4>3
      <4> QED
        BY <1>1, <3>2, <3>7, <4>4 DEF Arriving, Starved
    <3>8. Accounted'
      BY <1>1, <3>1, <3>3, <3>4, <3>5, <3>6, <3>7 DEF Accounted
    <3> QED
      BY <3>1, <3>2, <3>8 DEF CalmInv
  <2> QED
    BY <1>2, <1>3, <2>1, <2>2
<1> QED
  BY <1>4, <1>5

-----------------------------------------------------------------------------
(* The invariant                                                           *)

LEMMA InitSession == Init => SessionInv
<1> SUFFICES ASSUME Init PROVE SessionInv
  OBVIOUS
<1>1. SessionTypeOK
  BY InitSessionType
<1>2. /\ line = <<>> /\ buf = <<>> /\ outbox = <<>> /\ ctx = "live" /\ conn = "up"
      /\ ~late /\ job = NoJob /\ result = NoJob /\ op = "none"
  BY DEF Init, ClientInit, BusInit
<1>3. Fresh
  BY <1>2, EmptyIsStarved DEF Fresh, Quiet
<1> QED
  BY <1>1, <1>2, <1>3
     DEF SessionInv, HasRoom, CalmInv, Accounted, SoundInv, Walking, WalkInv, ResultInv,
         CalmFramesFromTheSlave, FramesFromTheSlave, WalkIsComplete, SoundWalkSucceeds,
         Returned

\* A step of a call: a turn of its loop, or the transport's answer to its Read.
LEMMA ReadKeeps ==
    ASSUME SessionInv, Read
    PROVE  CalmInv' /\ SoundInv' /\ WalkInv' /\ ResultInv'
<1>1. ResultInv'
  BY ResultKept DEF SessionInv, Read
<1>2. /\ op = "ReadSingleCharFrame" \/ op = "ReadLongFrame"
      /\ ClientStep
  BY ReadLemmaOfCall DEF SessionInv, SessionTypeOK
<1>3. CASE op = "ReadSingleCharFrame"
  BY <1>1, <1>3, SingleCharKeeps
<1>4. CASE op = "ReadLongFrame" /\ Look
  BY <1>1, <1>4, LongLookKeeps
<1>5. CASE op = "ReadLongFrame" /\ Fill
  BY <1>1, <1>5, LongFillKeeps
<1> QED
  BY <1>2, <1>3, <1>4, <1>5 DEF ClientStep

LEMMA NextSession == SessionInv /\ [Next]_vars => SessionInv'
<1> SUFFICES ASSUME SessionInv, [Next]_vars PROVE SessionInv'
  OBVIOUS
<1>1. SessionTypeOK'
  BY NextSessionType DEF SessionInv
<1>2. HasRoom'
  BY NextRoom DEF SessionInv
<1>3. CalmInv' /\ SoundInv' /\ WalkInv' /\ ResultInv'
  <2>1. ASSUME NEW kind \in Kinds, NEW s \in Slaves, StartJob(kind, s)
        PROVE  CalmInv' /\ SoundInv' /\ WalkInv' /\ ResultInv'
    BY <2>1, StartKeeps DEF SessionInv
  <2>2. CASE Master
    BY <2>2, ResetKeeps, ResetDoneKeeps, RequestKeeps, ResponseKeeps, TooManyKeeps,
       RefusedKeeps, FailedKeeps, ReadKeeps DEF Master
  <2>3. CASE Transmit
    BY <2>3, TransmitKeeps
  <2>4. CASE Deadline \/ Cancel \/ Break
    BY <2>4, OutsideKeeps
  <2>5. CASE UNCHANGED vars
    <3>1. /\ UNCHANGED <<line, buf, conn, ctx, op, at, late, ret>>
          /\ UNCHANGED <<outbox, job, result, fcb, pos, sound, calm>>
      BY <2>5 DEF vars, clientVars, busVars, slaveVars
    <3>2. /\ Walking' = Walking /\ Heard' = Heard /\ Asked' = Asked /\ Quiet' = Quiet
          /\ LeftE5' = LeftE5 /\ Blocked' = Blocked /\ Starved(buf)' = Starved(buf)
      BY <3>1 DEF Walking, Heard, Asked, Quiet, LeftE5, Blocked, Starved
    <3>3. Fresh' = Fresh /\ Dead' = Dead /\ Waiting' = Waiting /\ Clean' = Clean
      BY <3>1, <3>2 DEF Fresh, Dead, Waiting, Clean
    <3>4. (\E n \in 0..Len(buf) : Reply(n, Asked))' = (\E n \in 0..Len(buf) : Reply(n, Asked))
      BY <3>1, <3>2 DEF Reply
    <3>5. Split(Asked)' = Split(Asked)
      BY <3>1, <3>2 DEF Split
    <3>6. Arriving' = Arriving /\ Coming' = Coming /\ Due' = Due
      BY <3>1, <3>2, <3>3, <3>4, <3>5 DEF Arriving, Coming, Due
    <3>7. CalmInv'
      BY <3>1, <3>2, <3>3, <3>6 DEF SessionInv, CalmInv, Accounted
    <3>8. SoundInv'
      BY <3>1, <3>2, <3>3, <3>6 DEF SessionInv, SoundInv, SoundPlaces
    <3>9. WalkInv'
      <4>1. Tidy' => Tidy
        BY <3>1, <3>2 DEF Tidy
      <4> QED
        BY <3>1, <4>1, OutsideWalk
    <3> QED
      BY <3>1, <3>7, <3>8, <3>9, ResultKept DEF SessionInv
  <2> QED
    BY <2>1, <2>2, <2>3, <2>4, <2>5 DEF Next
<1> QED
  BY <1>1, <1>2, <1>3 DEF SessionInv

\* An operation waits in a call of the Client only where its code calls one, its slave's
\* position is one of its telegrams, and ReadLongFrame returns an error or a long frame.
THEOREM SessionTypeCorrect == Spec => []SessionTypeOK
<1>1. Init => SessionTypeOK
  BY InitSessionType
<1>2. SessionTypeOK /\ [Next]_vars => SessionTypeOK'
  BY NextSessionType
<1> QED
  BY <1>1, <1>2, PTL DEF Spec

\* Where slaves answer within the deadline and no context ends under a call,
\* ReadSingleFrame and ReadAllFrames return frames of the slave they asked and of no
\* other (gombus.go 144, 201), whatever was lost or damaged and whatever earlier calls
\* that timed out or refused a frame left in the buffer.
THEOREM CalmReadsAreOfTheSlave == Prompt => (Spec => []CalmFramesFromTheSlave)
<1> SUFFICES ASSUME Prompt PROVE Spec => []CalmFramesFromTheSlave
  OBVIOUS
<1>1. SessionInv => CalmFramesFromTheSlave
  BY DEF SessionInv, ResultInv
<1> QED
  BY <1>1, InitSession, NextSession, PTL DEF Spec

\* Under the same conditions, a walk that succeeds returns every telegram of its slave
\* once and in order: the frame count bit neither skips nor repeats one
\* (gombus.go 167-200).
THEOREM CalmWalkIsComplete == Prompt => (Spec => []WalkIsComplete)
<1> SUFFICES ASSUME Prompt PROVE Spec => []WalkIsComplete
  OBVIOUS
<1>1. SessionInv => WalkIsComplete
  BY DEF SessionInv, ResultInv
<1> QED
  BY <1>1, InitSession, NextSession, PTL DEF Spec

\* No walk holds more than MaxFramesPerRead frames, and none of a slave that always
\* reports more ends in success.
THEOREM CalmWalkIsBounded == Prompt => (Spec => []WalkIsBounded)
<1> SUFFICES ASSUME Prompt PROVE Spec => []WalkIsBounded
  OBVIOUS
<1>1. SessionInv => WalkIsBounded
  BY DEF SessionInv, HasRoom, ResultInv, WalkIsBounded
<1> QED
  BY <1>1, InitSession, NextSession, PTL DEF Spec

\* Where the frames are legal, a walk of a readable slave that begins on a quiet bus
\* with no E5h left over and that no fault, deadline or context hits succeeds, whatever
\* other bytes are in the buffer: the wait for the acknowledgement of the link reset
\* drops them (read.go 125-127).  How fast the slaves are does not matter.
THEOREM SoundWalksSucceed == Legal => (Spec => []SoundWalkSucceeds)
<1> SUFFICES ASSUME Legal PROVE Spec => []SoundWalkSucceeds
  OBVIOUS
<1>1. SessionInv => SoundWalkSucceeds
  BY DEF SessionInv, ResultInv
<1> QED
  BY <1>1, InitSession, NextSession, PTL DEF Spec

=============================================================================
