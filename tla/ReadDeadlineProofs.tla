------------------------- MODULE ReadDeadlineProofs -------------------------
(***************************************************************************)
(* For all timeouts, contexts and stalls: a read is over in time, and what *)
(* it returns is true.  The inductive invariant InTime says of each        *)
(* statement of fill how late it can be.  It is stated for the time the    *)
(* call has run, which no stall moves, and, where the call waits, for the  *)
(* instant it waits for.                                                   *)
(***************************************************************************)
EXTENDS ReadDeadline, TLAPS

\* The time as the call has seen it.
Ran == now - stalled

\* What the call waits for comes by t, and it has not run for longer.
OverBy(t) ==
    /\ Ran <= t
    /\ now < wake => wake - stalled <= t

\* An armed Read is over within d of now.
ArmedWithin(d) ==
    /\ transport = "tcp" => armed - now <= d
    /\ transport = "serial" => armed <= d

\* Where fill stands, as to the deadline.
InTimeForDeadline ==
    /\ at = "check" => Ran <= Limit + silentReadBackoff
    /\ at \in {"arm", "set", "read", "reading"} => Ran <= Limit
    /\ at = "set" => until <= Limit
    /\ at = "read" /\ transport = "tcp" => armed <= Limit
    /\ at = "read" /\ transport = "serial" => armed <= Limit - Ran
    /\ at = "reading" => OverBy(Limit)
    /\ at = "sleep" => OverBy(Limit + silentReadBackoff)

\* And as to the end of the context, which comes at any of its statements.
InTimeForContext ==
    /\ at = "set" => until <= now + readPollInterval
    /\ at = "read" => ArmedWithin(readPollInterval)
    /\ at = "reading" => wake <= now + readPollInterval \/ wake <= now
    /\ at = "sleep" => wake <= now + silentReadBackoff \/ wake <= now
    /\ ctx = "ended" /\ at = "check" =>
         Ran <= endedAt + readPollInterval + silentReadBackoff
    /\ ctx = "ended" /\ at \in {"arm", "set", "read"} => Ran <= endedAt
    /\ ctx = "ended" /\ at = "reading" => OverBy(endedAt + readPollInterval)
    /\ ctx = "ended" /\ at = "sleep" =>
         OverBy(endedAt + readPollInterval + silentReadBackoff)

\* A Read is armed, and with a time that is not before the first.
Armed ==
    /\ at \in {"arm", "set"} => deadline \in Nat
    /\ at = "set" => until \in Nat
    /\ at \in {"reading", "sleep"} => wake \in Nat
    /\ ret # "refused"

InTime ==
    /\ TypeOK /\ Armed /\ ReturnsAreTrue
    /\ InTimeForDeadline /\ InTimeForContext

-----------------------------------------------------------------------------
LEMMA Intervals ==
    /\ silentReadBackoff \in Int /\ silentReadBackoff > 0
    /\ readPollInterval \in Int /\ readPollInterval > 0
  BY ReadDeadlineAssumption

LEMMA InitInTime ==
    ASSUME Init
    PROVE  InTime
<1>1. TypeOK
  BY ReadDeadlineAssumption
     DEF Init, None, InTime, Armed, TypeOK
<1>2. Armed
  BY ReadDeadlineAssumption
     DEF Init, None, InTime, TypeOK, Armed
<1>3. ReturnsAreTrue
  BY ReadDeadlineAssumption
     DEF Init, None, InTime, TypeOK, Armed, ReturnsAreTrue
<1>4. InTimeForDeadline
  BY ReadDeadlineAssumption
     DEF Init, None, InTime, TypeOK, Armed, OverBy, ArmedWithin, Ran, Limit,
         InTimeForDeadline
<1>5. InTimeForContext
  BY ReadDeadlineAssumption
     DEF Init, None, InTime, TypeOK, Armed, OverBy, ArmedWithin, Ran,
         InTimeForContext
<1> QED
  BY <1>1, <1>2, <1>3, <1>4, <1>5 DEF InTime

\* A deadline is not before the start of its call, or counts as if it were.
LEMMA BeginInTime ==
    ASSUME InTime, Begin
    PROVE  InTime'
<1>0. deadline' \in Int /\ now \in Nat
  BY ReadDeadlineAssumption DEF InTime, TypeOK, Begin, FrameDeadlines, Earlier
<1>1. TypeOK'
  BY <1>0, ReadDeadlineAssumption
     DEF Begin, InTime, Armed, TypeOK
<1>2. Armed'
  BY <1>0, ReadDeadlineAssumption
     DEF Begin, InTime, TypeOK, Armed
<1>3. ReturnsAreTrue'
  BY <1>0, ReadDeadlineAssumption
     DEF Begin, InTime, TypeOK, Armed, ReturnsAreTrue
<1>4. InTimeForDeadline'
  <2>1. Ran' <= Limit' + silentReadBackoff
    <3>1. Ran' = now /\ Limit' \in Int
      BY <1>0 DEF Begin, Ran, Limit
    <3>2. Ran' <= Limit'
      BY <1>0 DEF Begin, Ran, Limit
    <3>3. \A r, l, b \in Int : r <= l /\ b > 0 => r <= l + b
      OBVIOUS
    <3>4. Ran' \in Int
      BY <1>0, <3>1
    <3> QED
      BY <3>1, <3>2, <3>3, <3>4, Intervals, Zenon
  <2>2. at' = "check"
    BY DEF Begin
  <2> QED
    BY <2>1, <2>2 DEF InTimeForDeadline
<1>5. InTimeForContext'
  BY <1>0, ReadDeadlineAssumption
     DEF Begin, InTime, TypeOK, Armed, OverBy, ArmedWithin, Ran,
         InTimeForContext
<1> QED
  BY <1>1, <1>2, <1>3, <1>4, <1>5 DEF InTime

LEMMA StepInTime ==
    ASSUME InTime, Step
    PROVE  InTime'
<1>1. CASE Check
  BY <1>1, ReadDeadlineAssumption
     DEF Check, Return, None, callVars, InTime, InTimeForDeadline,
         InTimeForContext, OverBy, ArmedWithin, Armed, Ran, Limit, TypeOK,
         ReturnsAreTrue
<1>2. CASE Arm
  BY <1>2, ReadDeadlineAssumption
     DEF Arm, Earlier, callVars, InTime, InTimeForDeadline, InTimeForContext,
         OverBy, ArmedWithin, Armed, Ran, Limit, TypeOK, ReturnsAreTrue
<1>3. CASE SetReadDeadline
  BY <1>3, ReadDeadlineAssumption
     DEF SetReadDeadline, TimeLeft, Refused, Return, None, callVars, InTime,
         InTimeForDeadline, InTimeForContext, OverBy, ArmedWithin, Armed, Ran,
         Limit, TypeOK, ReturnsAreTrue
<1>4. CASE Read
  BY <1>4, ReadDeadlineAssumption
     DEF Read, ReadOver, None, callVars, InTime, InTimeForDeadline,
         InTimeForContext, OverBy, ArmedWithin, Armed, Ran, Limit, TypeOK,
         ReturnsAreTrue
<1>5. CASE GotBytes
  BY <1>5, ReadDeadlineAssumption
     DEF GotBytes, Return, None, callVars, InTime, InTimeForDeadline,
         InTimeForContext, OverBy, ArmedWithin, Armed, Ran, Limit, TypeOK,
         ReturnsAreTrue
<1>6. CASE GotError
  BY <1>6, ReadDeadlineAssumption
     DEF GotError, Return, None, callVars, InTime, InTimeForDeadline,
         InTimeForContext, OverBy, ArmedWithin, Armed, Ran, Limit, TypeOK,
         ReturnsAreTrue
<1>7. CASE GotNothing
  BY <1>7, ReadDeadlineAssumption
     DEF GotNothing, Over, None, callVars, InTime, InTimeForDeadline,
         InTimeForContext, OverBy, ArmedWithin, Armed, Ran, Limit, TypeOK,
         ReturnsAreTrue
<1>8. CASE Awake
  BY <1>8, ReadDeadlineAssumption
     DEF Awake, Over, None, callVars, InTime, InTimeForDeadline,
         InTimeForContext, OverBy, ArmedWithin, Armed, Ran, Limit, TypeOK,
         ReturnsAreTrue
<1> QED
  BY <1>1, <1>2, <1>3, <1>4, <1>5, <1>6, <1>7, <1>8 DEF Step

LEMMA WorldInTime ==
    ASSUME InTime, CtxEnds \/ Tick
    PROVE  InTime'
<1>1. CASE CtxEnds
  BY <1>1, ReadDeadlineAssumption
     DEF CtxEnds, callVars, InTime, InTimeForDeadline, InTimeForContext,
         OverBy, ArmedWithin, Armed, Ran, Limit, TypeOK, ReturnsAreTrue
<1>2. CASE Tick
  <2>1. CASE Waiting
    <3>1. /\ TypeOK' /\ Armed' /\ ReturnsAreTrue'
          /\ Ran' = Ran + 1 /\ Limit' = Limit /\ now' = now + 1
          /\ at \in {"reading", "sleep"} /\ now < wake
          /\ UNCHANGED <<transport, at, until, armed, wake, stalled, endedAt, ctx>>
      BY <1>2, <2>1, ReadDeadlineAssumption
         DEF Tick, Waiting, Over, None, callVars, InTime, TypeOK, Armed,
             ReturnsAreTrue, Ran, Limit
    <3>2. Ran + 1 <= wake - stalled
      BY <3>1 DEF Ran, InTime, TypeOK
    <3>3. \A t \in Int : OverBy(t) => OverBy(t)'
      BY <3>1, <3>2 DEF OverBy, Ran, InTime, TypeOK
    <3>4. Limit \in Int /\ Limit + silentReadBackoff \in Int
      BY ReadDeadlineAssumption DEF Limit, InTime, TypeOK
    <3>5. InTimeForDeadline'
      BY <3>1, <3>3, <3>4, ReadDeadlineAssumption
         DEF InTime, TypeOK, InTimeForDeadline, OverBy
    <3>6. InTimeForContext'
      BY <3>1, <3>2, ReadDeadlineAssumption
         DEF InTime, TypeOK, InTimeForContext, OverBy
    <3> QED
      BY <3>1, <3>5, <3>6 DEF InTime
  <2>2. CASE ~Waiting
    <3>1. /\ TypeOK' /\ Armed' /\ ReturnsAreTrue'
          /\ Ran' = Ran /\ Ran \in Int /\ Limit' = Limit /\ now' = now + 1
          /\ UNCHANGED <<transport, at, until, armed, wake, endedAt, ctx>>
      BY <1>2, <2>2, ReadDeadlineAssumption
         DEF Tick, callVars, InTime, TypeOK, Armed, ReturnsAreTrue, Ran, Limit
    <3>2. at \in {"reading", "sleep"} => wake <= now
      BY <2>2 DEF Waiting, Over, None, InTime, TypeOK
    <3>3. InTimeForDeadline'
      BY <3>1, <3>2 DEF InTime, TypeOK, InTimeForDeadline, OverBy
    <3>4. InTimeForContext'
      <4>1. CASE at = "read"
        <5>1. ArmedWithin(readPollInterval)'
          BY <3>1, <4>1, Intervals DEF InTime, TypeOK, InTimeForContext, ArmedWithin
        <5> QED
          BY <3>1, <4>1, <5>1 DEF InTime, InTimeForContext
      <4>2. CASE at \in {"reading", "sleep"}
        <5>1. \A t \in Int : OverBy(t) => OverBy(t)'
          <6>1. Ran' = Ran /\ wake <= now'
            BY <3>1, <3>2, <4>2 DEF InTime, TypeOK, Armed
          <6>2. ~(now' < wake')
            BY <3>1, <6>1 DEF InTime, TypeOK
          <6> QED
            BY <6>1, <6>2 DEF OverBy
        <5>2. wake <= now'
          BY <3>1, <3>2, <4>2 DEF InTime, TypeOK, Armed
        <5>3. /\ endedAt + readPollInterval \in Int
              /\ endedAt + readPollInterval + silentReadBackoff \in Int
          BY Intervals DEF InTime, TypeOK
        <5> QED
          BY <3>1, <4>2, <5>1, <5>2, <5>3 DEF InTime, InTimeForContext
      <4>3. CASE at \notin {"read", "reading", "sleep"}
        BY <3>1, <4>3, ReadDeadlineAssumption DEF InTime, TypeOK, InTimeForContext
      <4> QED
        BY <4>1, <4>2, <4>3
    <3> QED
      BY <3>1, <3>3, <3>4 DEF InTime
  <2> QED
    BY <2>1, <2>2
<1> QED
  BY <1>1, <1>2

LEMMA AlwaysInTime == Spec => []InTime
<1>1. InTime /\ [Next]_vars => InTime'
  <2>1. InTime /\ UNCHANGED vars => InTime'
    BY DEF vars, callVars, InTime, InTimeForDeadline, InTimeForContext, OverBy, ArmedWithin, Armed, Ran, Limit,
           TypeOK, ReturnsAreTrue
  <2> QED
    BY <2>1, BeginInTime, StepInTime, WorldInTime DEF Next
<1> QED
  BY <1>1, InitInTime, PTL DEF Spec

-----------------------------------------------------------------------------
\* Every Read is armed with a time that is not negative: none waits for ever
\* (serialConn.SetReadDeadline).
THEOREM ReadsAreArmed == Spec => []TypeOK
<1>1. InTime => TypeOK
  BY DEF InTime
<1> QED
  BY <1>1, AlwaysInTime, PTL

\* Whatever the timeouts, a call is over by its deadline and one backoff, and by
\* one poll and one backoff after the end of its context (fill).
THEOREM NoCallOverwaits == Spec => []NoOverwait
<1>1. InTime => NoOverwait
  BY ReadDeadlineAssumption
     DEF NoOverwait, InTime, InTimeForDeadline, InTimeForContext, OverBy,
         ArmedWithin, Armed, Ran, Limit, TypeOK, ReturnsAreTrue
<1> QED
  BY <1>1, AlwaysInTime, PTL

\* A timeout is never reported early, the end of a context never while it is
\* alive, and the transport never refuses a deadline (fill, SetReadDeadline).
THEOREM WhatReturnsIsTrue == Spec => []ReturnsAreTrue
<1>1. InTime => ReturnsAreTrue
  BY DEF InTime
<1> QED
  BY <1>1, AlwaysInTime, PTL

=============================================================================
