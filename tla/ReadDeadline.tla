---------------------------- MODULE ReadDeadline ----------------------------
(***************************************************************************)
(* The time a frame read takes: the deadline of a call, the polls of fill, *)
(* and the transport's way of keeping a deadline.  A net.Conn keeps an     *)
(* absolute one; serialConn turns it into a timeout that starts anew with  *)
(* each Read, where -1 means none and any other negative one is refused; a *)
(* third kind of transport takes no notice and returns at once.            *)
(*                                                                         *)
(* Time passes in Tick, between any two statements too; what passes while  *)
(* the call is neither in a Read nor asleep is counted in stalled.         *)
(***************************************************************************)
EXTENDS Integers

CONSTANTS
    Transports,         \* of "tcp", "serial" and "heedless"
    frameReadTimeout,
    readPollInterval,
    silentReadBackoff,
    CtxTimeouts,        \* from the start of a call to its context's deadline
    MaxCalls,           \* bound: calls
    MaxStall            \* bound: the time one call can be kept from running

ASSUME ReadDeadlineAssumption ==
    /\ Transports \subseteq {"tcp", "serial", "heedless"}
    /\ frameReadTimeout \in Nat \ {0}
    /\ readPollInterval \in Nat \ {0}
    /\ silentReadBackoff \in Nat \ {0}
    /\ CtxTimeouts \subseteq Int
    /\ MaxCalls \in Nat /\ MaxStall \in Nat

VARIABLES
    transport,
    now,
    at,         \* idle, or the statement of fill that is next
    deadline,   \* of the call
    until,      \* of the Read that is next
    armed,      \* the deadline or the timeout the transport holds
    wake,       \* when the Read or the sleep in progress is over
    taken,      \* the instant up to which bytes have been read
    ctx,        \* alive or ended
    ret,        \* how the last call returned
    calls,
    begun,      \* history: when the call began,
    stalled,    \* the time it could not run,
    endedAt     \* and when its context ended, less the time stalled

callVars == <<deadline, ctx, begun, calls>>
vars == <<transport, now, at, until, armed, wake, taken, ret, stalled, endedAt, callVars>>

\* serial.NoTimeout, time.Time{}, and a Read that nothing ends but data.
None == -1

Earlier(s, t) == IF s < t THEN s ELSE t

Init ==
    /\ transport \in Transports
    /\ now = 0 /\ at = "idle" /\ calls = 0
    /\ deadline = 0 /\ until = 0 /\ armed = None /\ wake = None /\ taken = -1
    /\ ctx = "alive" /\ ret = "none"
    /\ begun = 0 /\ stalled = 0 /\ endedAt = 0

-----------------------------------------------------------------------------
(* The call                                                                *)

\* frameDeadline, with the context's deadline if it has one.
FrameDeadlines ==
    {now + frameReadTimeout}
        \cup {Earlier(now + t, now + frameReadTimeout) : t \in CtxTimeouts}

Begin ==
    /\ at = "idle" /\ calls < MaxCalls
    /\ deadline' \in FrameDeadlines
    /\ at' = "check" /\ ret' = "none" /\ calls' = calls + 1
    /\ begun' = now /\ stalled' = 0
    /\ ctx' = "alive" /\ endedAt' = now
    /\ UNCHANGED <<transport, now, until, armed, wake, taken>>

\* The call returns, and clears the deadline it has set.
Return(r) ==
    /\ at' = "idle"
    /\ ret' = r
    /\ armed' = None

Check ==
    /\ at = "check"
    /\ \/ /\ ctx = "ended"
          /\ Return("ctx")
       \/ /\ ctx = "alive" /\ now >= deadline
          /\ Return("timeout")
       \/ /\ ctx = "alive" /\ now < deadline
          /\ at' = "arm"
          /\ UNCHANGED <<ret, armed>>
    /\ UNCHANGED <<transport, now, until, wake, taken, stalled, endedAt, callVars>>

\* Mutant: a poll is not cut to the deadline.
ArmWhole ==
    /\ at = "arm"
    /\ until' = now + readPollInterval
    /\ at' = "set"
    /\ UNCHANGED <<transport, now, armed, wake, taken, ret, stalled, endedAt, callVars>>

Arm ==
    /\ at = "arm"
    /\ until' = Earlier(now + readPollInterval, deadline)
    /\ at' = "set"
    /\ UNCHANGED <<transport, now, armed, wake, taken, ret, stalled, endedAt, callVars>>

\* Mutant: the time left is not raised to zero when it is gone.
TimeLeftRaw(t) == t - now

\* serialConn.SetReadDeadline: time.Until, and zero for a time that is past.
TimeLeft(t) == IF t - now < 0 THEN 0 ELSE t - now

\* The library's SetReadTimeout.
Refused(timeout) == timeout < 0 /\ timeout # None

SetReadDeadline ==
    /\ at = "set"
    /\ \/ /\ transport = "serial" /\ Refused(TimeLeft(until))
          /\ Return("refused")
       \/ /\ transport = "serial" /\ ~Refused(TimeLeft(until))
          /\ armed' = TimeLeft(until)
          /\ at' = "read"
          /\ UNCHANGED ret
       \/ /\ transport # "serial"
          /\ armed' = until
          /\ at' = "read"
          /\ UNCHANGED ret
    /\ UNCHANGED <<transport, now, until, wake, taken, stalled, endedAt, callVars>>

\* When a Read that starts now is over if nothing arrives.
ReadOver ==
    IF armed = None THEN None
    ELSE IF transport = "tcp" THEN armed
    ELSE IF transport = "serial" THEN now + armed
    ELSE now

Read ==
    /\ at = "read"
    /\ wake' = ReadOver
    /\ at' = "reading"
    /\ UNCHANGED <<transport, taken, now, until, armed, ret, stalled, endedAt, callVars>>

\* Bytes, with which the frame is complete or not.  The bytes that had come by
\* the last Read are read: these are later ones.
GotBytes ==
    /\ at = "reading" /\ taken < now
    /\ taken' = now
    /\ \/ Return("frame")
       \/ at' = "check" /\ UNCHANGED <<ret, armed>>
    /\ UNCHANGED <<transport, now, until, wake, stalled, endedAt, callVars>>

\* An error that is no timeout.
GotError ==
    /\ at = "reading"
    /\ Return("failed")
    /\ UNCHANGED <<transport, now, until, wake, taken, stalled, endedAt, callVars>>

Over == wake # None /\ now >= wake

\* Mutant: a transport that says (0, nil) is read again without a look at the
\* deadline.
GotNothingRetries ==
    /\ at = "reading" /\ Over
    /\ at' = "read"
    /\ UNCHANGED <<transport, now, until, armed, wake, taken, ret, stalled, endedAt, callVars>>

\* An error that isTimeout, or (0, nil), after which fill sleeps.
GotNothing ==
    /\ at = "reading" /\ Over
    /\ \/ /\ transport = "tcp"
          /\ at' = "check"
          /\ UNCHANGED wake
       \/ /\ transport # "tcp"
          /\ at' = "sleep"
          /\ wake' = now + silentReadBackoff
    /\ UNCHANGED <<transport, taken, now, until, armed, ret, stalled, endedAt, callVars>>

Awake ==
    /\ at = "sleep" /\ Over
    /\ at' = "check"
    /\ UNCHANGED <<transport, now, until, armed, wake, taken, ret, stalled, endedAt, callVars>>

Step ==
    \/ Check \/ Arm \/ SetReadDeadline \/ Read
    \/ GotBytes \/ GotError \/ GotNothing \/ Awake

-----------------------------------------------------------------------------
(* The rest of the world                                                   *)

\* The context is cancelled, or its timer fires.
CtxEnds ==
    /\ at # "idle" /\ ctx = "alive"
    /\ ctx' = "ended"
    /\ endedAt' = now - stalled
    /\ UNCHANGED <<transport, now, at, deadline, until, armed, wake, taken, ret, calls, begun, stalled>>

Waiting == at \in {"reading", "sleep"} /\ ~Over

Tick ==
    /\ at # "idle"
    /\ now' = now + 1
    /\ \/ Waiting /\ UNCHANGED stalled
       \/ ~Waiting /\ stalled < MaxStall /\ stalled' = stalled + 1
    /\ UNCHANGED <<transport, at, until, armed, wake, taken, ret, endedAt, callVars>>

Next == Begin \/ Step \/ CtxEnds \/ Tick

\* The goroutine runs, a Read or a sleep that is over returns, and time passes:
\* also while bytes come, each of which takes its time on the line.
Spec ==
    /\ Init /\ [][Next]_vars
    /\ WF_vars(Step)
    /\ SF_vars(Tick)

-----------------------------------------------------------------------------
TypeOK ==
    /\ transport \in Transports
    /\ now \in Nat
    /\ at \in {"idle", "check", "arm", "set", "read", "reading", "sleep"}
    /\ deadline \in Int /\ until \in Int
    /\ armed \in Int /\ wake \in Int /\ taken \in Int
    /\ at = "read" => armed \in Nat
    /\ ctx \in {"alive", "ended"}
    /\ ret \in {"none", "ctx", "timeout", "frame", "failed", "refused"}
    /\ calls \in 0..MaxCalls
    /\ begun \in Nat /\ endedAt \in Int
    /\ stalled \in 0..MaxStall

\* A deadline that was past when the call began is as one that came then.
Limit == IF deadline < begun THEN begun ELSE deadline

\* But for the time it was kept from running, a call is over by its deadline
\* and one backoff, however slowly bytes drip in, and by one poll and one
\* backoff after its context has ended, on every transport (read.go 26-39).
NoOverwait == at # "idle" =>
    /\ now - stalled <= Limit + silentReadBackoff
    /\ ctx = "ended" => now - stalled <= endedAt + readPollInterval + silentReadBackoff

\* A timeout is reported only when the deadline has come, the end of the context
\* only when it has, and no deadline is one that the transport refuses
\* (serial.go 40-43).
ReturnsAreTrue == at = "idle" =>
    /\ ret = "timeout" => now >= deadline
    /\ ret = "ctx" => ctx = "ended"
    /\ ret # "refused"

\* Every read returns, also where nothing ever arrives (serial.go 42-43).
CallEnds == at # "idle" ~> at = "idle"

=============================================================================
