--------------------------- MODULE ScanSecondary ---------------------------
(***************************************************************************)
(* Client.ScanSecondary: the search that fixes identification numbers one  *)
(* digit at a time.  The recursion of scanSecondaryDigit is the mask: its  *)
(* i-th digit is the loop variable of the i-th call on the stack.          *)
(***************************************************************************)
EXTENDS Selection

CONSTANTS
    Headless,           \* the meters whose answer has no readable identification header
    secondaryDigits,    \* digits of an identification number (8 in the code)
    MaxDigit            \* the last value of a digit (9 in the code)

ASSUME ScanSecondaryAssumption ==
    /\ Headless \subseteq Meters
    /\ secondaryDigits \in Nat \ {0}
    /\ MaxDigit \in Nat
    /\ \A m \in Meters : Id[m] \in [1..secondaryDigits -> 0..MaxDigit]

VARIABLES
    step,    \* about to send, or waiting for, a selection or the selected
             \* meter's data; or the search is over
    mask,    \* the digits fixed
    found,   \* the meters found, in the order the search reached them
    err,     \* what ScanSecondary returned
    clean    \* history variable: each probe so far ended with nothing on the line

scanVars == <<step, mask, found, err, clean>>
vars == <<clientVars, busVars, selected, scanVars>>

Init ==
    /\ ClientInit
    /\ BusInit
    /\ selected = {}
    /\ step = "select"
    /\ mask = <<0>>
    /\ found = <<>>
    /\ err = {}
    /\ clean = TRUE

At(s) == step = s /\ op = "none"

clientButBuf == <<line, conn, ctx, op, at, late, ret>>

-----------------------------------------------------------------------------
\* The digits that still have a value to try, by position.
Open == {i \in 1..Len(mask) : mask[i] < MaxDigit}

\* The loop of the innermost call goes on to its next digit, or, the loops that
\* are through having returned, that of an outer one does; or all are through.
NextDigit ==
    IF Open = {}
    THEN /\ step' = "over"
         /\ mask' = <<>>
    ELSE LET i == CHOOSE i \in Open : \A j \in Open : j <= i IN
         /\ step' = "select"
         /\ mask' = [SubSeq(mask, 1, i) EXCEPT ![i] = @ + 1]

\* Mutant: the last digit is never fixed.
NarrowShort ==
    IF Len(mask) >= secondaryDigits - 1 THEN NextDigit
    ELSE /\ step' = "select"
         /\ mask' = Append(mask, 0)

\* narrowSecondary: one digit deeper, unless all are fixed.
Narrow ==
    IF Len(mask) >= secondaryDigits THEN NextDigit
    ELSE /\ step' = "select"
         /\ mask' = Append(mask, 0)

Abort(e) ==
    /\ step' = "over"
    /\ err' = e
    /\ found' = <<>>
    /\ UNCHANGED mask

Select ==
    /\ At("select")
    /\ SendSelect(mask)
    /\ step' = "selecting"
    /\ UNCHANGED <<ctx, mask, found, err, clean>>

Selected ==
    /\ At("selecting")
    /\ \/ Responded /\ step' = "request" /\ UNCHANGED <<mask, found, err>>
       \/ Silent /\ NextDigit /\ UNCHANGED <<found, err>>
       \/ Collision /\ Narrow /\ UNCHANGED <<found, err>>
       \/ SelectFailed /\ Abort(ret.err)
    /\ UNCHANGED <<clientButBuf, busVars, selected, clean>>

\* readSecondaryAddress: REQ_UD2 to 0xFD.
Request ==
    /\ At("request")
    /\ CanWrite
    /\ Call("probeSilence")
    /\ step' = "requesting"
    /\ \/ Answers(Data(selected)) /\ UNCHANGED faults
       \/ Fault /\ UNCHANGED outbox
    /\ UNCHANGED <<ctx, selected, mask, found, err, clean>>

\* Mutant: the search goes deeper below a mask that named its meter.
RequestedGoesDeeper ==
    /\ At("requesting")
    /\ \/ /\ ret.err = {} \/ isBusNoise(ret.err)
          /\ found' = IF ret.err = {} /\ ret.msg \in Meters \ Headless
                      THEN Append(found, ret.msg) ELSE found
          /\ Narrow
          /\ UNCHANGED err
       \/ /\ ret.err # {} /\ ~isBusNoise(ret.err)
          /\ Abort(ret.err)
    /\ UNCHANGED <<clientVars, busVars, selected, clean>>

\* What secondaryFromHeader refuses with ErrInvalidFrame: an E5h, which is too short,
\* and a long frame that is too short or names no number.
HeaderRefused == {Ack} \cup Headless

\* An answer that is refused is, like noise, taken for more than one slave selected.
Requested ==
    /\ At("requesting")
    /\ \/ /\ ret.err = {} /\ ret.msg \in Meters \ Headless
          /\ found' = Append(found, ret.msg)
          /\ NextDigit
          /\ UNCHANGED err
       \/ /\ (ret.err = {} /\ ret.msg \in HeaderRefused) \/ isBusNoise(ret.err)
          /\ Narrow
          /\ UNCHANGED <<found, err>>
       \/ /\ ret.err # {} /\ ~isBusNoise(ret.err)
          /\ Abort(ret.err)
    /\ UNCHANGED <<clientVars, busVars, selected, clean>>

WriteRefused ==
    /\ At("select") \/ At("request")
    /\ MayRefuse
    /\ Abort(WriteError)
    /\ UNCHANGED <<clientVars, busVars, selected, clean>>

Read ==
    /\ BusStep
    /\ clean' = (clean /\ (op' = "none" => line' = <<>>))
    /\ UNCHANGED <<selected, step, mask, found, err>>

Master == Select \/ Selected \/ Request \/ Requested \/ WriteRefused \/ Read

-----------------------------------------------------------------------------
Transmit ==
    /\ TransmitWhole \/ TransmitDamaged
    /\ UNCHANGED <<selected, scanVars>>

Deadline ==
    /\ BusDeadline
    /\ UNCHANGED <<selected, scanVars>>

Cancel ==
    /\ step # "over"
    /\ CtxEnds
    /\ UNCHANGED <<busVars, selected, scanVars>>

Break ==
    /\ step # "over"
    /\ ConnFails
    /\ UNCHANGED <<busVars, selected, scanVars>>

Next == Master \/ Transmit \/ Deadline \/ Cancel \/ Break

Fairness == WF_vars(Master) /\ WF_vars(Transmit) /\ WF_vars(Deadline)

Spec == Init /\ [][Next]_vars /\ Fairness

-----------------------------------------------------------------------------
Found == {found[i] : i \in 1..Len(found)}

Twin(m) == \E n \in Meters \ {m} : Id[n] = Id[m]

\* The search returns no meter twice, as long as no probe returned before its answer
\* had all been read.
FoundOnce == clean => Cardinality(Found) = Len(found)

\* So long, too, a meter is found under a mask it matches: its data is not that of an
\* earlier selection.
FoundUnderItsMask ==
    [][found' # found /\ err' = {} /\ clean => Matches(mask, found'[Len(found')])]_vars

\* A search that ends well on a sound bus has found every meter that has an
\* identification number of its own and tells it (scan.go 136-149).
FindsAll ==
    step = "over" /\ err = {} /\ faults = 0 /\ ctx = "live" /\ conn = "up" =>
        {m \in Meters \ Headless : ~Twin(m)} \subseteq Found

\* The part of it that the code keeps, whatever cuts a Read makes before a probe
\* returns.
SoundSearchFindsAll == clean => FindsAll

\* The search ends.
SearchEnds == <>(step = "over")

=============================================================================
