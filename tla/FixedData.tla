----------------------------- MODULE FixedData -----------------------------
(***************************************************************************)
(* decode_fixed.go: the fixed data response, two counters at fixed places  *)
(* and a unit table of its own.                                            *)
(***************************************************************************)
EXTENDS Units

fixedMinFrameLen == 25
fixedUnitSameHistoric == \h3E

fixedMediumCodes ==
    <<\h00, \h01, \h02, \h03, \h04, \h05, \h06, \h07, \h08, \h0F,
      \h03, \h04, \h06, \h07, \h08, \h0F>>

\* The low half of the medium is on top of the first unit byte, the high half
\* on top of the second.
fixedMedium(unit1, unit2) == fixedMediumCodes[(unit1 \div 64) + (unit2 \div 64) * 4 + 1]

fixedUnitNone == Plain(One, "none", 0)

fixedUnitTable ==
    Decades(\h00, \h00, 0, "time", 0) \cup Decades(\h01, \h01, 0, "date", 0)
    \cup Decades(\h02, \h0A, 0, "WH", \h07) \cup Decades(\h0B, \h13, 3, "J", \h0F)
    \cup Decades(\h14, \h1C, 0, "W", \h2F) \cup Decades(\h1D, \h25, 3, "J/h", \h37)
    \cup Decades(\h26, \h2E, -6, "m^3", \h17) \cup Decades(\h2F, \h37, -6, "m^3/h", \h3F)
    \cup Decades(\h38, \h38, -3, "C", \h67) \cup Decades(\h39, \h39, 0, "H.C.A", \h6E)

\* The counter's own unit, or the other counter's if it says so.
fixedUnitOf(own, other) ==
    LET code  == IF own % 64 = fixedUnitSameHistoric THEN other % 64 ELSE own % 64
        known == {e \in fixedUnitTable : e.code = code}
    IN  IF known = {} THEN fixedUnitNone ELSE (CHOOSE e \in known : TRUE).u

=============================================================================
