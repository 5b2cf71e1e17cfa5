------------------------------- MODULE Units -------------------------------
(***************************************************************************)
(* unit.go, field.go, vif.go: what the VIF, its extensions and the DIF's   *)
(* say of a value: quantity, unit, scale, and which of a meter's registers *)
(* it is.  A number is [mant, ten], mant times ten to the ten.             *)
(***************************************************************************)
EXTENDS Integers, Sequences

Int10(m, t) == [mant |-> m, ten |-> t]
Times(x, y) == Int10(x.mant * y.mant, x.ten + y.ten)

\* A Unit.  The wording VIFUnitDesc is left out.
Plain(exp, name, type) ==
    [exp |-> exp, unit |-> name, type |-> type, date |-> "none", raw |-> FALSE, label |-> <<>>]

One == Int10(1, 0)

-----------------------------------------------------------------------------
(* The unit table: families of codes of one quantity, and single codes     *)

\* The codes from first on step through the powers of ten from ten on.
Decades(first, last, ten, name, type) ==
    {[code |-> c, u |-> Plain(Int10(1, ten + c - first), name, type)] : c \in first..last}

second == 1
minute == 60
hour == 3600
day == 86400

\* From first on, the factors of a list of durations.
Durations(first, factors, type) ==
    {[code |-> first + k - 1, u |-> Plain(Int10(factors[k], 0), "seconds", type)] :
        k \in DOMAIN factors}

Times4 == <<second, minute, hour, day>>

\* Codes of a number without a unit, each a quantity of its own.
Numbers(codes) == {[code |-> c, u |-> Plain(One, "none", c)] : c \in codes}

BitFields(codes) == {[code |-> c, u |-> [Plain(One, "none", c) EXCEPT !.raw = TRUE]] : c \in codes}

\* VIFs
PrimaryQuantities ==
    Decades(\h00, \h07, -3, "WH", \h07) \cup Decades(\h08, \h0F, 0, "J", \h0F)
    \cup Decades(\h10, \h17, -6, "m^3", \h17) \cup Decades(\h18, \h1F, -3, "kg", \h1F)
    \cup Durations(\h20, Times4, \h23) \cup Durations(\h24, Times4, \h27)
    \cup Decades(\h28, \h2F, -3, "W", \h2F) \cup Decades(\h30, \h37, 0, "J/h", \h37)
    \cup Decades(\h38, \h3F, -6, "m^3/h", \h3F)
PrimaryFlows ==
    Decades(\h40, \h47, -7, "m^3/min", \h47) \cup Decades(\h48, \h4F, -9, "m^3/s", \h4F)
    \cup Decades(\h50, \h57, -3, "kg/h", \h57)
    \cup Decades(\h58, \h5B, -3, "C", \h5B) \cup Decades(\h5C, \h5F, -3, "C", \h5F)
    \cup Decades(\h60, \h63, -3, "K", \h63) \cup Decades(\h64, \h67, -3, "C", \h67)
    \cup Decades(\h68, \h6B, -3, "bar", \h6B)
PrimaryOthers ==
    {[code |-> \h6C, u |-> [Plain(One, "date", \h6C) EXCEPT !.raw = TRUE, !.date = "G"]],
     [code |-> \h6D, u |-> [Plain(One, "date time", \h6D) EXCEPT !.raw = TRUE, !.date = "F"]],
     [code |-> \h6E, u |-> Plain(One, "H.C.A", \h6E)],
     [code |-> \h6F, u |-> Plain(Int10(0, 0), "none", \h6F)],
     [code |-> \h7C, u |-> Plain(One, "none", \h7E)]}
    \cup Durations(\h70, Times4, \h73) \cup Durations(\h74, Times4, \h77)
    \cup BitFields({\h78, \h79, \h7A}) \cup Numbers({\h7E, \h7F})

RESERVED == \h119

month == Int10(262974383, -2)
year == Int10(31556926, 0)

\* A duration in months at the code, in years at the one after it.
Calendar(code, type) ==
    {[code |-> code, u |-> Plain(month, "seconds", type)],
     [code |-> code + 1, u |-> Plain(year, "seconds", type)]}

\* The VIFEs of FDh, from 100h on.
FDCounters ==
    Decades(\h100, \h103, -3, "Currency unit", \h103)
    \cup Decades(\h104, \h107, -3, "Currency unit", \h107)
    \cup Numbers(\h108..\h116 \cup {\h11E, \h11F} \cup \h120..\h123)
    \cup BitFields({\h117, \h118, \h11A, \h11B})
    \cup {[code |-> \h11C, u |-> Plain(One, "Baud", \h11C)],
          [code |-> \h11D, u |-> Plain(One, "Bittimes", \h11D)]}
    \cup Durations(\h124, Times4, \h127) \cup Calendar(\h128, \h127)
    \cup Durations(\h12C, Times4, \h12F)
FDElectrical ==
    Durations(\h131, <<minute, hour, day>>, \h127)
    \cup Durations(\h134, Times4, \h137) \cup Calendar(\h138, \h137)
    \cup Decades(\h140, \h14F, -9, "V", \h14F) \cup Decades(\h150, \h15F, -12, "A", \h15F)
FDOthers ==
    Numbers({\h13A} \cup \h160..\h167) \cup BitFields({\h170})
    \cup Durations(\h168, <<hour, day>>, \h16B) \cup Calendar(\h16A, \h16B)
    \cup Durations(\h16C, <<hour, day>>, \h16F) \cup Calendar(\h16E, \h16F)
    \cup {[code |-> \h171, u |-> Plain(One, "dBm", \h171)]}
    \cup {[code |-> c, u |-> Plain(One, "none", RESERVED)] :
            c \in {\h119, \h12A, \h12B, \h130} \cup \h13B..\h13F \cup \h172..\h17F}

\* The VIFEs of FBh, from 200h on: but for one, without a type.
FBQuantities ==
    Decades(\h200, \h201, 5, "WH", 0) \cup Decades(\h208, \h209, 8, "Reserved", 0)
    \cup Decades(\h210, \h211, 2, "m^3", 0) \cup Decades(\h218, \h219, 5, "kg", 0)
    \cup Decades(\h21A, \h21A, -1, "%", \h21A)
    \cup Decades(\h221, \h221, -1, "feet^3", 0)
    \cup Decades(\h222, \h223, -1, "American gallon", 0)
    \cup Decades(\h224, \h224, -3, "American gallon/min", 0)
    \cup Decades(\h225, \h225, 0, "American gallon/min", 0)
    \cup Decades(\h226, \h226, 0, "American gallon/h", 0)
    \cup Decades(\h228, \h229, 5, "W", 0) \cup Decades(\h230, \h231, 8, "J", 0)
FBTemperatures ==
    UNION {Decades(c, c + 3, -3, "degF", 0) : c \in {\h258, \h25C, \h260, \h264, \h270}}
    \cup Decades(\h274, \h277, -3, "C", 0)
    \cup Decades(\h278, \h278, -3, "W", 0) \cup Decades(\h279, \h279, -3, "W", 0)
    \cup Decades(\h27A, \h27F, -1, "W", 0)

Known ==
    PrimaryQuantities \cup PrimaryFlows \cup PrimaryOthers
    \cup FDCounters \cup FDElectrical \cup FDOthers \cup FBQuantities \cup FBTemperatures

unknown == Plain(One, "unknown", 0)

\* The table as a function; codes of FBh that it names only as reserved too.
unitTable ==
    [c \in \h00..\h7F \cup \h100..\h17F \cup \h200..\h27F |->
        IF \E e \in Known : e.code = c THEN (CHOOSE e \in Known : e.code = c).u
        ELSE IF c >= \h200 THEN Plain(One, "Reserved", 0) ELSE unknown]

-----------------------------------------------------------------------------
(* decodeUnit                                                              *)

VARIABLE_VIF == \hFC
Bare(by) == by % 128

\* The VIFEs that modify the quantity.
combinableVIFEs(vif, vife) ==
    IF Bare(vif) = \h7F THEN <<>>
    ELSE IF vif \in {\hFB, \hFD} THEN SubSeq(vife, 2, Len(vife))
    ELSE vife

\* The time base of the first VIFE that makes the value a duration, if none
\* before it hands the rest of the block to the manufacturer.
durationOfLimitExceed(vifes) ==
    LET of(k)  == Bare(vifes[k]) \in \h50..\h5F
        own(k) == Bare(vifes[k]) = \h7F
        first  == {k \in DOMAIN vifes : of(k) /\ \A j \in 1..(k - 1) : ~of(j) /\ ~own(j)}
    IN  {Int10(Times4[(Bare(vifes[k]) % 4) + 1], 0) : k \in first}

\* The factor of the VIFE behind a unit in plain text.
VariableFactor(vife) ==
    LET code == Bare(vife)
    IN  IF code \in \h70..\h77 THEN Int10(1, (code % 8) - 6)
        ELSE IF code \in \h78..\h7B THEN Int10(1, (code % 4) - 3)
        ELSE IF code = \h7D THEN Int10(1000, 0)
        ELSE One

decodeUnit(vif, vife) ==
    IF vif \in {\hFB, \hFC, \hFD} /\ vife = <<>> THEN unknown
    ELSE IF vif = \hFC THEN Plain(VariableFactor(vife[1]), "variable", VARIABLE_VIF)
    ELSE LET code  == IF vif = \hFB THEN \h200 + Bare(vife[1])
                      ELSE IF vif = \hFD THEN \h100 + Bare(vife[1])
                      ELSE Bare(vif)
             bases == IF unitTable[code] = unknown THEN {}
                      ELSE durationOfLimitExceed(combinableVIFEs(vif, vife))
         IN  IF bases = {} THEN unitTable[code]
             ELSE [unitTable[code] EXCEPT !.exp = CHOOSE t \in bases : TRUE, !.unit = "seconds"]

\* Mutant: the scale behind a unit in plain text is dropped.
customUnitUnscaled(vif, vife, text) ==
    [Plain(One, "plain text", VARIABLE_VIF) EXCEPT !.label = text]

\* A unit in plain text, scaled by its VIFE.
customUnitOf(vif, vife, text) ==
    [Plain(IF vif = \hFC THEN decodeUnit(vif, vife).exp ELSE One, "plain text", VARIABLE_VIF)
        EXCEPT !.label = text]

-----------------------------------------------------------------------------
(* The DIF and its extensions                                              *)

Functions4 == <<"instantaneous", "maximum", "minimum", "error state">>

decodeRecordFunction(dif) ==
    CASE dif = \h0F -> "manufacturer" [] dif = \h1F -> "more follow"
      [] dif = \h2F -> "filler" [] dif = \h7F -> "readout"
      [] OTHER -> Functions4[((dif \div 16) % 4) + 1]

\* The digits of an extension chain, in a base, the first the least significant.
Chain(dife, base, Digit(_)) ==
    LET v[k \in 0..Len(dife)] ==
            IF k = 0 THEN 0 ELSE v[k - 1] * base + Digit(dife[Len(dife) + 1 - k])
    IN  v[Len(dife)]

decodeStorageNumber(dif, dife) ==
    ((dif \div 64) % 2) + 2 * Chain(dife, 16, LAMBDA d : d % 16)
decodeTariff(dife) == Chain(dife, 4, LAMBDA d : (d \div 16) % 4)
decodeDevice(dife) == Chain(dife, 2, LAMBDA d : (d \div 64) % 2)

\* The media that have a name; the names are left out.
deviceTypeNames ==
    \h00..\h21 \cup {\h25, \h28, \h29} \cup \h31..\h33 \cup \h36..\h38
Reserved == -1
deviceTypeLookup(code) ==
    IF code \in deviceTypeNames \cup {\hFF} THEN code ELSE Reserved

=============================================================================
