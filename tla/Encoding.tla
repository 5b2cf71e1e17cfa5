------------------------------ MODULE Encoding ------------------------------
(***************************************************************************)
(* encoding.go: numbers as bytes, the least significant first.  A          *)
(* conversion that can fail is the set of its results: empty, or of one.   *)
(***************************************************************************)
EXTENDS Integers, Sequences

CONSTANT MaxUint64

ASSUME EncodingAssumption == MaxUint64 \in Nat

High(by) == by \div 16
Low(by) == by % 16

\* The bytes of b in base 256, the most significant of them counting as top.
Horner(b, top) ==
    LET v[k \in 1..Len(b)] ==
            IF k = 1 THEN top ELSE v[k - 1] * 256 + b[Len(b) + 1 - k]
    IN  v[Len(b)]

\* uintLE.  It is given eight bytes at most, which an uint64 holds: the cap is met
\* by a MaxUint64 smaller than the code's alone.
UintLE(b) ==
    LET by(k) == b[Len(b) + 1 - k]
        v[k \in 0..Len(b)] ==
            IF k = 0 THEN 0
            ELSE IF v[k - 1] > (MaxUint64 - by(k)) \div 256 THEN MaxUint64
            ELSE v[k - 1] * 256 + by(k)
    IN  v[Len(b)]

\* Mutant: only the widths of machine words have a sign.
IntLEOfWords(b) ==
    IF b = <<>> THEN 0
    ELSE LET top == b[Len(b)]
         IN  Horner(b, IF top < 128 \/ Len(b) \notin {1, 2, 4, 8} THEN top ELSE top - 256)

\* intLE: the sign is the top bit of the most significant byte there is.
IntLE(b) ==
    IF b = <<>> THEN 0
    ELSE LET top == b[Len(b)] IN Horner(b, IF top < 128 THEN top ELSE top - 256)

\* bcdDigits, with the most significant nibble left out if it was the sign.
BCDDigits(b, skipSignNibble) ==
    LET by(k)    == b[Len(b) + 1 - k]
        hi(k)    == IF k = 1 /\ skipSignNibble THEN 0 ELSE High(by(k))
        digit(k) == hi(k) * 10 + Low(by(k))
        overflow == -1
        v[k \in 0..Len(b)] ==
            IF k = 0 THEN 0
            ELSE LET value == v[k - 1]
                 IN  IF value = overflow \/ value > (MaxUint64 - digit(k)) \div 100
                     THEN overflow ELSE value * 100 + digit(k)
    IN  IF b = <<>> \/ \E k \in 1..Len(b) : hi(k) > 9 \/ Low(by(k)) > 9 THEN {}
        ELSE {v[Len(b)]} \ {overflow}

\* bcdMagnitude
BCDMagnitude(b) == BCDDigits(b, FALSE)

\* bcdSigned: F as the most significant nibble is the sign.  That the value is
\* more than an int64 holds is left out: its fields have at most six bytes.
BCDSigned(b) ==
    LET negative == b # <<>> /\ High(b[Len(b)]) = 15
    IN  {IF negative THEN -v ELSE v : v \in BCDDigits(b, negative)}

\* uintToBCD, of size bytes.
UintToBCD(value, size) ==
    LET rest[k \in 1..(size + 1)] == IF k = 1 THEN value ELSE rest[k - 1] \div 100
    IN  IF size <= 0 \/ rest[size + 1] # 0 THEN {}
        ELSE {[k \in 1..size |-> LET tail == rest[k] % 100 IN (tail \div 10) * 16 + (tail % 10)]}

=============================================================================
