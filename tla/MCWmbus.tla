------------------------------ MODULE MCWmbus ------------------------------
(***************************************************************************)
(* Two sets of cases.  Framing: sizes around every boundary of the two     *)
(* formats, damaged in any one byte, cut anywhere, or with a byte behind.  *)
(* Layers: every order and kind of layer, whole or cut, under every key.   *)
(***************************************************************************)
EXTENDS Wmbus, SequencesExt

\* Meters: Other's number is no BCD.
Mine  == <<45, 44, 18, 52, 86, 120, 27, 7>>
Other == <<45, 44, 18, 52, 86, 121, 27, 7>>
NoBCD == <<45, 44, 171, 52, 86, 120, 27, 7>>

Unlocked == [key |-> NoKey, mode |-> ModeNone, init |-> <<>>, cipher |-> <<>>, plain |-> <<>>]

Min2(a, b) == IF a < b THEN a ELSE b

-----------------------------------------------------------------------------
(* The link layer as it is sent                                            *)

LinkHeader(l, address) == <<l, 68>> \o address
CRC == <<1, 2>>

\* Format A: a telegram of n bytes of payload has its k-th block at 18 k - 6.
SentA(address, p) ==
    LET n      == Len(p)
        last   == (n + 15) \div 16
        part(k) == SubSeq(p, 16 * k - 15, Min2(16 * k, n))
    IN  [raw    |-> LinkHeader(n + 9, address) \o CRC
                      \o FlattenSeq([k \in 1..last |-> part(k) \o CRC]),
         blocks |-> {<<0, 10>>} \cup {<<18 * k - 6, 18 * k - 6 + Len(part(k))>> : k \in 1..last}]

SentB(address, p) ==
    LET n == Len(p)
    IN  IF n <= 116
        THEN [raw    |-> LinkHeader(n + 11, address) \o p \o CRC,
              blocks |-> {<<0, n + 10>>}]
        ELSE [raw    |-> LinkHeader(n + 13, address) \o SubSeq(p, 1, 116) \o CRC
                           \o SubSeq(p, 117, n) \o CRC,
              blocks |-> {<<0, 126>>, <<128, n + 12>>}]

SentStripped(address, p) ==
    [raw |-> LinkHeader(Len(p) + 9, address) \o p, blocks |-> {}]

Sent(form, address, p) ==
    CASE form = "A" -> SentA(address, p)
      [] form = "B" -> SentB(address, p)
      [] form = "stripped" -> SentStripped(address, p)

\* What may arrive of s: all, with a byte behind, the first n bytes, or all
\* with one byte changed.
Damaged(s, p, b) ==
    [raw    |-> [s.raw EXCEPT ![p] = b],
     blocks |-> {x \in s.blocks : ~(x[1] < p /\ p <= x[2] + 2)}]
Arrivals(s, form) ==
    LET n == Len(s.raw)
    IN  {[raw |-> s.raw, blocks |-> s.blocks, intact |-> TRUE],
         [raw |-> Append(s.raw, 156), blocks |-> s.blocks, intact |-> TRUE]}
        \cup {[raw |-> SubSeq(s.raw, 1, k), blocks |-> {x \in s.blocks : x[2] + 2 <= k},
               intact |-> FALSE] : k \in 0..(n - 1)}
        \cup (IF form = "stripped" THEN {}
              ELSE {[raw |-> d.raw, blocks |-> d.blocks, intact |-> FALSE] :
                       d \in {Damaged(s, p, (s.raw[p] + 1) % 256) : p \in 1..n}
                             \cup {Damaged(s, 1, l) : l \in {0, 8, 9, 10, 11, 127, 128, 129, 130, 255}
                                                            \ {s.raw[1]}}})

\* The layers of p from l on.
RECURSIVE LayersFrom(_, _)
LayersFrom(p, l) ==
    <<l>> \o (IF FrontFits(p, l.from) THEN LayersFrom(p, NextLayer(p, l)) ELSE <<>>)

Case(arrival, form, sent, call) ==
    [raw |-> arrival.raw, blocks |-> arrival.blocks, intact |-> arrival.intact,
     form |-> form, payload |-> sent.payload, legal |-> sent.legal, meter |-> sent.meter,
     lock |-> sent.lock, clear |-> sent.clear,
     layers |-> LayersFrom(sent.payload, [from |-> 0, counter |-> <<>>]),
     parse |-> call.parse, keys |-> call.keys]

ParsesOf(form) == IF form = "stripped" THEN {form} ELSE {form, "any"}

-----------------------------------------------------------------------------
(* Framing                                                                 *)

Sizes == {0, 1, 2, 16, 17, 33, 115, 116, 117, 118, 242}

Plain(n) ==
    [payload |-> [k \in 1..n |-> IF k = 1 THEN CINoHeader ELSE 200 + (k % 50)],
     legal   |-> n > 0,
     meter   |-> Mine,
     lock    |-> Unlocked,
     clear   |-> [k \in 1..(IF n > 0 THEN n - 1 ELSE 0) |-> 200 + ((k + 1) % 50)]]

Framing ==
    UNION {UNION {{Case(a, f, Plain(n), [parse |-> p, keys |-> [all |-> NoKey]]) :
                      a \in Arrivals(Sent(f, Mine, Plain(n).payload), f), p \in ParsesOf(f)} :
                  n \in Sizes} : f \in {"A", "B", "stripped"}}

-----------------------------------------------------------------------------
(* Layers                                                                  *)

Access == 42
Counter == <<4, 3, 2, 1>>
Secret == <<fillerByte, fillerByte>> \o [k \in 1..30 |-> k]
Cipher == [k \in 1..32 |-> 200 + k]
\* A record.
Unsealed == <<1, 19, 7>>

Legal(b, counter) == [bytes |-> b, legal |-> TRUE, counter |-> counter]
Broken(b) == [bytes |-> b, legal |-> FALSE, counter |-> <<>>]

Fronts == {
    Legal(<<>>, <<>>),
    Legal(<<CIExtendedLinkI, 0, Access>>, <<>>),
    Legal(<<CIAuthFragmentation, 6, 0, 16>> \o Counter, Counter),
    Legal(<<CIAuthFragmentation, 2, 0, 0>>, <<>>),
    Legal(<<CIAuthFragmentation, 11, 0, 49, 9, 8, 7>> \o Counter \o <<6, 5>>, Counter),
    Legal(<<CIExtendedLinkI, 0, Access, CIAuthFragmentation, 6, 0, 16>> \o Counter, Counter),
    Legal(<<CIAuthFragmentation, 6, 0, 16>> \o Counter \o <<CIAuthFragmentation, 2, 0, 0>>, Counter),
    Broken(<<CIAuthFragmentation, 1, 0>>),
    Broken(<<CIAuthFragmentation, 5, 0, 16, 4, 3, 2>>),
    Broken(<<CIAuthFragmentation, 8, 0, 49, 9, 8, 7, 4, 3, 2>>),
    Broken(<<CIExtendedLinkII, 0, Access, 0, 0, 0, 0>>),
    Broken(<<81>>)
}

\* What a meter that encrypts blocks blocks in mode sends behind a front.
Lock(mode, blocks, meter, counter) ==
    IF mode = ModeNone \/ blocks = 0 THEN Unlocked
    ELSE [key    |-> "k1",
          mode   |-> mode,
          init   |-> IF mode = ModeAESCBCIV THEN meter \o <<Access>>
                     ELSE counter \o SubSeq(meter, 3, 6),
          cipher |-> SubSeq(Cipher, 1, 16 * blocks),
          plain  |-> SubSeq(Secret, 1, 16 * blocks)]

\* Configuration word: mode and blocks.  The mode 7 extension byte follows.
ShortHeader(mode, blocks) ==
    <<Access, 4, 16 * blocks, mode>> \o (IF mode = ModeAESCBCDerived THEN <<0>> ELSE <<>>)
LongAddress(meter) == SubSeq(meter, 3, 6) \o SubSeq(meter, 1, 2) \o SubSeq(meter, 7, 8)

Layered(front, header, mode, blocks, sender, meter, cut) ==
    LET lock  == Lock(mode, blocks, meter, front.counter)
        head  == front.bytes \o <<header>>
                   \o (CASE header = CINoHeader -> <<>>
                         [] header = CIShortHeader -> ShortHeader(mode, blocks)
                         [] header = CILongHeader -> LongAddress(meter) \o ShortHeader(mode, blocks))
        whole == head \o lock.cipher \o Unsealed
        size  == Len(whole) - cut
    IN  [payload |-> SubSeq(whole, 1, size),
         legal   |-> /\ front.legal /\ mode \in {ModeNone, ModeAESCBCIV, ModeAESCBCDerived}
                     /\ lock.mode = ModeAESCBCDerived => front.counter # <<>>
                     /\ cut \in {0, Len(Unsealed)},
         sender  |-> sender,
         meter   |-> meter,
         lock    |-> lock,
         clear   |-> lock.plain \o SubSeq(Unsealed, 1, size - Len(head \o lock.cipher))]

Headers ==
    {<<CINoHeader, ModeNone, 0>>}
    \cup {<<c, m, b>> : c \in {CIShortHeader, CILongHeader}, m \in {ModeAESCBCIV, ModeAESCBCDerived},
                        b \in 0..2}
    \cup {<<c, m, 0>> : c \in {CIShortHeader, CILongHeader}, m \in {ModeNone, 13}}

\* Who sends whose data: only a long header names another meter.
Parties(header) ==
    {<<Mine, Mine>>, <<NoBCD, NoBCD>>}
    \cup (IF header = CILongHeader THEN {<<Other, Mine>>, <<NoBCD, Mine>>} ELSE {})

Cuts ==
    UNION {{Layered(f, h[1], h[2], h[3], Mine, Mine, cut) : cut \in 1..25} :
              f \in Fronts, h \in {h \in Headers : h[3] < 2}}
Uncut ==
    UNION {{Layered(f, h[1], h[2], h[3], q[1], q[2], 0) : q \in Parties(h[1])} :
              f \in Fronts, h \in Headers}

\* The one that is damaged.
Sealed == Layered(Legal(<<>>, <<>>), CIShortHeader, ModeAESCBCIV, 2, Mine, Mine, 0)

Number(meter) == SubSeq(meter, 3, 6)
KeyChains ==
    {[all |-> k] : k \in {NoKey, ShortKey, "k1", "k2"}}
    \cup {[ring |-> r] : r \in {<<>>,
                                [n \in {Number(Mine)} |-> "k1"],
                                [n \in {Number(Mine), Number(Other)} |->
                                    IF n = Number(Mine) THEN "k1" ELSE "k2"]}}

Whole(form, t) == LET s == Sent(form, t.sender, t.payload)
                  IN  [raw |-> s.raw, blocks |-> s.blocks, intact |-> TRUE]

Layers ==
    {Case(Whole("A", t), "A", t, [parse |-> "A", keys |-> k]) : t \in Uncut, k \in KeyChains}
    \cup {Case(a, "A", Sealed, [parse |-> p, keys |-> [all |-> k]]) :
             a \in Arrivals(Sent("A", Mine, Sealed.payload), "A"), p \in {"A", "any"},
             k \in {NoKey, "k1"}}
    \cup {Case(Whole("A", t), "A", t, [parse |-> "A", keys |-> [all |-> "k1"]]) :
             t \in {t \in Cuts : Len(t.payload) > 0}}

MCCases == Framing \cup Layers

=============================================================================
