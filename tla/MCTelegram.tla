----------------------------- MODULE MCTelegram -----------------------------
(***************************************************************************)
(* Telegrams of at most two records, with fillers before and behind and a  *)
(* manufacturer's part, cut anywhere; headers of every kind; fixed data    *)
(* responses.  Values hold bytes that would be special as a DIF.           *)
(***************************************************************************)
EXTENDS Telegram, SequencesExt

MCmaxExtensions == 2

\* Some reals that a meter sends.
MCFloat32(b) ==
    CASE b = <<0, 0, 15, 65>>  -> Int10(89375, -4)
      [] b = <<0, 0, 31, 193>> -> Int10(-99375, -4)

Model == <<109, 111, 100, 101, 108>>
MCProductLabels == {Model}

-----------------------------------------------------------------------------
(* Records, each with what its sender means by it                          *)

Number(m, t, unit) == [as |-> "number", number |-> Int10(m, t), unit |-> unit, label |-> <<>>]
Labelled(m, t, label) ==
    [as |-> "number", number |-> Int10(m, t), unit |-> "plain text", label |-> label]
Nothing == [as |-> "nothing"]
Error   == [as |-> "error"]
Text(b) == [as |-> "text", text |-> b]
At(y, mo, d, h, m, s) ==
    [as |-> "time", time |-> Moment(y, mo, d, h, m, s)]

\* A record of the current, instantaneous value.
Sent(bytes, type, reads) ==
    [kind |-> "record", bytes |-> bytes, function |-> "instantaneous",
     storage |-> 0, tariff |-> 0, device |-> 0, type |-> type, more |-> FALSE,
     reads |-> reads, undated |-> FALSE]

Broken(bytes) == [Sent(bytes, 0, Nothing) EXCEPT !.kind = "illegal"]

Litres(m, t) == Number(m, t - 3, "m^3")
Volume(bytes, reads) == Sent(bytes, VIFVolume, reads)

Widths == {
    Volume(<<\h01, \h13, \h0F>>, Litres(15, 0)),
    Volume(<<\h00, \h13>>, Nothing),
    Volume(<<\h09, \h13, \hF1>>, Litres(-1, 0)),
    Volume(<<\h0A, \h13, \h0F, \h1F>>, Error),
    Volume(<<\h0C, \h13, \h78, \h56, \h34, \h12>>, Litres(12345678, 0)),
    Volume(<<\h05, \h13, 0, 0, \h0F, \h41>>, Litres(89375, -4)),
    Volume(<<\h0D, \h13, 2, \h1F, \h0F>>, Text(<<\h0F, \h1F>>)),
    Volume(<<\h0D, \h13, 0>>, Nothing),
    Volume(<<\h0D, \h13, \hC0>>, Error),
    Volume(<<\h0D, \h13, \hC1, \h12>>, Litres(12, 0)),
    Volume(<<\h0D, \h13, \hD1, \h12>>, Litres(-12, 0)),
    Volume(<<\h0D, \h13, \hC1, \hF1>>, Error),
    Volume(<<\h0D, \h13, \hE2, \h2F, \h0F>>, Litres(3887, 0)),
    Volume(<<\h0D, \h13, \hF4, 0, 0, \h1F, \hC1>>, Litres(-99375, -4)),
    Sent(<<\h03, \h3B, \hFE, \hFF, \hFF>>, \h3F, Number(-2, -3, "m^3/h")),
    [Volume(<<\h3F, \h13>>, Nothing) EXCEPT !.function = "Special Function"]
}

Registers == {
    [Sent(<<\h42, \h06, \hFF, \hFF>>, \h07, Number(-1, 3, "WH")) EXCEPT !.storage = 1],
    [Sent(<<\h11, \h2B, 7>>, \h2F, Number(7, 0, "W")) EXCEPT !.function = "maximum"],
    [Volume(<<\h92, \hD1, \h61, \h93, \h3B, \h1F, \h2F>>, Litres(12063, 0))
        EXCEPT !.function = "maximum", !.storage = 34, !.tariff = 9, !.device = 3]
}

Quantities == {
    Sent(<<\h01, \hFC, 2, \h48, \h25, \h74, 5>>, \hFC, Labelled(5, -2, <<\h25, \h48>>)),
    Sent(<<\h08, \h7C, 2, \h0F, \h25>>, \hFC, Nothing),
    Sent(<<\h02, \hFD, \h48, \h0F, 9>>, \h14F, Number(2319, -1, "V")),
    Sent(<<\h01, \hFB, 0, \h2F>>, 0, Number(47, 5, "WH")),
    Sent(<<\h02, \hFD, \h17, \hFF, \hFF>>, \h117, Number(65535, 0, "none")),
    Volume(<<\h01, \h93, \h51, 2>>, Number(120, 0, "seconds")),
    Sent(<<\h01, \hFF, \h51, 2>>, \h7F, Number(2, 0, "none")),
    Sent(<<\h01, \hFD, \hC8, \h52, 2>>, \h14F, Number(7200, 0, "seconds")),
    Sent(<<\h01, \h7D, 3>>, 0, Number(3, 0, "unknown"))
}

Times_ == {
    Sent(<<\h02, \h6C, \h5C, \h32>>, \h6C, At(2026, 2, 28, 0, 0, 0)),
    Sent(<<\h02, \h6C, \h5D, \h32>>, \h6C, Error),
    Sent(<<\h02, \h6C, \h1D, \h32>>, \h6C, At(2024, 2, 29, 0, 0, 0)),
    Sent(<<\h01, \h6C, \h0F>>, \h6C, Error),
    Sent(<<\h04, \h6D, \h0F, \h97, \h5F, \h37>>, \h6D, At(2026, 7, 31, 23, 15, 0)),
    Sent(<<\h04, \h6D, \h8F, \h17, \h5F, \h37>>, \h6D, Error),
    Sent(<<\h06, \h6D, \h3B, \h0F, 1, \h5F, \h37, 0>>, \h6D, At(2026, 7, 31, 1, 15, 59)),
    [Sent(<<\h44, \h6D, 0, 0, \h41, \h31>>, \h6D, At(2026, 1, 1, 0, 0, 0)) EXCEPT !.storage = 1],
    [Sent(<<\h0A, \h6D, \h12, \h34>>, \h6D, Number(3412, 0, "date time")) EXCEPT !.undated = TRUE]
}

BrokenRecords == {
    Broken(<<\h0D, \h13, \hE0>>), Broken(<<\h0D, \h13, \hFB>>), Broken(<<\h0D, \h13, \hF2>>),
    Broken(<<\h81, \h80, \h80, 0, \h13, 1>>), Broken(<<\h81, \h80, \h80, \h80, 0, \h13, 1>>),
    Broken(<<1, \h93, \h80, \h80, 0, 1>>)
}

Records == Widths \cup Registers \cup Quantities \cup Times_ \cup BrokenRecords

Idle == [Sent(<<\h2F>>, 0, Nothing) EXCEPT !.kind = "filler"]
Manufacturers == {
    [Sent(<<\h0F, \h01, \h13>>, 0, Nothing) EXCEPT !.kind = "special", !.function = "manufacturer"],
    [Sent(<<\h1F, \h01, \h13>>, 0, Nothing)
        EXCEPT !.kind = "special", !.function = "more follow", !.more = TRUE]
}

\* Records that may come second: the same register again, other registers, and
\* dates.
Followers ==
    Registers \cup {r \in Widths \cup Quantities \cup Times_ \cup BrokenRecords : r.bytes \in {
        <<\h01, \h13, \h0F>>, <<\h0D, \h13, \hD1, \h12>>, <<\h0D, \h13, \hE0>>,
        <<\h01, \hFC, 2, \h48, \h25, \h74, 5>>, <<\h02, \h6C, \h1D, \h32>>,
        <<\h06, \h6D, \h3B, \h0F, 1, \h5F, \h37, 0>>}}

Parts ==
    {<<>>} \cup {<<r>> : r \in Records}
        \cup {<<r, s>> : r \in Records, s \in Followers \cup Manufacturers}
        \cup {<<Idle, r, Idle>> : r \in Records}

-----------------------------------------------------------------------------
(* Frames                                                                  *)

Join(parts) == FlattenSeq([k \in DOMAIN parts |-> parts[k].bytes])
Start(parts, k) == Len(Join(SubSeq(parts, 1, k - 1)))

Serial == 12345678
BCDOf(n) == CHOOSE b \in UintToBCD(n, 4) : TRUE

\* "KAM", version, medium water, access number, status, signature.
Header == <<\h2D, \h2C, \h0B, \h07, 42, \h04, \h34, \h12>>
Sender(product) ==
    [serial |-> Serial, manufacturer |-> KAM, version |-> 11, medium |-> 7,
     access |-> 42, status |-> 4, signature |-> \h1234, product |-> product]

Framed(ci, id, header, user) ==
    <<\h68, 0, 0, \h68, 8, 1, ci>> \o id \o header \o user \o <<0, \h16>>

\* The records of d from a place on, and where the last of them is followed by
\* the end, the manufacturer's part, or no record.
RECURSIVE LayoutFrom(_, _)
LayoutFrom(d, from) ==
    IF from < Len(d) /\ d[from + 1] = 47 THEN LayoutFrom(d, from + 1)
    ELSE IF from = Len(d) \/ NoRecordAt(d, from) THEN [layout |-> <<>>, stop |-> from]
    ELSE LET at_ == CHOOSE p \in (0..Len(d)) \X (0..Len(d)) : RecordLies(d, from, p[1], p[2])
             rest == LayoutFrom(d, ValueEnd(d, d[from + 1], at_[2]))
         IN  [layout |-> <<[from |-> from, vif |-> at_[1], value |-> at_[2]]>> \o rest.layout,
              stop   |-> rest.stop]

AreaOf(f, sent, meant, whole) ==
    LET d   == IF Len(f) < 21 THEN <<>> ELSE SubSeq(f, 20, Len(f) - 2)
        lay == LayoutFrom(d, 0)
    IN  [frame |-> f, data |-> d, layout |-> lay.layout, stop |-> lay.stop,
         sent |-> sent, meant |-> meant, whole |-> whole]

Meter(user, product, meant, whole) ==
    AreaOf(Framed(\h72, BCDOf(Serial), Header, user), Sender(product), meant, whole)

\* The first cut bytes of parts.  Records begun are complete, or there is an
\* illegal one among them, or the telegram is not whole.
CutMeter(parts, cut) ==
    LET begun   == {k \in DOMAIN parts : Start(parts, k) < cut}
        ends(k) == Start(parts, k) + Len(parts[k].bytes)
        there(k) == parts[k].kind = "special" \/ ends(k) <= cut
        records_ == SelectSeq([k \in 1..Cardinality(begun) |-> [part |-> parts[k], at |-> k]],
                              LAMBDA x : x.part.kind # "filler" /\ there(x.at))
    IN  Meter(SubSeq(Join(parts), 1, cut), <<>>,
              [k \in DOMAIN records_ |-> records_[k].part],
              \A k \in begun : parts[k].kind # "illegal" /\ there(k))

Meters == UNION {{CutMeter(p, cut) : cut \in 0..Len(Join(p))} : p \in Parts}

\* Products: by a label, and by Kamstrup's number.
Labelled2 == Sent(<<\h0D, \h7C, 5, 108, 101, 100, 111, 109, 2, 88, 89>>, \hFC, Text(<<89, 88>>))
Multical == Sent(<<\h04, \h7E, \h60, \h0B, \h20, 0>>, \h7E, Number(2100064, 0, "none"))
Products == {
    Meter(Labelled2.bytes, <<89, 88>>, <<Labelled2>>, TRUE),
    Meter(Multical.bytes, <<2100064>>, <<Multical>>, TRUE),
    Meter(Multical.bytes \o Labelled2.bytes, <<89, 88>>, <<Multical, Labelled2>>, TRUE)
}

\* Answers that are refused for their header: another CI, too short, an
\* identification that is no number; and one whose record is cut besides.
FiveLitres == Volume(<<\h01, \h13, 5>>, Litres(5, 0))
Wrong == {
    AreaOf(Framed(ci, id, Header, FiveLitres.bytes), <<>>, <<FiveLitres>>, FALSE) :
        <<ci, id>> \in {<<\h78, BCDOf(Serial)>>, <<\h72, <<\h78, \h56, \h34, \hF2>>>>}
} \cup {
    AreaOf(SubSeq(Framed(ci, BCDOf(Serial), Header, <<>>), 1, n), <<>>, <<>>, FALSE) :
        ci \in {\h72, \h73}, n \in {0, 5, 20}
} \cup {
    AreaOf(Framed(\h73, id, <<42, 4, 5, 5>>, user), <<>>, <<>>, FALSE) :
        <<id, user>> \in {<<BCDOf(Serial), <<1, 0, 0, 0, 2, 0, 0>>>>,
                          <<<<\hA8, \h56, \h34, \h12>>, <<1, 0, 0, 0, 2, 0, 0, 0>>>>}
} \cup {
    AreaOf(Framed(\h72, <<\h78, \h56, \h34, \hF2>>, Header, <<\h01, \h13>>), <<>>, <<>>, FALSE)
}

\* Fixed data responses: unit bytes, and the unit that both mean; counters.
FixedUnits == {
    <<\hC5, \h7E, \h07, "WH", 3>>, <<\hEC, \h6C, VIFVolume, "m^3", 0>>,
    <<\hFE, \h7E, 0, "none", 0>>, <<\hFE, \h78, \h67, "C", -3>>
}
\* The bytes, the number they are in BCD and the one they are in binary.
Counters == {
    <<<<\h15, 0, 0, 0>>, {15}, 21>>, <<<<\hFF, \hFF, \hFF, \hFF>>, {}, -1>>,
    <<<<\h01, \h00, \h00, \hF0>>, {-1}, -268435455>>
}
FixedMeter(u, status, c1, c2) ==
    LET reads(c) ==
            IF status = 5 THEN Number(c[3], u[5], u[4])
            ELSE IF c[2] = {} THEN Error
            ELSE Number(CHOOSE v \in c[2] : TRUE, u[5], u[4])
    IN  AreaOf(Framed(\h73, BCDOf(Serial), <<42, status, u[1], u[2]>>, c1[1] \o c2[1]),
               [serial |-> Serial, manufacturer |-> <<>>, version |-> 0, medium |-> 7,
                access |-> 42, status |-> status, signature |-> 0, product |-> <<>>],
               <<Sent(<<>>, u[3], reads(c1)),
                 [Sent(<<>>, u[3], reads(c2)) EXCEPT !.storage = 1]>>,
               TRUE)

Fixed == {FixedMeter(u, s, c1, c2) : u \in FixedUnits, s \in {4, 5}, c1 \in Counters, c2 \in Counters}

MCAreas == Meters \cup Products \cup Wrong \cup Fixed

=============================================================================
