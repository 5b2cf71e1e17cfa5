------------------------------- MODULE Wmbus -------------------------------
(***************************************************************************)
(* Package wmbus: a raw telegram is freed of its link layer blocks and     *)
(* their CRCs, the transport layers in front of the data are walked, the   *)
(* encrypted part is opened with the key of the caller, and the rest goes  *)
(* to the record decoder of the wired package.  Each loop turn is a step.  *)
(* Bytes are numbers but for the CRC and AES, which are abstracted to what *)
(* they tell: whether a block is as it was sent, and whether key and       *)
(* initialisation are those the meter used.                                *)
(***************************************************************************)
EXTENDS Integers, Sequences

CONSTANT Cases
    \* A case is a telegram as received and a call that decodes it.
    \* Received:  raw      the bytes
    \*            blocks   the blocks <<from, to>> of raw whose CRC is right
    \* Sent:      form     "A", "B" or "stripped"
    \*            intact   raw is what was sent, and maybe more behind it
    \*            payload  what the link layer carries
    \*            legal    its layers are well-formed and of a supported kind,
    \*                     and its data are records
    \*            meter    the address of the meter the data are of
    \*            lock     what the meter encrypted with and what it encrypted
    \*            clear    the application data
    \*            layers   where each of its layers begins
    \* Call:      parse    "any", "A", "B" or "stripped"
    \*            keys     [all |-> key] or [ring |-> a key for each of some numbers]

NoKey == "no key"
ShortKey == "short key"

VARIABLES
    case,
    turn,       \* the step that comes next
    errors,     \* the sentinels errors.Is finds in the error so far
    format,     \* Frame.Format
    payload,    \* Frame.Payload, or the part that is stripped of CRCs
    pos,        \* the bytes of raw, then of payload, that are walked over
    tr          \* transport

wirelessVars == <<case, turn, errors, format, payload, pos, tr>>

raw == case.raw
L == raw[1]

dllHeaderLen == 10
blockLen == 16
formatBFirstCRCEnd == 128
longPrefix == 8
shortHeaderLen == 4
encryptionBlockLen == 16

CILongHeader == 114
CIShortHeader == 122
CINoHeader == 120
CIExtendedLinkI == 140
CIExtendedLinkII == 141
CIAuthFragmentation == 144

ModeNone == 0
ModeAESCBCIV == 5
ModeAESCBCDerived == 7

fillerByte == 47

\* raw[from:to]
Slice(s, from, to) == SubSeq(s, from + 1, to)

\* The CRC behind raw[from:to] is that of these bytes.
checkCRC(from, to) == <<from, to>> \in case.blocks

-----------------------------------------------------------------------------
(* What is assumed of the telegrams                                        *)

Byte == 0..255

\* Whatever is received is bytes, and a call says which format it is in.
BytesComeIn == \A c \in Cases : c.raw \in Seq(Byte) /\ c.parse \in {"any", "A", "B", "stripped"}

ASSUME ReceivedAssumption == BytesComeIn

\* The bytes from..to of a telegram are those of the payload sent from p to q.
Carries(c, from, to, p, q) == Slice(c.raw, from, to) = Slice(c.payload, p, q)

\* Format A sends the payload in blocks of 16 bytes and a rest, each with a CRC.
BlocksSent(c) == {k \in 0..Len(c.payload) : 16 * k < Len(c.payload)}
BlockSize(c, k) == IF Len(c.payload) - 16 * k < 16 THEN Len(c.payload) - 16 * k ELSE 16
BlockAt(k) == 18 * k + 12

\* A CRC is right behind the blocks that were sent, unchanged, and nowhere else.
RightInA(c, b) ==
    \/ b = <<0, 10>> /\ c.raw[1] = Len(c.payload) + 9
    \/ \E k \in BlocksSent(c) : /\ b = <<BlockAt(k), BlockAt(k) + BlockSize(c, k)>>
                                /\ Carries(c, BlockAt(k), BlockAt(k) + BlockSize(c, k),
                                           16 * k, 16 * k + BlockSize(c, k))

RightInB(c, b) ==
    \/ /\ Len(c.payload) <= 116
       /\ b = <<0, Len(c.payload) + 10>> /\ c.raw[1] = Len(c.payload) + 11
       /\ Carries(c, 10, Len(c.payload) + 10, 0, Len(c.payload))
    \/ /\ Len(c.payload) > 116
       /\ b = <<0, 126>> /\ c.raw[1] = Len(c.payload) + 13
       /\ Carries(c, 10, 126, 0, 116)
    \/ /\ Len(c.payload) > 116
       /\ b = <<128, Len(c.payload) + 12>>
       /\ Carries(c, 128, Len(c.payload) + 12, 116, Len(c.payload))

\* A telegram whose CRCs are stripped may be cut, which nothing but L tells.
RightIfStripped(c) ==
    /\ Len(c.raw) >= 1 => c.raw[1] = Len(c.payload) + 9
    /\ Len(c.raw) >= Len(c.payload) + 10 => Carries(c, 10, Len(c.payload) + 10, 0, Len(c.payload))

\* All that was sent is there.
WholeInA(c) ==
    /\ Len(c.raw) >= 12 /\ <<0, 10>> \in c.blocks
    /\ \A k \in BlocksSent(c) :
        /\ <<BlockAt(k), BlockAt(k) + BlockSize(c, k)>> \in c.blocks
        /\ Len(c.raw) >= BlockAt(k) + BlockSize(c, k) + 2

WholeInB(c) ==
    IF Len(c.payload) <= 116
    THEN <<0, Len(c.payload) + 10>> \in c.blocks /\ Len(c.raw) >= Len(c.payload) + 12
    ELSE /\ {<<0, 126>>, <<128, Len(c.payload) + 12>>} \subseteq c.blocks
         /\ Len(c.raw) >= Len(c.payload) + 14

\* Damage is nowhere hidden by a CRC that is right for the changed bytes, and a
\* caller who names a format names the one that is received.
DamageShows == \A c \in Cases :
    /\ c.raw \in Seq(Byte) /\ c.payload \in Seq(Byte)
    /\ \/ /\ c.form = "A" /\ c.parse \in {"A", "any"}
          /\ \A b \in c.blocks : RightInA(c, b)
          /\ c.intact <=> WholeInA(c)
       \/ /\ c.form = "B" /\ c.parse \in {"B", "any"}
          /\ \A b \in c.blocks : RightInB(c, b)
          /\ c.intact <=> WholeInB(c)
       \/ /\ c.form = "stripped" /\ c.parse = "stripped"
          /\ RightIfStripped(c)
          /\ c.intact <=> Len(c.raw) >= Len(c.payload) + 10

ASSUME CRCAssumption == DamageShows

-----------------------------------------------------------------------------
WirelessInit ==
    /\ case \in Cases
    /\ turn = IF case.parse = "any" THEN "A" ELSE case.parse
    /\ errors = {}
    /\ format = "none"
    /\ payload = <<>>
    /\ pos = 0
    /\ tr = [ci |-> 0, access |-> 0, status |-> 0, mode |-> ModeNone, encryptedBytes |-> 0,
             address |-> <<>>, counter |-> <<>>, data |-> <<>>]

Refuse(e) ==
    /\ turn' = "failed"
    /\ errors' = errors \cup e
    /\ UNCHANGED <<case, format, payload, pos, tr>>

\* Parse falls back to format B; its error joins those of both.
RefuseA(e) ==
    IF case.parse = "any"
    THEN /\ turn' = "B"
         /\ errors' = {"ErrInvalidFrame"} \cup e
         /\ payload' = <<>>
         /\ pos' = 0
         /\ UNCHANGED <<case, format, tr>>
    ELSE Refuse(e)

\* newFrame, and the address parseTransport starts with.
Frame(f, p) ==
    /\ turn' = "layers"
    /\ errors' = {}
    /\ format' = f
    /\ payload' = p
    /\ pos' = 0
    /\ tr' = [tr EXCEPT !.address = Slice(raw, 2, 10)]
    /\ UNCHANGED case

ParseFormatA ==
    /\ turn = "A"
    /\ \/ Len(raw) < dllHeaderLen + 2 /\ RefuseA({"ErrInvalidFrame"})
       \/ /\ Len(raw) >= dllHeaderLen + 2
          /\ \/ L < dllHeaderLen - 1 /\ RefuseA({"ErrInvalidFrame"})
             \/ /\ L >= dllHeaderLen - 1 /\ ~checkCRC(0, dllHeaderLen)
                /\ RefuseA({"ErrCRC"})
             \/ /\ L >= dllHeaderLen - 1 /\ checkCRC(0, dllHeaderLen)
                /\ turn' = "blocks"
                /\ pos' = dllHeaderLen + 2
                /\ UNCHANGED <<case, errors, format, payload, tr>>

\* Mutant: the CRC of a short last block is not looked at.
FullBlockIsRight(n) == n < blockLen \/ checkCRC(pos, pos + n)

BlockIsRight(n) == checkCRC(pos, pos + n)

\* One turn of stripFormatABlocks' loop.
StripFormatABlock ==
    LET remaining == L - (dllHeaderLen - 1) - Len(payload)
        n         == IF remaining < blockLen THEN remaining ELSE blockLen
    IN  /\ turn = "blocks"
        /\ \/ remaining = 0 /\ Frame("A", payload)
           \/ remaining > 0 /\ Len(raw) < pos + n + 2 /\ RefuseA({"ErrInvalidFrame"})
           \/ /\ remaining > 0 /\ Len(raw) >= pos + n + 2 /\ ~BlockIsRight(n)
              /\ RefuseA({"ErrCRC"})
           \/ /\ remaining > 0 /\ Len(raw) >= pos + n + 2 /\ BlockIsRight(n)
              /\ payload' = payload \o Slice(raw, pos, pos + n)
              /\ pos' = pos + n + 2
              /\ UNCHANGED <<case, turn, errors, format, tr>>

\* Mutant: the second block is not looked at.
FormatBFirstBlock(total) ==
    {<<0, (IF total <= formatBFirstCRCEnd THEN total ELSE formatBFirstCRCEnd) - 2>>}

\* The blocks of a format B telegram of total bytes.
FormatBBlocks(total) ==
    IF total <= formatBFirstCRCEnd
    THEN {<<0, total - 2>>}
    ELSE {<<0, formatBFirstCRCEnd - 2>>, <<formatBFirstCRCEnd, total - 2>>}

\* Mutant: a telegram that fills the first block is refused.
FormatBFitsBelow(total) ==
    /\ total >= dllHeaderLen + 2
    /\ Len(raw) >= total
    /\ total < formatBFirstCRCEnd \/ total >= formatBFirstCRCEnd + 3

\* The lengths are in order, and a second block is not empty.
FormatBFits(total) ==
    /\ total >= dllHeaderLen + 2
    /\ Len(raw) >= total
    /\ total <= formatBFirstCRCEnd \/ total >= formatBFirstCRCEnd + 3

ParseFormatB ==
    LET total == L + 1
    IN  /\ turn = "B"
        /\ \/ ~(Len(raw) >= dllHeaderLen + 2 /\ FormatBFits(total)) /\ Refuse({"ErrInvalidFrame"})
           \/ /\ Len(raw) >= dllHeaderLen + 2 /\ FormatBFits(total)
              /\ IF \A b \in FormatBBlocks(total) : checkCRC(b[1], b[2])
                 THEN Frame("B", IF total <= formatBFirstCRCEnd
                                 THEN Slice(raw, dllHeaderLen, total - 2)
                                 ELSE Slice(raw, dllHeaderLen, formatBFirstCRCEnd - 2)
                                      \o Slice(raw, formatBFirstCRCEnd, total - 2))
                 ELSE Refuse({"ErrCRC"})

StrippedFits(total) == total >= dllHeaderLen /\ Len(raw) >= total

ParseWithoutCRC ==
    /\ turn = "stripped"
    /\ \/ ~(Len(raw) >= dllHeaderLen /\ StrippedFits(L + 1)) /\ Refuse({"ErrInvalidFrame"})
       \/ /\ Len(raw) >= dllHeaderLen /\ StrippedFits(L + 1)
          /\ Frame("stripped", Slice(raw, dllHeaderLen, L + 1))

-----------------------------------------------------------------------------
\* len(rest), rest[k] and rest[k:k+n]
Rest == Len(payload) - pos
At(k) == payload[pos + k + 1]
Bytes(k, n) == Slice(payload, pos + k, pos + k + n)

Step(n) ==
    /\ pos' = pos + n
    /\ UNCHANGED <<case, turn, errors, format, payload>>

\* No CI, or one of a kind that is not stepped over.
OtherCI ==
    /\ turn = "layers"
    /\ \/ Rest < 1 /\ Refuse({"ErrInvalidFrame"})
       \/ Rest >= 1 /\ At(0) = CIExtendedLinkII /\ Refuse({"ErrUnsupportedMode"})
       \/ /\ Rest >= 1
          /\ At(0) \notin {CILongHeader, CIShortHeader, CINoHeader, CIExtendedLinkI,
                           CIExtendedLinkII, CIAuthFragmentation}
          /\ Refuse({"ErrUnsupportedCI"})

\* Mutant: its length is not checked.
ExtendedLinkUnchecked ==
    /\ turn = "layers" /\ Rest >= 1 /\ At(0) = CIExtendedLinkI
    /\ Step(3) /\ UNCHANGED tr

\* Mutant: it is not stepped over.
ExtendedLinkStays ==
    /\ turn = "layers" /\ Rest >= 1 /\ At(0) = CIExtendedLinkI
    /\ Step(0) /\ UNCHANGED tr

ExtendedLink ==
    /\ turn = "layers" /\ Rest >= 1 /\ At(0) = CIExtendedLinkI
    /\ \/ Rest < 3 /\ Refuse({"ErrInvalidFrame"})
       \/ Rest >= 3 /\ Step(3) /\ UNCHANGED tr

\* The optional fields of the authentication layer, of which only the counter
\* is used, and where it is.
HasMessageControl(control) == (control \div 32) % 2 = 1
HasMessageCounter(control) == (control \div 16) % 2 = 1
HasKeyInfo(control) == control % 2 = 1
BeforeCounter(control) ==
    2 + (IF HasMessageControl(control) THEN 1 ELSE 0) + (IF HasKeyInfo(control) THEN 2 ELSE 0)
FieldsLen(control) == BeforeCounter(control) + (IF HasMessageCounter(control) THEN 4 ELSE 0)

AuthLayerFits ==
    Rest >= 2 /\ Rest >= 2 + At(1) /\ At(1) >= 2 /\ At(1) >= FieldsLen(At(3))

\* parseAuthLayer; control is the upper byte of its control field.
AuthLayer ==
    /\ turn = "layers" /\ Rest >= 1 /\ At(0) = CIAuthFragmentation
    /\ \/ ~AuthLayerFits /\ Refuse({"ErrInvalidFrame"})
       \/ /\ AuthLayerFits
          /\ tr' = IF HasMessageCounter(At(3))
                   THEN [tr EXCEPT !.counter = Bytes(2 + BeforeCounter(At(3)), 4)]
                   ELSE tr
          /\ Step(2 + At(1))

\* parseHeader of CINoHeader
NoHeader ==
    /\ turn = "layers" /\ Rest >= 1 /\ At(0) = CINoHeader
    /\ tr' = [tr EXCEPT !.ci = At(0), !.data = Bytes(1, Rest - 1)]
    /\ turn' = "decrypt"
    /\ UNCHANGED <<case, errors, format, payload, pos>>

\* Mutant: the link layer's address is kept.
LinkAddress == tr.address

\* The address of a long header, in the order of the link layer.
HeaderAddress == Bytes(5, 2) \o Bytes(1, 4) \o Bytes(7, 2)

\* parseHeader of the other two.  s is where the short header begins.
Header ==
    /\ turn = "layers" /\ Rest >= 1 /\ At(0) \in {CILongHeader, CIShortHeader}
    /\ LET s == IF At(0) = CILongHeader THEN 1 + longPrefix ELSE 1
       IN  \/ Rest < s + shortHeaderLen /\ Refuse({"ErrInvalidFrame"})
           \/ /\ Rest >= s + shortHeaderLen
              /\ LET mode      == At(s + 3) % 32
                     encrypted == (At(s + 2) \div 16) * encryptionBlockLen
                     from      == s + shortHeaderLen
                                    + (IF mode = ModeAESCBCDerived THEN 1 ELSE 0)
                 IN  \/ /\ mode \notin {ModeNone, ModeAESCBCIV, ModeAESCBCDerived}
                        /\ Refuse({"ErrUnsupportedMode"})
                     \/ /\ mode \in {ModeNone, ModeAESCBCIV, ModeAESCBCDerived}
                        /\ Rest < from + encrypted
                        /\ Refuse({"ErrInvalidFrame"})
                     \/ /\ mode \in {ModeNone, ModeAESCBCIV, ModeAESCBCDerived}
                        /\ Rest >= from + encrypted
                        /\ tr' = [tr EXCEPT
                                    !.ci = At(0), !.access = At(s), !.status = At(s + 1),
                                    !.mode = mode, !.encryptedBytes = encrypted,
                                    !.address = IF At(0) = CILongHeader THEN HeaderAddress ELSE @,
                                    !.data = Bytes(from, Rest - from)]
                        /\ turn' = "decrypt"
                        /\ UNCHANGED <<case, errors, format, payload, pos>>

-----------------------------------------------------------------------------
\* identSerial fails on others.  A number is written as its bytes.
IsBCD(ident) == \A k \in 1..Len(ident) : ident[k] % 16 <= 9 /\ ident[k] \div 16 <= 9

\* The key given, or the one the ring has for the link layer's number.
Key ==
    LET ident == Slice(raw, 4, 8)
    IN  IF "all" \in DOMAIN case.keys THEN case.keys.all
        ELSE IF IsBCD(ident) /\ ident \in DOMAIN case.keys.ring THEN case.keys.ring[ident]
        ELSE NoKey

Ident == Slice(tr.address, 2, 6)

\* modeFiveIV, or what deriveKey feeds the CMAC besides the key.
Initialisation ==
    IF tr.mode = ModeAESCBCIV THEN tr.address \o <<tr.access>> ELSE tr.counter \o Ident

\* Another key or initialisation than the meter's gives noise, which does not
\* begin with the marker.
decryptCBC(key, init, cipher) ==
    IF /\ case.lock.key = key
       /\ case.lock.mode = tr.mode
       /\ case.lock.init = init
       /\ SubSeq(case.lock.cipher, 1, Len(cipher)) = cipher
    THEN SubSeq(case.lock.plain, 1, Len(cipher))
    ELSE [k \in DOMAIN cipher |-> 0]

Encrypted == tr.mode # ModeNone /\ tr.encryptedBytes # 0

Decrypt ==
    /\ turn = "decrypt"
    /\ \/ /\ ~Encrypted
          /\ turn' = "application"
          /\ UNCHANGED <<case, errors, format, payload, pos, tr>>
       \/ Encrypted /\ Key = NoKey /\ Refuse({"ErrKeyRequired"})
       \/ Encrypted /\ Key = ShortKey /\ Refuse({"ErrInvalidKey"})
       \/ /\ Encrypted /\ Key \notin {NoKey, ShortKey}
          /\ tr.mode = ModeAESCBCDerived /\ tr.counter = <<>>
          /\ Refuse({"ErrInvalidFrame"})
       \/ /\ Encrypted /\ Key \notin {NoKey, ShortKey}
          /\ ~(tr.mode = ModeAESCBCDerived /\ tr.counter = <<>>)
          /\ LET n     == tr.encryptedBytes
                 plain == decryptCBC(Key, Initialisation, Slice(tr.data, 0, n))
             IN  IF Slice(plain, 0, 2) = <<fillerByte, fillerByte>>
                 THEN /\ tr' = [tr EXCEPT !.data = plain \o Slice(@, n, Len(@))]
                      /\ turn' = "application"
                      /\ UNCHANGED <<case, errors, format, payload, pos>>
                 ELSE Refuse({"ErrDecrypt"})

\* decodeApplication, which fails unless the data are records.  A number that is
\* no BCD is zeroed.
DecodeApplication ==
    /\ turn = "application"
    /\ \/ /\ tr.data = case.clear => case.legal
          /\ tr' = [tr EXCEPT !.address =
                        IF IsBCD(Ident) THEN @
                        ELSE Slice(@, 0, 2) \o <<0, 0, 0, 0>> \o Slice(@, 6, 8)]
          /\ turn' = "done"
          /\ UNCHANGED <<case, errors, format, payload, pos>>
       \/ ~(tr.data = case.clear /\ case.legal) /\ Refuse({"ErrInvalidFrame"})

WirelessNext ==
    \/ ParseFormatA \/ StripFormatABlock \/ ParseFormatB \/ ParseWithoutCRC
    \/ OtherCI \/ ExtendedLink \/ AuthLayer \/ NoHeader \/ Header
    \/ Decrypt \/ DecodeApplication

\* A call is a loop without I/O.
WirelessSpec == WirelessInit /\ [][WirelessNext]_wirelessVars /\ WF_wirelessVars(WirelessNext)

-----------------------------------------------------------------------------
(* What is assumed of the layers: a case names, in order, where each begins *)
(* and the message counter that has been sent before it.  The last is the  *)
(* transport header, or where the telegram breaks off.                     *)

FrontFits(p, f) ==
    LET left == Len(p) - f
        b(j) == p[f + j + 1]
    IN  \/ left >= 3 /\ b(0) = CIExtendedLinkI
        \/ /\ left >= 2 /\ b(0) = CIAuthFragmentation
           /\ b(1) >= 2 /\ left >= 2 + b(1) /\ b(1) >= FieldsLen(b(3))

NextLayer(p, l) ==
    LET b(j) == p[l.from + j + 1]
        at   == l.from + 2 + BeforeCounter(b(3))
    IN  IF b(0) = CIExtendedLinkI THEN [from |-> l.from + 3, counter |-> l.counter]
        ELSE [from    |-> l.from + 2 + b(1),
              counter |-> IF HasMessageCounter(b(3)) THEN Slice(p, at, at + 4) ELSE l.counter]

\* The short header in a header at f, and the mode, the bytes encrypted and where
\* the data begin.
ShortAt(p, f) == f + (IF p[f + 1] = CILongHeader THEN 1 + longPrefix ELSE 1)
ModeAt(p, f) == IF p[f + 1] = CINoHeader THEN ModeNone ELSE p[ShortAt(p, f) + 4] % 32
LockedAt(p, f) ==
    IF p[f + 1] = CINoHeader THEN 0
    ELSE (p[ShortAt(p, f) + 3] \div 16) * encryptionBlockLen
DataAt(p, f) ==
    IF p[f + 1] = CINoHeader THEN f + 1
    ELSE ShortAt(p, f) + shortHeaderLen + (IF ModeAt(p, f) = ModeAESCBCDerived THEN 1 ELSE 0)

HeaderFits(p, f) ==
    /\ Len(p) >= f + 1
    /\ \/ p[f + 1] = CINoHeader
       \/ /\ p[f + 1] \in {CILongHeader, CIShortHeader}
          /\ Len(p) >= ShortAt(p, f) + shortHeaderLen
          /\ ModeAt(p, f) \in {ModeNone, ModeAESCBCIV, ModeAESCBCDerived}
          /\ Len(p) >= DataAt(p, f) + LockedAt(p, f)

\* The data are the meter's that the header at h names, encrypted as it says.
DataAreSent(c, h) ==
    LET p    == c.payload
        mode == ModeAt(p, h.from)
        d    == DataAt(p, h.from)
        e    == d + LockedAt(p, h.from)
    IN  /\ IF p[h.from + 1] = CILongHeader
           THEN c.meter = Slice(p, h.from + 5, h.from + 7) \o Slice(p, h.from + 1, h.from + 5)
                            \o Slice(p, h.from + 7, h.from + 9)
           ELSE c.intact => c.meter = Slice(c.raw, 2, 10)
        /\ IF mode = ModeNone \/ e = d
           THEN c.lock.mode = ModeNone /\ c.clear = Slice(p, d, Len(p))
           ELSE /\ c.lock.mode = mode /\ c.lock.key \notin {NoKey, ShortKey}
                /\ c.lock.init = IF mode = ModeAESCBCIV
                                 THEN c.meter \o <<p[ShortAt(p, h.from) + 1]>>
                                 ELSE h.counter \o Slice(c.meter, 2, 6)
                /\ c.lock.cipher = Slice(p, d, e)
                /\ c.lock.plain \in Seq(Byte) /\ Len(c.lock.plain) = e - d
                /\ Slice(c.lock.plain, 0, 2) = <<fillerByte, fillerByte>>
                /\ c.clear = c.lock.plain \o Slice(p, e, Len(p))
                /\ c.legal /\ mode = ModeAESCBCDerived => h.counter # <<>>

LayersAreSent == \A c \in Cases :
    LET n == Len(c.layers)
        h == c.layers[n]
    IN  /\ c.layers \in Seq([from : Nat, counter : Seq(Byte)]) /\ n > 0
        /\ c.layers[1] = [from |-> 0, counter |-> <<>>]
        /\ \A k \in 1..(n - 1) : /\ FrontFits(c.payload, c.layers[k].from)
                                /\ c.layers[k + 1] = NextLayer(c.payload, c.layers[k])
        /\ ~FrontFits(c.payload, h.from)
        /\ IF HeaderFits(c.payload, h.from) THEN DataAreSent(c, h) ELSE ~c.legal

ASSUME LayersAssumption == LayersAreSent

-----------------------------------------------------------------------------
Returned == turn \in {"done", "failed"}

\* No slice is taken past the end of what is there.
SlicesFit ==
    /\ turn \in {"A", "blocks", "B", "stripped", "layers", "decrypt", "application",
                "done", "failed"}
    /\ format \in {"none", "A", "B", "stripped"}
    /\ pos \in 0..Len(IF format = "none" THEN raw ELSE payload)
    /\ tr.encryptedBytes \in 0..Len(tr.data)
    /\ Len(tr.address) \in {0, 8} /\ Len(tr.counter) \in {0, 4}

\* A link layer that is accepted carries what was sent, in the format it was
\* sent in, whatever was damaged, cut off or appended on the way: no block is
\* taken unchecked and none is put together from the wrong bytes.  Or it
\* carries nothing: the first block of a format A telegram with L = 11 is also
\* a format B telegram without a payload, which Parse returns when it refuses
\* the second block.
PayloadIsSent ==
    format # "none" => payload = <<>> \/ (format = case.form /\ payload = case.payload)

\* A telegram that decodes is one that is legal, and its data are those the
\* meter it names sent, whatever key was used: a wrong key gives an error and
\* never a reading (wmbus/doc.go 66-70).
NoWrongReading == turn = "done" =>
    /\ case.legal
    /\ tr.data = case.clear
    /\ Slice(tr.address, 0, 2) = Slice(case.meter, 0, 2)
    /\ Slice(tr.address, 6, 8) = Slice(case.meter, 6, 8)
    /\ Ident = IF IsBCD(Slice(case.meter, 2, 6)) THEN Slice(case.meter, 2, 6)
               ELSE <<0, 0, 0, 0>>

\* The call has the meter's key: given for all, or on a ring under the meter's
\* number.
HasKeyOfMeter ==
    IF "all" \in DOMAIN case.keys THEN case.keys.all = case.lock.key
    ELSE LET ident == Slice(case.meter, 2, 6)
         IN  IsBCD(ident) /\ ident \in DOMAIN case.keys.ring
             /\ case.keys.ring[ident] = case.lock.key

\* The meter sent the telegram itself.
FromMeter == Slice(raw, 2, 10) = case.meter

\* What was sent by the book and received whole is decoded, given the key
\* (DecodeWithKeyRing: "the key the ring holds for the sending meter").  A
\* meter whose data another device sends needs a key given for all.  It is
\* refused for want of the right key alone, and the error says whether there was
\* any.
IntactIsDecoded == case.intact /\ case.legal =>
    /\ case.lock.mode = ModeNone \/ (HasKeyOfMeter /\ ("all" \in DOMAIN case.keys \/ FromMeter))
       => turn # "failed"
    /\ turn = "failed" => /\ errors \subseteq {"ErrKeyRequired", "ErrInvalidKey", "ErrDecrypt"}
                          /\ Key = NoKey <=> errors = {"ErrKeyRequired"}

\* A damaged telegram is not decoded, nor taken for one that lacks a key; nor is
\* one that is whole taken for a damaged one: "a receiver loop can tell a
\* corrupted telegram apart from one it simply has no key for" (wmbus/doc.go
\* 66-67).
DamageIsTold ==
    /\ turn = "done" => case.intact
    /\ turn = "failed" => IF case.intact THEN "ErrCRC" \notin errors
                          ELSE errors \cap {"ErrKeyRequired", "ErrInvalidKey", "ErrDecrypt"} = {}

\* Every call returns, whatever the layers.
WirelessEnds == <>Returned

=============================================================================
