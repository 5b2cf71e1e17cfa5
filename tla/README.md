# A TLA+ model of gombus

gombus is the master's side of M-Bus, the bus of heat, water and electricity
meters: one goroutine sends a request on a half-duplex byte stream, a slave
answers with a frame or the single character E5h, and everything hard is in
between: bytes that arrive in arbitrary pieces, answers that are lost, cut short
or garbled by other slaves, deadlines, cancelled contexts and a buffer that
outlives each call. This project models that part of the code, checks it with
TLC and proves its foundation, and what it promises on a bus, with TLAPS.

## 1. Inventory

| Component | Source | State | Operations | Talks to |
|---|---|---|---|---|
| Client, read path | `read.go`, `scan.go` 421-502 | `buf`: bytes read and not consumed | `ReadLongFrame`, `ReadSingleCharFrame`, `probeResponse`, `fill`, `Close` | `Conn` (Read, deadlines), `context` |
| Client, operations | `gombus.go` | the walk's frames and frame count bit | `WriteFrame`, `ReadAllFrames`, `ReadSingleFrame` | the slaves, through the read path |
| Primary scan | `scan.go` 71-134 | address, addresses found | `ScanPrimary`, `probePrimary` | every slave in turn |
| Secondary addressing | `scan.go` 136-419 | mask, meters found | `ScanSecondary`, `SelectSecondary`, `ReadBySecondary`, `sendSelect` | all meters at once, at 0xFD |
| `mbusctl` commands | `cmd/mbusctl` | none beyond a command | `read`, `set-address`, `scan` | a Client of its own for each command |
| Record decoding | `decode.go`, `decode_fixed.go`, `records.go`, `encoding.go`, `datetime.go` | an index into a frame | `Decode` and what it calls | none: pure |
| Units | `vif.go`, `unit.go`, `field.go` | none | table lookups | none |
| Frames | `frame.go`, `commands.go`, `constants.go` | none | builders, bit accessors | none |
| Transports | `conn.go`, `tcp.go`, `serial.go` | the device | Read, Write, deadlines | the bus |
| Wireless M-Bus | `wmbus/` | none | `Parse`, `Decode`, `DecodeWithKeyRing` | none: pure |

The Client is single-threaded by contract (`gombus.go` 29-31): no two calls run
at once. Concurrency is between a call in progress and everything else: slaves,
which transmit when they like, the transport, which cuts the bytes into Reads
and may fail, and time, that is the call's deadline and the caller's context.

What makes each component correct:

- *read path*: no byte lost or taken twice however Reads are cut; no frame
  returned that was not sent; no error for a sound stream; every call ends.
- *operations*: frames come from the slave asked, all of them, once, in order;
  the walk is bounded; what an earlier operation left does not break a later one.
- *primary scan*: no ghosts, all slaves on a sound bus, damage to one answer
  does not hide another slave, failures of the transport are not absences.
- *secondary addressing*: each meter with a number of its own found, once, and
  its data not another's; an operation on a number acts on that one meter.
- *wireless*: no damaged byte accepted, no reading under a wrong key, whole
  telegrams decoded, errors that tell damage from a missing key.
- *decoding*: no read beyond the frame, no record taken out of step, each
  reading the register, number and unit the meter meant, none invented where it
  sent no value.
- *transports*: a call ends when its deadline or its context says so, however a
  transport keeps deadlines.

The hazards behind these, each at its line, are in `PROJECT.json`.

## 2. Modules

    Client                  the buffer, the parser, the read calls (a component)
      Stream                Client + line + arbitrary caller, closed    -> MCStream
        AnswerQueue         abstract: a queue of answers (refined by Stream)
      Bus                   Client + outbox of answers + faults (a component)
        ReadSession         ReadAllFrames, ReadSingleFrame, FCB slaves  -> MCReadSession
        ScanPrimary         ScanPrimary, probePrimary                   -> MCScanPrimary
        Selection           sendSelect and the meters it reaches (a component)
          ScanSecondary     the digit by digit search                   -> MCScanSecondary
          MeterCommands     mbusctl read and set-address                -> MCMeterCommands
      ClientProofs          lemmas about the operators of Client
        StreamProofs        the theorems about Stream
        ReadSessionProofs   the theorems about ReadSession
        ScanPrimaryProofs   the theorems about ScanPrimary
        ScanSecondaryProofs the theorems about ScanSecondary
        MeterCommandsProofs the theorems about MeterCommands
    ReadDeadline            the time a read takes                     -> MCReadDeadline
      ReadDeadlineProofs    the theorems about ReadDeadline
    Encoding                bytes to numbers (operators)
    Units                   VIFs, VIFEs, DIFEs to units (operators)
    Dates                   types F, G, I (operators)
    RecordWalk              decodeData over the bytes of a telegram
      Telegram              Decode, with Encoding, Units, Dates,
                            FixedData (fixed data responses)          -> MCTelegram
    Wmbus                   a wireless telegram, from raw to data     -> MCWmbus
      TelegramProofs        the theorems about RecordWalk, Telegram
                            and Wmbus

**Client.** A byte is named `<<m, i>>`: byte `i` of answer `m`; `Junk` is a byte
that noise made. `parseLongFrame` on such bytes branches as the code does: the
start sequence is that of one answer or of none, L is too small, the frame is
not all there, the stop byte is another, the checksum differs. A call is a value
of `op` and a place in its loop, `at` = `look` or `fill`; each turn of a loop is
one step: `LookForLongFrame`, `LookForSingleChar`, `LookForFirstByte` and
`LookForAnswer` are the halves that inspect `buf`, `FillBytes`, `FillTimedOut`,
`FillCtxEnded` and `FillConnFailed` the ways `fill` returns. An error is the set
of sentinels `errors.Is` finds in it, which is what `wrapFillErr` and
`isBusNoise` are about. A Read that times out changes nothing and is a
stuttering step.

**Stream** lets the caller make any call at any time and the slaves send any of
`Transmissions`. **AnswerQueue** says what that should amount to.

**Bus** is what the composed modules share: requests are handled by the slaves
at once, answers wait in `outbox` and go on the line whole or `Damaged` (a
prefix, or one byte changed); `MaxFaults` bounds lost requests, damage, and in
`ReadSession` the ends of contexts and failures of the transport. `WriteFrame`
is `CanWrite`/`MayRefuse`/`WriteError`.

**ReadSession**: the FCB walk with slaves that repeat a telegram when the bit is
unchanged and advance when it changes, over several operations of one Client.
**ScanPrimary**: one action for each statement of `probePrimary` that talks to
the bus. **Selection**, **ScanSecondary**: the recursion is the mask: digit `i`
is the loop variable of the call at depth `i`, and returning to the caller is
`NextDigit`. `Headless` are the meters whose answer `secondaryFromHeader` refuses.
**MeterCommands**: each command dials, so it starts with an empty
buffer and line, while `selected` and `primary` are the meters' and stay. Its target
is what `parseTarget` accepts: a number, an address, 254, and 253, where it reaches
whoever the last selection picked (`At`). `Meant` is whom a command means when it
begins; at 253 its words name nobody. It begins when the meters have
sent what they had to (`outbox` is empty): the code does not wait for that, and a command
that began sooner could read an answer to the one before.

**ReadDeadline**: `fill` statement by statement, with a clock that may advance
between any two, and a transport that is one of three: `tcp` holds an absolute
deadline; `serial` turns it into a timeout that starts anew with each Read, where
-1 waits for ever and any other negative one is refused (`serial.go` 38-53);
`heedless` returns (0, nil) at once, for which `fill` has its backoff. Bytes may
drip in at every instant, the context may have a deadline, past or to come, and
may end at any moment. It leaves out what the bytes are, as `Client` leaves out
what the time is.

**RecordWalk**: one action for each piece of a record that `decodeRecord` takes
(DIF, VIF, a turn of `readExtensions`, unit text, value, LVAR) and for fillers
and the manufacturer's mark, on real bytes. `i` is the code's index. It is the
walk alone, so that it can be proved about for any bytes. What the walk should find is said
beside it, and without it: `RecordLies` is the grammar of a record, four positions and
the lengths that must fit between them, and `IsLaidOut` what it is for an area to consist of
such records, fillers and a part of the manufacturer. Each area carries its `layout` and where
that ends (`stop`); any bytes have one, which may be empty, so that `LayoutAssumption` leaves
no bytes out. `MCTelegram` searches for it by the grammar (`LayoutFrom`), and TLC
evaluates the assumption for every area of the run.

**Telegram** is `Decode`: the length and CI checks, the walk (its steps are
RecordWalk's `Next`, and keep what the bytes say), the header, the fixed data
response, and the questions `records.go` and `mbusctl read` ask of the frame
(`Find`, `Value`, `Timestamp`, `recordValue`). `readings` are the
records as the caller sees them. The operators it uses are pure: **Encoding**
(`uintLE`, `intLE`, `bcdDigits` with its sign nibble and its overflow,
`uintToBCD`), **Units** (the whole `unitTable`, `decodeUnit` with combinable
extensions and durations, storage, tariff and device numbers), **Dates**,
**FixedData**. An area comes with what its sender put in it (`sent`, `meant`,
`whole`), record for record as `mbusctl read` should show it; only properties
read that. So the reference for a conversion is not a second conversion but the
number, date or text written down beside the bytes in `MCTelegram`. Which of them are
`whole` is not left to the writer: `SendersAssumption` holds it to the header, the CI and
the layout of the area.

**Wmbus**: `Parse` with its fallback from format A to B, a step for each block
of format A; a step for each layer of `parseTransport`; `Decrypt` with the key
that `Key` finds; `DecodeApplication`. Bytes and sizes are the real ones.
`checkCRC` is true of the blocks the sender made and nothing damaged, as
`CRCAssumption` says of every case, and `LayersAssumption` of its layers;
`decryptCBC` gives the meter's plaintext for the meter's key, mode and
initialisation, noise otherwise.

History variables (`credit` and `sound` of the read path and its sessions,
`calm`, `begun`, `clean`, `stalled`, `endedAt`, and `meant` and `told` in a command's
record) are read by properties only; `stalled` also bounds `Tick`.

### Abstractions

- Sizes: a long frame has 4 to 8 bytes with a start sequence (`HeadLen`) of 2 to
  4; `MinSize` stands for L >= 3. Any place in a frame is still cut and damaged.
  A Read returns any part of what has arrived, up to `ChunkSize`, which is less than a
  frame where that makes the run smaller and a frame is to be refused before all of it
  is there.
- A checksum detects every changed byte. L and L changed alike are not modelled
  (one fault changes one byte).
- `E5Bytes` names payload bytes whose value is E5h.
- Time: a deadline passes (`late`) at any moment, the context ends at any
  moment, and a context whose deadline has come may not say so yet (`past`).
- `Prompt` says that a slave that answers does so within the deadline, as
  EN 13757-2 has it and the probe window presumes (`gombus.go` 14-18). The runs
  of the composed modules assume it; without it a late answer is taken for
  another's. A cancelled read has the same effect, and the A field of an answer
  is not compared with the slave asked, so `CalmFramesFromTheSlave` is of
  sessions in which no context has ended yet (`calm`).
- Slaves, from how the code uses them and the fake bus of `scan_test.go`
  25-118: an acknowledgement for SND_NKE and selection, data for REQ_UD2, all of
  the selected at once at 0xFD, what they send together being one of `Overlaps`:
  acknowledgements and noise, but never nothing. What a meter makes of a link reset at
  0xFD is in no source, so any of the selected may stay so (`StillSelected`). A bus has finitely many meters,
  and none of them is the E5h character (`SelectionAssumption`). `Frames` of
  `ReadSession` are the telegrams its slaves have, `<<slave, number>>`.
- Numbers: a value is an integer and a power of ten, with which the code's
  float64 is computed exactly. Rounding is not modelled, nor are floats from the
  wire beyond the bit patterns the run holds (`Float32`). `MaxUint64` is 2^31 - 1,
  TLC's largest integer, so an LVAR BCD number overflows with fewer digits and an
  unsigned integer of eight bytes stops there (`UintLE`).
- The wording `VIFUnitDesc` and the layout of what `mbusctl` prints are left out.
- `extractProductName` takes the labels of `decode.go` 219-232 as a constant.
- The errors of the walk are one, `record`, as none of them wraps `ErrInvalidFrame`;
  `invalid` and `unsupported` are those that wrap `ErrInvalidFrame` and
  `ErrUnsupportedCI`. Those of a value are kept apart (`bcd`, `date`, `unsupported`).
- Time is a number of ticks; what passes while a call is neither in a Read nor
  asleep is counted in `stalled` and bounded by `MaxStall`.
- A CRC detects every change (`CRCAssumption`), and noise never begins with 2F 2F
  (2^-16 each).

## 3. Runs

| Run | Checks | Bounds and why they are enough |
|---|---|---|
| `stream_sound` | `TypeOK`, `StreamAligned`, `NoSpuriousError`, `ImplementsQueue` | 2 long frames of 7 and 8 bytes and E5h, all cuts up to `ChunkSize`; two answers in flight, so one Read spans two frames |
| `stream_noise` | `NoAnswerInvented`, `ExactConsumption` | truncation before and after the start sequence, change of the first byte, a data byte and the stop byte, the collision of `scan_test.go`, an E5h in a payload, failing transport, Close |
| `read_session` | `CalmFramesFromTheSlave`, `WalkIsComplete`, `WalkIsBounded`, `SoundWalkSucceeds`, `EveryJobEnds` | slaves of two telegrams (the cap), of one, with an E5h in it, of one that does not decode, and an endless one; frames of 4 bytes, Reads of up to 3; 3 operations, 2 faults: debris of one, walk of another, and a fault in it |
| `scan_primary` | `CleanScanHasNoGhost`, `SoundScanIsExact`, `ScanEnds` | 4 addresses: ordinary slave, one that skips the link reset's acknowledgement, none, one that only acknowledges; frames of 5 bytes with E5h among them, Reads of up to 3; 2 faults; the context ends and the transport fails anywhere, in each of its ways |
| `scan_secondary` | `FoundOnce`, `SoundSearchFindsAll`, `FoundUnderItsMask`, `SearchEnds` | 2 digits of 0..3, 6 meters: a shared first digit, twins, a meter alone, one that does not tell its number; frames of 4 bytes with E5h among them, cut anywhere; 1 fault; overlaps as one E5h, two, or junk |
| `meter_commands` | `SetMeansWritten`, `ReadIsOfTheMeant`, `OneIsToldFromSeveral`, `OnlyTheMeantAreWritten` | 3 meters, 2 with one number, 2 addresses, 253 and 254, frames of 5 bytes with E5h among them, cut anywhere; overlaps as one E5h, two, or junk; 2 commands, 1 fault: a selection that is not heard after one that was, a command at 253 after a selection |
| `record_walk` | `TypeOK`, `RecordsTile`, `WholeOrRefused`, `ReadingsAreMeant`, `ValueIsSent`, `TimestampIsSent`, `RefusalTells`, `DecodeEnds` | 43 records: every data field and LVAR kind, a sign of every sort, VIF families with their extensions, storage 34, tariff 9 and device 3 over two DIFEs, dates that are right, invalid, impossible and of the wrong width, 6 illegal ones; alone, before 9 others, before a manufacturer's part, between fillers; every cut; product names; wrong headers; fixed data responses in BCD and binary. Values hold bytes special as a DIF; 2 extensions at most for 10, as the limit's two sides matter |
| `read_deadline` | `TypeOK`, `NoOverwait`, `ReturnsAreTrue`, `CallEnds` | 3 transports, a timeout of 5 with polls of 2 and backoffs of 1, so that the last poll is cut; contexts whose deadline is past, in the first poll, in the second, beyond; 2 calls, as a serial port keeps its timeout; 3 ticks of stall, enough for a deadline to pass between `Arm` and `SetReadDeadline` |
| `wmbus` | `SlicesFit`, `PayloadIsSent`, `NoWrongReading`, `IntactIsDecoded`, `DamageIsTold`, `WirelessEnds` | framing: payloads of 0 to 242 bytes at the block boundaries (16, 128), every byte damaged, L set to each limit, every cut, a byte behind; layers: 12 fronts (none to two layers, optional fields, broken ones), 3 headers, modes 0, 5, 7, 13, 0 to 2 blocks, every cut, 7 ways to give keys, telegrams of one meter sent by another, a number that is no BCD |

The digits are 2 of 4 values for 8 of 10 because the search treats each position
and each value alike; the cap on frames is 2 for 64 because only its two sides
matter. `TypeOK` of the composed modules
(`ClientTypeOK`, the outbox) is theirs only by inclusion and is checked where the
Client is closed, in `stream_sound`. Every passing property has a mutant of the code it is about
(`PROJECT.json`, the definitions commented `Mutant:`), which violates it.

Deadlock is not checked where the system really stops: a scan that is over, a
bound that is reached.

Three runs show where the code does something else than its own comments say; each
checks one property that states what the comment says (`findings` quote it).

- `scan_ghost` (`NoGhost`): a reply that is refused at its first bytes is still arriving
  when `probeResponse` drops what is buffered. Its rest fails the probes that follow, or
  answers them if it has an E5h, and the answers of the slaves are then read one
  probe late: one damaged byte makes an address without a slave be found.
- `set_several` (`SecondarySetWritesOne`): `sendSelect` looks for a second E5h in what is
  buffered and does not wait for it. If it comes in a Read of its own, `set-address` on a
  number that two meters have writes both of them instead of failing. So it does when the
  two arrive as one byte, which no master could tell; `OneIsToldFromSeveral` has it that
  there is no third way.
- `stale_answer` (`FramesFromTheSlave`): what is left of an answer that was cut short
  makes the slave's next answer be refused, and both stay buffered. If an E5h is in the
  first, the walk of another slave takes it for the link reset's acknowledgement and the
  second for that slave's frame; no A field is compared.

Three more things are so by the code, and contrary to what it says. The model has them as
the code does; no run is about them.

- Acknowledgements that overlap to fewer than four bytes, none of them E5h, time out and
  count as silence (`scan.go` 269). `ScanSecondary` prunes the branch, though 272-273 call
  a reply that does not parse the normal shape of a collision: with `Overlaps` of one junk
  byte `SoundSearchFindsAll` fails without any fault.
- A transport that breaks in mid-frame otherwise than by EOF makes an absent slave
  (75-77 and 482-484), as `wrapFillErr` joins `ErrNoLongFrameFound` to its error. As a rule
  the next write fails; when it is the last address the sweep ends without an error.
- `set-address 253 n` is accepted (`addr.go` 35-36) and writes the meter that the last
  selection picked, be it of an earlier command, though the usage names only 1..250, 254
  and a number (`setaddr.go` 18-19) and 67 speaks of the meter the target names.

Half an answer that stays in the buffer after a timeout hides the next slave
(`probeResponse` drops the buffer on a parse error only). `SoundScanIsExact` is
therefore of scans without damage. `ReadLongFrame` returns a parse error with the
refused bytes still buffered, and a later `ReadSingleFrame` on that Client meets them
again; the walk of `ReadAllFrames` does not, as its wait for E5h skips them, unless
they have an E5h.

These properties hold under a condition that is part of them, and not without it:

- `CleanScanHasNoGhost`: no reply has been refused before all of it was read
  (`clean`). It is of any damage and loss otherwise, also of half answers.
- `SoundWalkSucceeds`: what earlier calls left in the buffer holds no E5h, which
  the walk would take for the link reset's acknowledgement.
- `CalmFramesFromTheSlave`, `WalkIsComplete` and the second part of
  `WalkIsBounded`: no context has ended (see `Prompt` above), and no walk has begun
  with an E5h left over by earlier calls (`calm`; the run `stale_answer`).
- `FoundOnce`, `FoundUnderItsMask`, `SoundSearchFindsAll`: no probe has returned
  before its answer was all there (`clean`). Reads cut the answers anywhere all the same;
  what is excluded is that an answer ends for the code before it ends on the line, as a
  second E5h or a refused frame does. Without it, and with one fault, a meter can be
  found twice or under another's mask; without any, it can be missed: TLC refutes
  `FindsAll` on its own with the bounds of `scan_secondary`.
- `OneIsToldFromSeveral`: acknowledgements of several did not come as one E5h, nor was
  the rest of them still on the line (`set_several`).
- `OnlyTheMeantAreWritten`, `ReadIsOfTheMeant`: at 253 a command means the meters that
  were selected when it began, which it does not name.
- `PayloadIsSent`: or the payload is empty. The first block of a format A
  telegram with L = 11 is a whole format B telegram without a payload, which
  `Parse` returns when it refuses the second block; `Decode` then fails for want
  of a CI.
- `IntactIsDecoded`: with keys on a ring, the meter sent the telegram itself.
  `DecodeWithKeyRing` takes the link layer's number, `modeFiveIV` and
  `deriveKey` that of a long header; if they differ, the call fails even with
  the named meter's key on the ring.
- `ReadingsAreMeant`: a record that carries no value (no data, an empty text, a
  special function) is held to its register only; the code gives it 0.
- `ValueIsSent`: the register's first current record carries a number or none.
  `Value` of a text or a date is not an error in the code.
- `TimestampIsSent`: dates are in integer fields. A record whose VIF is a date
  and whose field is BCD, LVAR or empty has no time and no error, so that
  `Timestamp` returns the zero time with ok = true.

Read beside the code, the unit table shows three more things that no property is
about, and the model has them as the code does: 0x279 scales by 10^-3 where the
sequence of its neighbours has another step (`unit.go` 818-819), all but one code
of the FBh table has the type 0 although `vif.go` 7-9 gives offsets, and 0x6F has
the scale 0.

Two promises of `decode.go` are not kept either, and the model shows how. `Decode` is to
return `ErrInvalidFrame` for bounds and consistency violations (27-29, 98-100), but the
errors of the record walk (30, 251-254, 308, 484, 548, 558, 570) wrap neither that nor
`ErrUnsupportedCI`: `RefusalTells` says which error is returned of what. And where there is
a `ValueErr`, `Value` is to be zero (48-52), but 391 scales the raw bits that 432 has kept
of a date which is none.

### Fairness

`Step`/`Master` is weakly fair: the calling goroutine runs, and each Read
returns within `readPollInterval` (`read.go` 32-36, 167-173). `Deadline` is
weakly fair: time passes, and `fill` looks at it on each turn. `Transmit` is
weakly fair: a prompt slave sends. Nothing is assumed of faults, cancellation or
failure of the transport. `Telegram` and `Wmbus` are computations without I/O,
weakly fair as a whole. In `ReadDeadline`, `Step` is weakly fair, and `Tick`
strongly: each byte takes its time on the line, so that bytes arriving for ever do
not stop the clock. That each call of a Client ends is thus due to `fill`'s own test
of its deadline, also with bytes buffered, and the mutants of `EveryJobEnds`,
`ScanEnds` and `SearchEnds` show that.

## 4. Proofs

Every theorem is about all values of the constants that the named assumptions of its
modules allow: any slaves, answers, sizes of frames, E5h bytes in them, cuts into Reads,
faults and failures. Where it has a hypothesis, as in `Prompt => (Spec => []P)`, the
hypothesis is one of these, and the run of the property satisfies it:

- `Prompt`: see Abstractions.
- `Legal`: the slaves' frames have at least the size of the smallest (L >= 3).
- `Telling`: what acknowledgements sent at once arrive as is not a proper start of a
  frame, to which the code waits for an end. Otherwise it counts as silence (section 3).
- `Debris`: what arrives of an answer that was not left whole has no whole frame in it
  and does not begin inside one: noise makes no frames.
- `SoundLine`: the condition that the properties of `stream_sound` have themselves.

`ClientProofs` has lemmas about `Client`'s operators: what the parser can return
and of what sizes, that each step keeps the types, what each turn of a call's loop may
do, and how an answer goes from the line to the buffer (`Reply`, `Part`, `Split`,
`Starved`). The proofs about the composed modules rest on them.

**`StreamProofs`**, six theorems:

- `TypeCorrect`: `Spec => []TypeOK`. In particular no call returns
  `errNeedMore`, the parser's internal error (`read.go` 21-23).
- `StreamStaysAligned`: `Spec => []StreamAligned`.
- `NoErrorIsSpurious`: `Spec => []NoSpuriousError`.
- `ConsumptionIsExact`: `Spec => ExactConsumption`.
- `NoneIsInvented`: `Debris => (Spec => []NoAnswerInvented)`.
- `ClientIsAQueue`: `SoundLine => (Spec => ImplementsQueue)`, the refinement of
  `AnswerQueue`.

The inductive invariant is `TypeOK`, `StreamAligned` and `NoSpuriousError` with
`Busy`: between calls the loop is at its head, a running call has not yet
written `ret`, and on a sound line the transport is up. Alignment is what makes
the parser succeed: the first byte of the buffer is the first of an answer, so
the start sequence is there or is yet to come, and cannot be refused; conversely a
frame is dropped only whole, so what follows it begins with a first byte again.
Alignment is stated by the places of first bytes, not by recursion on the stream, so that
the provers need no induction over sequences.

`NoAnswerInvented` counts, and so does its invariant `Backed`: in what is buffered and
in flight each long frame stands at no more places than its credit. A transmission adds
the places it has within it, none across its beginning; a step of the client drops bytes
at the head, and if it returns the frame, one of the places dropped is the frame's.
The refinement mapping `Answers` gives the k-th answer as the one whose first byte has
k - 1 first bytes before it, so that arriving and taking are statements about sets:
`ArriveLemma` and `TakeLemma` show that they are `Append`, `Head` and `Tail`. All other
steps of a call leave the queue alone (`StepKeeps`).

**`ReadSessionProofs`**, five theorems about the operations of one Client:

- `SessionTypeCorrect`: `Spec => []SessionTypeOK`: types, and that a call of the client
  is in progress only where an operation waits for it.
- `CalmReadsAreOfTheSlave`: `Prompt => (Spec => []CalmFramesFromTheSlave)`.
- `CalmWalkIsComplete`: `Prompt => (Spec => []WalkIsComplete)`.
- `CalmWalkIsBounded`: `Prompt => (Spec => []WalkIsBounded)`.
- `SoundWalksSucceed`: `Legal => (Spec => []SoundWalkSucceeds)`.

What a call may return depends on where bytes are. As long as the session is calm,
`CalmInv` has it that the next `ReadLongFrame` is refused by what is in `buf` already
(`Blocked`), or nothing is under way (`Fresh`), or the transport is over (`Dead`), or
the slave's answer waits (`Waiting`) or is on its way behind what earlier calls left
(`Arriving`); what is left calls for more bytes than it can get (`Starved`), so a whole
frame found is the answer itself. `WalkInv` says where a walk stands: of what is to be
read only the last byte may be an E5h, and if one is, the slave has started over
(`AckIsLast`); an answer taken was to the request heard last (`Heard`, `Asked`), whose bit
the slave has, so that its telegram is the one after those in `frames`. That the walk is
complete is then the accounting of the frame count bit: a repeated request is never
answered with a new telegram nor a new one with an old. `SoundInv` is of walks nothing has
hit: each statement of `ReadAllFrames` finds exactly the bytes it waits for. It needs no
`Prompt`, as a deadline that passes is one of the things that end such a walk's soundness.

**`ScanPrimaryProofs`**, two theorems:

- `CleanScanIsTrue`: `Prompt => (Spec => []CleanScanHasNoGhost)`.
- `SoundScanFindsAll`: `Prompt /\ Legal => (Spec => []SoundScanIsExact)`.

The invariants name the places the bytes can be in. `CleanInv` says that as long as
the sweep is clean, either nothing is under way (`Fresh`), no byte will be read any more
(`Deaf`), the slave has its reply yet to send (`Waiting`), or the reply is in `buf` and
`line`, each byte at its place or changed, behind what an earlier one left (`Arriving`);
and what is left is `Starved`: it calls for more bytes, and no reply to a later probe can
complete it, since a whole frame that the parser finds must be the reply itself
(`TakenIsTheReply`). `SoundInv` is stronger and of sound buses only: the bytes are
just those of the reply expected (`Silent`, `Due`, `Coming`), a call that returned said
what it should (`Told`), and `found` are the slaves of the addresses passed (`Swept`).
`Prompt` is used where a deadline passes: only then is a slave that has not answered
one that will not.

**`ScanSecondaryProofs`**, three theorems about the search by selection, for any cut
into Reads:

- `SearchFindsOnce`: `Prompt => (Spec => []FoundOnce)`.
- `SearchFindsUnderTheMask`: `Prompt => (Spec => FoundUnderItsMask)`.
- `SoundSearchIsComplete`:
  `Prompt /\ Legal /\ Telling => (Spec => []SoundSearchFindsAll)`.

`HeardInv` is the same account of places, and adds that whoever answers was selected by
the mask in force: a selection or request that is lost leaves nothing to be read, so no
meter selected earlier answers in place of another. `OrderInv` is about the order of the
search. The numbers below the mask, digit by digit, are those it has `Passed`; a meter is
found under a mask it matches, therefore not passed yet, and `NextDigit` passes it; so it
cannot be found again. `NextDigit` passes exactly the numbers that match the mask, and
`Narrow` passes none. On a sound bus `SoundOrder` adds the converse, that whoever is
passed has been found, has a twin or does not tell its number: one selected meter is always told from none and from
several (`SoundPlaces`). The search's order on numbers is reasoned about with least and
greatest elements, for which the well-foundedness of < is cited, not induction.

**`MeterCommandsProofs`**, four theorems about `mbusctl read` and `set-address`:

- `SetIsWritten`: `Spec => []SetMeansWritten`.
- `ReadIsTrue`: `Spec => []ReadIsOfTheMeant`.
- `OthersAreNotWritten`: `Spec => OnlyTheMeantAreWritten`.
- `SelectionIsOfOne`: `Spec => OneIsToldFromSeveral`.

They need no hypothesis at all, not even prompt slaves or a Read that returns what there
is. The reason is that a command dials: `BytesInv` has every byte it may find sent by the
meters it means. `WriteInv` counts acknowledgements: one meter's is one byte, so when it
has been taken there is nothing that could be taken for that of the write (`Few`, `Mute`).
`TargetInv` is about whom the frames reach: in a command by number, the meters selected
are those it means before anything is written; at an address or 253, no others than when
it began. `SoundInv` has what several acknowledgements make in one place, in pieces or
whole (`Several`): the code takes it for one only if it is one E5h, or if part of it is
still on the line (`TakenForOne`).

**`TelegramProofs`**, seventeen theorems. Twelve are about `RecordWalk` and then `Telegram`. Of
these five are for any bytes whatever, also such as no meter sends, and any limit on
extensions:

- `WalkStaysInside`: `Spec => []TypeOK`: no byte is read past the end.
- `RecordsDoTile`: `Spec => []RecordsTile`: records follow one another and leave
  out nothing but fillers.
- `NothingIsLeftOut`: `Spec => []AllIsRead`: a walk that ends without an error has
  come to the end of the data.
- `DecodeStaysInside`: `TelegramSpec => []TypeOK`.
- `NoReadingIsDropped`: `TelegramSpec => []Complete`: a variable data response that is
  decoded has one reading for each record of the walk and nothing left out.

The inductive invariant of the walk adds `Pending`: from the end of the last
record to the index, or to the start of the record in progress, there are only
fillers. Without it nothing is known of the gap when the next record is
appended. Every step of `TelegramSpec` is one of `RecordWalk`'s `Spec` or leaves its
variables alone, which carries the invariant over to `Decode`. Nothing is assumed of
`Float32`, `ProductLabels` or the bytes.

Seven say that the walk finds what is there and that what is read of it, and what a caller
is told of it, is right:

- `WalkFindsTheRecords`: `Spec => []FoundIsLaid`: record for record, the walk finds the
  layout of the area, and it fails just when no record lies where the layout ends.
- `LegalIsDecoded`: `TelegramSpec => []WholeOrRefused`.
- `RefusalsTell`: `TelegramSpec => []RefusalTells`.
- `EachReadsItsOwnBytes`: `TelegramSpec => []OwnBytes`: the k-th reading is what the bytes
  of the k-th record say, wherever it lies and whatever was read before it.
- `NoReadingIsMistaken`: `RecordsReadAsMeant => (TelegramSpec => []ReadingsAreMeant)`.
- `NoValueIsMistaken`: `RecordsReadAsMeant /\ HeadersReadAsMeant =>
  (TelegramSpec => []ValueIsSent)`.
- `NoTimeIsMistaken`: `RecordsReadAsMeant => (TelegramSpec => []TimestampIsSent)`.

`FInv` has the walk between two records not past the next one of the layout
(`Between`), and within a record at the start of that one, with the pieces read so far
lying as the grammar has them (`InPiece`: the VIF is at some `v`, and the bytes from the
DIF to `v` are its extensions). A chain of extensions has only one end
(`ExtensionsAreUnique`), so a record in progress that ends is the one of the layout, and one
that fails shows that none lies there. `RInv` adds that the bytes in hand are those between
the pieces (`InHand`), and nothing is left over from the record before.

`RecordsReadAsMeant` and `HeadersReadAsMeant` are hypotheses and no assumptions of the
module: they say of each record of a telegram by itself, and of its header, that the
bytes decode to what is meant. That is what the decoders of `Encoding`, `Units` and `Dates`
do, which is checked by TLC and not proved. They hold of every area of the run `record_walk`,
where the same facts are the invariants `ReadingsAreMeant` and `ValueIsSent`, which
fail if a decoder is wrong. What the theorems add is that nothing then depends on which
records stand together, in which order and number. `LInv` is a closed form of `Decode`:
what is returned of a whole telegram is its header and `RecordsOf` the area, and any other
is refused. For the two look-ups it remains that a record matches a question just when what was sent for it
does (`SameRegisters`, `SameTimes`), so that the first that matches is the same in both
(`FoundAlike`), and that no record has the error of one that is not there
(`ReturnedErrs`); so `Value` cannot say `ErrNoRecord` of a register that was sent.

Five are about `Wmbus`, for payloads of every length, any layers and any keys:

- `NoSliceIsTooLong`: `WirelessSpec => []SlicesFit`: whatever bytes come in
  (`ReceivedAssumption`), no slice is taken past the end, and none of the lengths that a
  layer gives leads the walk behind the payload.
- `NoDamageIsAccepted`: `WirelessSpec => []PayloadIsSent`.
- `DamageIsNeverHidden`: `WirelessSpec => []DamageIsTold`.
- `NoReadingIsWrong`: `WirelessSpec => []NoWrongReading`.
- `WholeIsDecoded`: `WirelessSpec => []IntactIsDecoded`.

All but the first assume `CRCAssumption`, of which TLC makes sure in the run `wmbus`, whose cases
are built by damaging telegrams: a CRC is right behind the blocks that were sent and have
come unchanged, L among them, and behind no other bytes. Of the rest of the telegram
nothing is assumed; it may be cut, changed or longer. `InBlocks` is the invariant of the
loop of `stripFormatABlocks`: after k blocks `payload` is the first 16 k bytes of what was
sent, and `pos` the place of the next block. `HeaderIsRight` is what keeps the formats
apart: the first CRC covers L, so that L is the sender's, and `BlocksOfA` shows that the
first block of format B, which lies elsewhere, can be right in a format A telegram only if
it is the header alone. Hence the empty payload in `PayloadIsSent`. It is refused for want
of a CI, so that nothing damaged reaches the step where a key is looked for; that is
`DamageIsTold`.

The last two assume of the sender what `LayersAssumption` says, which TLC evaluates for every
case of the run: where each layer of the payload begins and which message counter came
before it (`layers`); that behind them is a header that fits, with the meter's address
in it if it is a long one and the data behind it, encrypted as it says; or else that the
telegram is not legal. It is stated on the payload alone, by position, and says nothing of
the walk. `LayerInv` is the walk in these words: `parseTransport` is in front of a layer the
sender wrote and holds the counter written before it (`AtLayer`), and stops at the last one
(`LayersInTurn`), with the meter's address, access number, mode and data (`HeaderIsSent`). So a
refusal on the way means a telegram that is not legal, `Initialisation` is the sender's
for each mode, and what is opened is either what was encrypted or noise (`OpenedRight`).
A meter whose data another device sends is found by `KeyIsFound` only under a key for all.

**`ReadDeadlineProofs`**, three theorems, for every timeout, poll and backoff, any
contexts and any stall:

- `ReadsAreArmed`: `Spec => []TypeOK`, in which a Read is never armed with a
  negative time, that is never waits for ever.
- `NoCallOverwaits`: `Spec => []NoOverwait`.
- `WhatReturnsIsTrue`: `Spec => []ReturnsAreTrue`.

The inductive invariant `InTime` says for each statement of `fill` how late it can be:
`now - stalled`, the time the call has really spent, is at most the deadline
before a Read, the end of the poll within it and one backoff more after it. With the time
that passes while a call is kept from running counted apart, each `Tick` either
is spent waiting for an instant the invariant bounds or is a stall.

Left to TLC: liveness under fairness, which TLAPS does not do (`EveryJobEnds`, `ScanEnds`,
`SearchEnds`, `DecodeEnds`, `WirelessEnds`, `CallEnds`), and the violations. That the
recursive functions of `Encoding` compute the number meant for every width is induction
over data, and beyond TLAPS.

## 5. Not modelled

Printing, JSON and flag parsing have no state. `FindAll` and `Records` return every match
where `Find` returns the first. `json.go` 145 hands every float to
`encoding/json`, which refuses NaN and infinities; the model's floats are numbers.
AES, CMAC and CRC are bit arithmetic tested against published vectors. A serial
write has no deadline (`serial.go` 57) and `WriteFrame` may then never return, which
is the driver's doing. `read
-all` on a secondary target depends on what a meter does with SND_NKE at 0xFD,
which nothing in the repository says. The manufacturer filter of
`SelectSecondary` is never set by a command.

## 6. Plan

In order of weight:

1. `Client`, `Stream`, `AnswerQueue`; the composed modules. (done)
2. `ClientProofs`, `StreamProofs`. (done)
3. `RecordWalk`: the walk over data records. (done)
4. `Wmbus`: frame formats, transport layers, keys and modes. (done)
5. `Encoding`, `Units`, `Dates`, `FixedData`, `Telegram`, `TelegramProofs`: from the
   bytes of a telegram to the readings of a meter. (done)
6. `ReadDeadline`, `ReadDeadlineProofs`: deadlines, polls and transports. (done)
7. `ScanPrimaryProofs`: a sweep finds no ghosts and, on a sound bus, exactly the
   slaves. (done)
8. `ReadSessionProofs`, `ScanSecondaryProofs`, `MeterCommandsProofs`: whose frames a walk
   returns, what a search finds, whom a command writes; the refinement of `AnswerQueue`
   and `NoAnswerInvented`. (done)
9. `Wmbus`: no slice past the end, no byte of a damaged block in the payload, no damage
   hidden; no wrong reading, and none of a whole telegram refused. (done)
10. `RecordWalk`, `Telegram`: the walk finds the records that lie in the data, a telegram
    is decoded just when it is legal, each record is read from its own bytes, and a look-up
    finds the record it asks for. (done)
11. Still open: what the operators of `Encoding` and `Dates` return for every width, and with
    it `RecordsReadAsMeant` and `HeadersReadAsMeant` from a description of the values a meter
    may send.
