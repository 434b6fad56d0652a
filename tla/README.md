# A TLA+ model of dsmr_parser

`dsmr_parser` is a header-only C++20 library that reads the P1 port of smart
electricity meters.  It turns single bytes into telegrams, decrypts telegrams
that come in DLMS packets, and parses a telegram into fields.  This directory
models its state machines and its algorithms, checks the models with TLC on
small instances, and proves the most important results with TLAPS for every
value of the constants.

Paths below are relative to the repository; the library is in
`src/dsmr_parser/`, its tests and examples in `tests/`.

## 1. The system

```
  P1 port, plain:      byte -> PacketAccumulator ------------------\
                                                                    >-- telegram --> DsmrParser::parse --> ParsedData
  P1 port, encrypted:  bytes + gap -> DlmsPacketDecryptor ---------/
                                            |
                                            v
                                   Aes128GcmDecryptor (interface)
                                   = BearSSL | Mbed TLS | TF-PSA
```

The library starts no thread and owns no timer.  The caller's loop feeds bytes
and calls functions; what comes in which order is decided by the line and by
the caller.

| Component | State it keeps | Operations | What makes it hard |
|---|---|---|---|
| `PacketAccumulator` (packet_accumulator.h) | the caller's buffer and how much of it is used, one of three states, a 16-bit CRC accumulator with the number of its digits | `process_byte` | the returned view points into the buffer that goes on being written; a byte that meets a full buffer is dispatched in another state than the one it came in; `/` is legal everywhere; the line loses, changes and makes up bytes |
| `DlmsPacketDecryptor` (dlms_packet_decryptor.h) | none of its own; the caller's bytes are changed in place | `decrypt_inplace` | lengths in `size_t` wrap around; a failed call leaves the bytes in any state; calls may be repeated on the same bytes |
| `Aes128GcmDecryptor` (decryption/aes128gcm.h) | the key that is set | `set_encryption_key`, `decrypt_inplace` | an interface: what its user may rely on is nowhere written down |
| `Aes128GcmBearSsl` (decryption/aes128gcm_bearssl.h) | `initialized`, two contexts, uninitialized at first | the same | the bytes are changed before the tag is compared |
| `Aes128GcmTfPsa` (decryption/aes128gcm_tfpsa.h) | `initialized`, `key_id`; keys and operations in a service with few slots | constructor, destructor and the same | every call of the service may fail after the earlier ones succeeded |
| `Aes128GcmMbedTls` (decryption/aes128gcm_mbedtls.h) | one context of the library | the same | a key that could not be set is told to nobody |
| `Aes128GcmDecryptionKey` (decryption/aes128gcm.h) | sixteen bytes | `from_hex` | what `std::from_chars` takes for a number |
| `DsmrParser`, `ParsedData` (parser.h) | the position of the scan, the start of the line, whether a bracket is open; of each field its value and whether it is present | `parse` | one call, but a long one: ends of line inside values, lines that go on in the next one, doubled brackets, repeated fields; the same `ParsedData` may be passed again |
| Value parsers (parser.h) | none | `parse_obis`, `parse_string`, `parse_num`, `parse_float_or_int` | what is read, what is left, and arithmetic in `int32_t` |
| Field kinds (fields.h) | the value of the field | `parse` of each kind | narrowing, half-stored values, a count that comes from the line |
| Field catalogue, units (fields.h) | none | none | 154 definitions by hand; ids that depend on channels chosen at build time |
| `Logger`, `NonCopyable`, telegram types (util.h) | the log sink | `log` | no part in any result |
| Receive loop (tests/dlms_packet_decryptor_example_test.cpp) | how much of the buffer is used, time of the last byte | `loop` | a packet has no first and no last byte: a gap of a second ends it; an overflow starts over in the middle of one; bytes arrive while the loop runs |

What makes each of them correct:

* **PacketAccumulator.**  It never writes outside the buffer.  It returns a
  telegram exactly when the bytes since the last `/` are one, whatever came
  before that `/`.  A returned view stays good until the next `/`.  On a bad
  line it returns nothing that was not sent, returns everything that arrived
  whole, and always finds back.
* **DlmsPacketDecryptor.**  It decrypts exactly the spans laid out as a packet,
  it hands out no range outside the caller's span, and what it returns is
  authenticated plaintext, also after failed calls on the same bytes.
* **The decryptors.**  Each keeps the one promise `DlmsPacketDecryptor` relies
  on: true only for untouched bytes opened with the meter's key.  TF-PSA leaks
  no key and no operation.
* **from_hex.**  A printed key is read as what it prints; anything else gives
  none.
* **DsmrParser.**  It accepts exactly the telegrams of the format and fills
  every field from its own line; a value that a `ParsedData` once has stays.
* **Value parsers and field kinds.**  A line is read exactly when it prints a
  value of the field, and then the field holds that value; a line of small
  numbers is read without an overflow.
* **Field catalogue.**  The line of each field fills that field, whatever other
  fields are asked for and whichever channels were chosen.
* **Receive loop.**  A packet that arrives whole and fits is handed to the
  decryptor, alone and complete, whatever came before it.

## 2. The modules

### The receiver of a plain P1 port

`PacketAccumulator` is `packet_accumulator.h`.  Its variables are the members
of the class and of the two classes nested in it: `buffer` and `packetSize` of
`DsmrPacketBuffer`, `crc` and `amount_of_crc_nibbles` of `CrcAccumulator`,
`state` and `check_crc`.  `returned` is the length of the view that the last
call returned (0 for `nullopt`); the view itself is the first `returned` bytes
of `buffer`.  One step is one whole call of `process_byte`, and each action is
one path through it:

| Action | Path through `process_byte` |
|---|---|
| `Size`, `DispatchState` | the overflow check: a byte that meets a full buffer empties it and is then dispatched in the first state |
| `StartSymbol` | `/`, in every state |
| `SkipByte` | any other byte while waiting for `/` |
| `PayloadByte` | a byte of a telegram |
| `EndWithoutCrc`, `EndBeforeCrc` | `!`, without and with `check_crc` |
| `NotACrcCharacter`, `PartialCrc` | a character of the CRC that is none, and the first three digits |
| `CrcMatch`, `CrcMismatch` | the fourth digit |

The CRC is a parameter, `Crc16`.  Module `Crc16` is `calculate_crc16`, for TLC
only (it takes exclusive ors of bits).

`TelegramStream` is the abstract specification: it has no states and no
buffer, it says of the bytes since the last `/` (`since`) when they are a
`Complete` telegram.  `PacketAccumulatorHistory` adds two history variables to
the receiver, `since` and `held` (what a caller saw in the last view), states
the refinement as `ImplementsTelegramStream`, and states `HeldTelegramIntact`.

`P1Line` composes the receiver with a meter that sends one telegram after the
other and a line that disturbs them: `LoseByte`, `ChangeByte`, `InsertByte`.
The receiver may be switched on anywhere in a transmission.

`TelegramStream` also fixes a limit that is easily overlooked: a telegram whose
CRC is checked must leave one byte of the buffer free (`Spare`), because the
first digit of the CRC that meets a full buffer empties it.  The example asks
for a buffer "large enough to hold the full DSMR message"
(`tests/packet_accumulator_example_test.cpp:21`); one that has room for the
message with its CRC is large enough.

### Encrypted packets

`DlmsPacket` is the class of that name inside `dlms_packet_decryptor.h`: the
length checks in `size_t` of any width (`SizeT` wraps around), and
`WellFormed`, the layout the header promises, which is not written as the code
is.  `DlmsPacketDecryptor` is `decrypt_inplace` around an arbitrary decryptor.
A packet is a record of the facts that decide what comes out: lengths, the key
it is sealed with, whether it is intact, where the plaintext has its `!`.

`Aes128GcmDecryptor` is the interface as its user relies on it.  Its state is
the key and what has become of the bytes: `sealed`, `plain` or `spoiled`.
`DlmsPacketDecryptor` instantiates it and uses its actions `Opens` and `Fails`,
and the three backends are shown to implement it:

* `Aes128GcmBearSsl`: keystreams are put on the bytes by exclusive or, so the
  state of the bytes is the set of keys whose keystream lies on them;
* `Aes128GcmMbedTls`: the context loses its key when a new one cannot be set,
  and the bytes are wiped when the tags differ;
* `Aes128GcmTfPsa`: one step for each call of the service (two for the two in
  a row that change nothing here, `Prepare`); `Fail` is a failure of any of
  them.  The mapping shows the bytes as they were until the call returns.

The libraries behind the backends are outside the repository and are modelled
by how the code uses them: BearSSL takes the ciphertext into the tag before it
puts the keystream on; `mbedtls_gcm_setkey` frees the old key before it can
fail, and `mbedtls_gcm_auth_decrypt` wipes what fails; `psa_aead_verify` ends an operation and
`psa_aead_abort` ends one that was begun; `psa_destroy_key` succeeds (the code
ignores its result); a tag cannot be forged.

`DecryptionKey` is `from_hex`.

`MCAes128GcmBackends` runs the backends of BearSSL and Mbed TLS side by side on
the same calls.

`DlmsReceiveLoop` is the loop of the decryptor's example, the only place that
says when a packet is complete, with the meter and the line around it.
`ReadByte` and `NothingAvailable` are the `while` of the loop, one byte a step,
so that bytes arrive between its steps; `HandOver` and `KeepWaiting` are the
test of the timeout.  `Tick` is time.  Clocks are kept as ages (how long ago
the last byte was read, sent, and the loop ended), which makes the state
finite.  `LoseByte` and `ChangeByte` disturb a packet, `Pause` lets the meter
stop in the middle of one.  What is handed over is `handed`; what the decryptor
makes of it is `DlmsPacketDecryptor`.

### The parser

`DsmrParser` is `parse` of `parser.h` with `ParsedData`.  The loops of `parse`
advance one character a step: `IdLineCharacter` and `IdLine` for the first
line, `Bracket`, `OtherCharacter`, `ContinuedLine`, `DataLine` and `End` for
the others.  A line is handed to `Store`, `Duplicate`, `BadValue` or `Unknown`,
the four ends of the fold over the fields.  `parse` knows an unknown line by
where the view it gets back begins; that is `Moved`, and whether a field takes
anything of its line is the parameter `Consumes`.  `LineParsers` holds `parse_obis`,
`parse_string` and the two kinds of field that hold text.  `ParseIntoSame` is
another call with the `ParsedData` of the one before, which `parse` does not
clear; `before` is what it held then.

`TelegramFormat` says without a scan which telegrams are accepted and what they
contain: it counts brackets, cuts at the ends of line that break, and asks that
no field have two lines.  `AcceptsTheFormat` and `HoldsTheTelegram` compare the
scan with it.

`NumberParsers` is `parse_num` and `parse_float_or_int`, on characters, with
`int32_t` of any width: an overflow stops the program (`status = "trapped"`),
since it is undefined.  `NumericFields` is the `parse` of the numeric kinds of
field, one call a behaviour.  `PrintedNumbers` says the same from the other
end: a line is made of printed values (sign, whole part, point, decimals, what
follows), and `Says` and `IsValue` read off those parts whether a field can be
read and what it must hold.  Both are promised for lines that are `Small`: the
values that the field reads as numbers (`Numbers`), and the count of an average,
fit into an `int32_t`.  What it takes as strings, timestamps above all, may have
any digits.

`FieldCatalogue` is the table of `fields.h`: id, kind and units of the 154
fields, with the M-Bus channels as a parameter.  `FieldDispatch` is
`ParsedData::parse_line` with fields of the catalogue: from the printed id of a
line, through `parse_obis`, to the field.

## 3. The runs

Every run is a module `MC...` and a configuration.

| Run | Question | Properties | Distinct states |
|---|---|---|---|
| `accumulator` | Does the receiver return exactly the telegrams, and do views stay good? | `TypeOK`, `HeldTelegramIntact`, `ImplementsTelegramStream` | 1,354,962 |
| `p1_line` | What does a caller get from a bad line? | `CleanFrameDelivered`, `OncePerFrame`, `ExtraTelegramsCostNoise`, `DeliveredWasSent`, `Resynchronises` | 43,268 |
| `dlms` | Which spans are decrypted, and what is returned? | `AcceptsExactlyPackets`, `RangesInsideSpan`, `ViewIsAuthenticated` | 951 |
| `bearssl_mbedtls` | Do the BearSSL and the Mbed TLS backend keep the promise of the interface? | `ImplementsDecryptor`, `MbedTlsImplementsDecryptor` | 1,242 |
| `tfpsa` | Does the TF-PSA backend, and does it leave nothing behind? | `NoOperationLeaks`, `NoKeyLeaks`, `ImplementsDecryptor` | 1,820 |
| `decryption_key` | Are printed keys read? | `PrintedKeyIsRead` | 45,218 |
| `decryption_key_symbols` | Are other strings refused? (no: see 5) | `OtherSymbolsAreRefused` | - |
| `parser` | Is the format accepted, do the fields hold it, and does a second telegram leave them alone? | `ScanStaysInside`, `AcceptsTheFormat`, `HoldsTheTelegram`, `FirstValueStays` | 255,559 |
| `numeric_fields` | Is a line read when it prints a value, and as that value? | `FieldHoldsTheLine`, `SmallNumbersDoNotOverflow` | 35,485 |
| `field_dispatch` | Does the line of each field fill it? | `EachLineFillsItsField` | 95,988 |
| `field_units` | Is the integer unit the unit of `int_val()`? (no: see 5) | `IntUnitBelongsToIntValue` | - |
| `receive_loop` | Which packets reach the decryptor, and in one piece? | `CleanPacketHandedWhole`, `CleanPacketsHanded` | 472,694 |

Bounds, and why they are enough:

* **accumulator.**  A buffer of four bytes holds the shortest telegram, one
  more and an overflow.  `MaxSince` bounds the bytes fed after a `/` to eight:
  a telegram that fills the buffer, its CRC, and what follows a telegram that
  was dropped.  `/` starts over, so the number of telegrams is not bounded.
  The five bytes include the digits of the real CRC of `/1!`, 41E4, so that a
  CRC matches, does not match, and is cut short.  The memory starts full of
  stale `!`, the contents that would do the most harm.
* **p1_line.**  Telegrams shorter than the buffer, as long and longer.
  `MaxNoise` is two disturbances, anywhere and in any order, and then the line
  is quiet; three changed bytes can turn a frame into another one with its
  right CRC, which no receiver can tell, so a third would refute
  `DeliveredWasSent` for a reason that is not in the code.  `DeliveredWasSent`,
  `OncePerFrame` and `ExtraTelegramsCostNoise` are stated for `check_crc` only:
  without a CRC, noise between `/` and `!` is returned as part of the telegram
  by design.  The CRCs are those of `Crc16`, computed once into a table.
  `OncePerFrame` is what two disturbances can do to these telegrams with these
  CRCs; `ExtraTelegramsCostNoise` is what holds for all.
* **dlms.**  A `size_t` of sixteen bits, the narrowest C++ allows, so that the
  field `total_length` covers all of it; sizes and lengths on both sides of
  every bound of the checks and of both ends of the range, each with each.
  One key of the meter and one other.
* **bearssl_mbedtls.**  Three keys, so that two wrong keystreams can lie on the
  bytes together.
* **tfpsa.**  Two keys, two identifiers and two operations: a key can be
  replaced while both identifiers are in use if the old one leaks, and a second
  leaked operation uses up the service.
* **decryption_key.**  Keys of two bytes instead of sixteen (the loop treats
  each pair alone), the first and last character of each range of digits and
  the characters next to them.
* **parser.**  Telegrams of up to three lines: every pair of lines of every
  shape `parse` tells apart, every triple of the shapes that are accepted, both
  ends of line, and identification lines with and without an end.  Ids have
  two characters, because a bracket after one character is met by the
  lookahead for a continued line.  Of five fields two share an id, as
  `gas_delivered` and `gas_delivered_gj` do; the identification is a
  `StringField` of the caller's own that can refuse its value, one field is
  a `RawField`, and one is a caller's own that returns the view it was given:
  no kind of `fields.h` does, but the pointers that `parser.h:213` compares are
  then equal.
* **parser, again with the same object.**  A second telegram of another set, of
  one line each, after every call that has returned: the same field, other
  fields, refused values.
* **numeric_fields.**  An `int32_t` of sixteen bits and result types of 8, 10
  and 16, so that numbers of five digits lie on both sides of every bound;
  values with and without sign, point, decimals (fewer than three, three, more),
  unit (in both cases, cut short, with more behind it), and lines with a count
  of values from -1 to 3, and one that does not fit.  Timestamps are twelve
  digits and a letter, as meters print them: they fit into no `int32_t`, of
  sixteen bits or of thirty-two, and the properties speak of their lines all the
  same.
* **field_dispatch, field_units.**  Every two fields of the catalogue in either
  order with the default channels, and every two fields of the M-Bus for every
  assignment of the four channels to the four meters.  Two fields suffice: what
  keeps a line from a field is a single other field.
* **receive_loop.**  Packets of two, five and three bytes and a buffer of three:
  shorter, longer, and as long as the buffer, each after one of the others.  The
  times are the tightest the assumptions allow (`ByteGap + LoopPeriod <=
  Timeout`, `Timeout + 3 * LoopPeriod < PacketGap`): one tick less of `PacketGap`
  or of `Timeout` violates `CleanPacketHandedWhole`.

Deadlock is checked except in `decryption_key`, `decryption_key_symbols`,
`parser`, `numeric_fields`, `field_dispatch` and `field_units`, which model
calls that end.

**Fairness** is assumed in two modules.  `P1Line`, for `Resynchronises`: weak
fairness of `Transmit` and of `NextFrame`.  The meter goes on sending, and the
caller's loop reads every byte it gets, as the `while (uart.available())` of the
examples does.  Disturbances need not happen, and since they are bounded no
run consists of them.  `DlmsReceiveLoop`, for `CleanPacketsHanded`: weak fairness
of `loop` and of `Tick`.  The processor runs the loop, and time passes; the
meter need not send anything.

## 4. What is proved

TLAPS checks these for every value of the constants.  Assumptions are the named
`ASSUME`s of the modules: a buffer of one byte or more (the code stores `/`
without asking for room), a `size_t` of sixteen bits or more, keys distinct
from "no key", packets with the facts the models give them, telegrams from `/`
to the only `!` on the line, of two bytes or more for the parser, fields
numbered from 1, a checksum of sixteen bits, arguments of `from_hex` that are
sequences of bytes, M-Bus channels from 1 to 255 of which no two meters share
one (`ChannelsAssumption`: as the defaults of `fields.h` are; what happens on a
shared channel is in section 5), fields none of which a `ParsedData` has twice
(`ArgumentsAssumption`: they are its base classes, which C++ lets it name once
each), for the receive loop the two inequalities between its times, and for the
numeric fields that lines are printed values (`LinesAssumption`: every text
without brackets is the body of one), that units have no `)` in them
(`FieldsAssumption`: as those of `fields.h`), and that `int32_t` and the integer
types have one bit or more (`IntBitsAssumption`, `BitsAssumption`; both also
say that the power of two is a natural, which the provers cannot compute).

| Theorem | States |
|---|---|
| `PacketAccumulatorProofs!TypeCorrect` | `[]TypeOK`: no write outside the buffer, no view longer than what is stored |
| `PacketAccumulatorProofs!ReceiverImplementsTelegramStream` | `ImplementsTelegramStream`, for every buffer, every bytes, every CRC function |
| `PacketAccumulatorProofs!HeldTelegramStays` | `[]HeldTelegramIntact` |
| `PacketAccumulatorProofs!CleanFramesAreDelivered` | `[]CleanFrameDelivered`, for all telegrams, checksums, noise and any number of disturbances |
| `PacketAccumulatorProofs!ExtraTelegramsCost` | `[]ExtraTelegramsCostNoise`: one telegram a frame, and one more for every two disturbances |
| `PacketAccumulatorProofs!OneTelegramAFrame` | `OncePerFrame` as long as the line has been disturbed once at most, for all telegrams and checksums |
| `DlmsPacketProofs!AcceptsWellFormed` | `Accepts(b) <=> WellFormed(b)` for every span and width |
| `DlmsPacketProofs!DecryptsExactlyPackets`, `DecryptorStaysInside`, `ViewsAreAuthenticated` | the three invariants of the run `dlms` |
| `Aes128GcmBackendsProofs!BearSslImplementsDecryptor`, `MbedTlsBackendImplementsDecryptor` | the refinements of the run `bearssl_mbedtls` |
| `Aes128GcmProofs!OperationsAreEnded`, `KeysAreDestroyed`, `TfPsaImplementsDecryptor` | all of the run `tfpsa` |
| `Aes128GcmProofs!PrintedKeysAreRead` | `[]PrintedKeyIsRead`, for keys of every length |
| `DsmrParserProofs!ParserAcceptsTheFormat` | `[]AcceptsTheFormat`: the scan accepts exactly the telegrams of `TelegramFormat`, whatever the telegrams, the fields and the ways to read a line |
| `DsmrParserProofs!ParserHoldsTheTelegram` | `[]HoldsTheTelegram`: what it accepted has filled each field from its own line |
| `DsmrParserProofs!ParserStaysInside`, `ValuesStay` | `[]ScanStaysInside` and `FirstValueStays`, for all telegrams and fields and every way to read a line |
| `FieldDispatchProofs!LinesFillTheirFields` | `[]EachLineFillsItsField`: for any number of fields of the catalogue, in any order and on any channels, the printed line of each fills it and nothing else |
| `NumericFieldsProofs!NumbersAreRead` | what `parse_num` returns, for every unit, of every printed value whose digits up to the decimals asked for fit |
| `NumericFieldsProofs!FieldsHoldTheirLines` | `[]FieldHoldsTheLine`: every kind of numeric field, all units, all lines of printed values whose numbers fit, whatever the digits of their timestamps, every width of `int32_t` |
| `NumericFieldsProofs!SmallNumbersNeverOverflow` | `[]SmallNumbersDoNotOverflow`, for the same: neither a timestamp nor the loop of the average makes such a line overflow |
| `DlmsReceiveLoopProofs!ReceiveLoopHandsPacketsWhole` | `[]CleanPacketHandedWhole`, for all packets, buffers and times within the two inequalities |

The arguments:

* **Receiver.**  `TypeInv` adds `CrcUnfinished` to `TypeOK`: fewer than four
  digits have been read while the receiver waits for the CRC.  `TypeOK` alone is
  not inductive, since nothing in it keeps a fifth digit away.  For the
  refinement the inductive invariant is `SinceInv`, which says for each state
  what the bytes since the last `/` are: waiting for `!`, they are the stored
  bytes, without a `!` (`ReceivingInv`); waiting for the CRC, they are the
  stored bytes followed by the digits read, and `crc` is the number the digits
  print (`CrcInv`); waiting for `/`, they are `Dead`, which means that they can
  never become a complete telegram again (`IdleInv`).
  What this needs of the abstract side comes first: a dead
  sequence stays dead when it is extended (`DeadExtend`), a telegram has one
  first `!` (`FirstEndUnique`), four digits print one number only
  (`FourDigits`).  The module then has one lemma for each action of
  `process_byte`, and `CallStep` puts them together.  `HeldTelegramStays`
  rests on the same invariant.
* **Line.**  `P1Inv` follows the receiver through a clean frame that fits, by
  how many of its bytes are gone from the line (`Arrived`): until the `!` they
  are what is stored (`InTelegram`); after it, the digits read are the leading
  digits of the CRC (`InCrc`); with the last byte the telegram is the returned
  view (`Delivered`).  Nothing is assumed of the receiver before the `/`, which
  is why a clean frame arrives whatever came before.  `RestInv` ties what is
  still to be sent to the frame; `OneStart` (a `/` begins a transmission and
  occurs nowhere else in it) is what lets a byte be made up before a frame.
* **Line, the account.**  A telegram takes a `/`, a `!` and four digits, and a
  frame brings one `/` and one `!`.  `NoisePaid` counts both in one unit: the
  telegrams returned since the frame began, twice, and how far the next one has
  come (`Progress`) are at most the disturbances there have been (`Used`) and
  what the frame has sent (`Sent`).  This is not inductive, because a frame
  must not hand anything to the next one for nothing: the other parts say that
  what the receiver is in the middle of is paid for at every place of the frame
  (`Expected`), and that an undisturbed frame ends with nothing begun, since the
  fourth digit of its CRC ends the wait for digits.  `FramePays` and
  `DisturbancePays` are the two ways in which a step keeps the account;
  `ByteProgress` is all they need of `process_byte`.  It is the state, which
  every returned telegram sends back to the first one, that keeps the receiver
  from returning twice what is still in its buffer.
* **Keys.**  The loop of `from_hex` treats each pair of characters alone:
  `NumberOfDigits` takes a pair apart again, and `PrintedIsRead` says so of the
  whole string.
* **Packets.**  `ShortField` and `LongField` split on whether the length field
  is under 17, where the subtraction wraps; `LengthCheck` shows that the sum
  wraps back to the number it would be without bounds, so that the check
  `telegram_length >= 10` alone decides.  `OutcomeInv` and `ViewInv` connect
  the outcome of the last call with the packet and with the bytes.
* **BearSSL.**  `KeyInv` types the message and the key in the contexts, which
  is one of the keys even before it is set; each step maps to a step of the
  interface or a stutter.
* **Mbed TLS.**  No invariant is needed but that the message is one of the
  messages: the mapping forgets what a failed call has left.
* **TF-PSA.**  `OpenInv` says between which calls an operation is open,
  `StoreInv` that the service holds the key of the object and nothing else,
  `RunInv` that inside a call `before` is what the tag is compared with.

* **Parser.**  `ScanInv` is inductive as it stands: each loop tests for the end
  before it reads (`ParseMoves`), and the second of two brackets is looked for
  inside the telegram.  For `FirstValueStays`, `DataInv` says that a present
  field is one of the fields, which needs that the fold over them finds a first
  match (`FirstMatchIsAField`); that a set of naturals has a least element
  (`LeastNatural`) comes from the well-foundedness of `<`.
* **Parser and format.**  The scan knows a position, the start of a line and
  whether a bracket is open; the format knows sets of positions.  `FormatInv`
  ties them: whether a bracket is open is whether the brackets passed so far
  are odd in number (`BracketsSeen`), the line began behind the last end of line
  that breaks (`LineBegins`), and the fields filled are the owners of the lines
  that end before it, each with its value (`FieldsRead`).  Neither property is
  inductive: both speak of the end of a call only.  What is proved of the
  format's sets, one position at a time, is how brackets open and close
  (`OpenNext`, `BracketTurns`), when a bracket is wrong (`BracketRefused`), where
  lines break (`BreaksWhere`) and which line is whose (`LineAtIs`, `OwnerIs`,
  `LineOfAField`); then one lemma for each action of `parse`.  At the end of the
  telegram `EndAccepts` and `EndHolds` read the two properties off the
  invariant.
* **Ids.**  `parse_obis` is a loop over the text, in the model a function that
  is defined by recursion.  That there is such a function (`ScanExists`) needs no
  induction over an operator: there is no shortest text without one
  (`LeastNatural`).  From `ScanIs` on the proof reads the loop one character at a
  time: `ReadNumber` says that the digits of a byte, one, two or three of them,
  are read back as that byte and never exceed 255 on the way, and `IdIsReadBack`
  puts five of them and the separators together.
* **Catalogue.**  That no two fields have one id is not proved pair by
  pair.  `FieldAt` computes the field from the five parts
  of an id, as one would look it up in the table; each part of the catalogue is
  shown to hold only fields that are found again at their own id
  (`GeneralFieldsFound` to `MBusFieldsFound`), so that two fields with one id
  are one field (`IdsDiffer`).  The gas meter's reading in GJ is the one that is
  not found.  `DispatchInv` then says that the lines so far have each filled
  their field; the step needs that the first field with an id is at its own
  place (`FoundAtItsPlace`).
* **Numbers.**  Both properties speak of the one step of a call, so the
  invariant (`IInv`) adds only that the field and the line are still those of
  the call; the work is in what the parsers compute.  It goes up in layers.
  *Recursions:* that one has a solution, and only one, comes from a least
  counterexample (`RecursionExists`, `SameRecursion`).  *Digits:* what is read
  digit by digit is the sum of digits times powers of ten (`HornerIsNumber`),
  and since no digit makes it smaller, `Accumulate` does not overflow before its
  last digit does (`AccumulateReads`).  *Texts:* where `Find` stops in one text
  behind another (`FindBehind`, `FindSkips`).  *Values:* `Characterised` says how
  `parse_num` takes a printed value apart: into the digits that count and what
  they leave, or into characters one of which is no digit; there is one lemma
  for each of the four ways (no point, a point and no decimals wanted, enough
  decimals, too few).  *Units:* `UnitEnds` says that the bracket is met exactly
  when what is left is what the unit asks for.  `NumbersAreRead` puts these
  together.  *Lines:* `StringAt` and `FixedAt` say what is read at the n-th value
  of a line and that the text behind it is left; then there is one lemma for
  each kind of field.  The loop of the last value ends at the last value or at
  the first that is no string (`LastIs`).  The loop of the average (`SumsAre`)
  keeps the sum of the readings so far until an entry is missing, and the
  refusal from then on, whatever the count still says; each partial sum fits
  because a reading lies between what its digits come to and the negative of that
  (`ReadingIs`, `ReadingsRun`), and what the numbers of a small line come to fits
  from the first to any of them (`SmallLine`); and the division rounds towards 0 (`QuotientRounds`).
* **Receive loop.**  `CleanPacketHandedWhole` is not inductive: nothing in it
  keeps the rest of one packet out of the next.  `LoopInv` adds `WaitingInv`
  (a byte waits in the uart for at most two calls of the loop, and in the buffer
  no longer than the timeout and one call, so both are empty before the next
  packet), `ContentsInv` (of a clean packet everything that was sent is in the
  buffer and the uart, in its order, until all of it is handed over) and
  `UncutInv` (while a part is missing, the last byte was read too recently for
  the timeout).

Only model-checked, and why:

* `Resynchronises` and `CleanPacketsHanded`: liveness is out of the prover's
  reach.
* `DeliveredWasSent`, and `OncePerFrame` for two disturbances: with another
  checksum both are false, because a disturbed telegram can have the checksum of
  another one.  What holds for every checksum is proved: `ExtraTelegramsCost`,
  and `OneTelegramAFrame` for one disturbance.
* The bits of the CRC: `Crc16` is built on the recursive operators of the
  community module `Bitwise`.
* `IntUnitBelongsToIntValue` and `OtherSymbolsAreRefused` are false (section 5).

## 5. Findings

`Aes128GcmDecryptionKey::from_hex` checks the error code of `std::from_chars`
and not where it stopped (`src/dsmr_parser/decryption/aes128gcm.h:20`).  A pair
whose first character is a digit and whose second is none is read as one digit:
`AG` becomes 0x0A.  `tests/dlms_packet_decryptor_test.cpp:30` lists "non hex
symbols in key" among the failures of `from_hex`, and tests it with a `G` in
the first place of a pair.  The run `decryption_key_symbols` finds the string
of digits and another symbol that gives a key.

Four fields, `reactive_energy_import_current_average_demand` and three like it
(`src/dsmr_parser/fields.h:542`, `:543`, `:548`, `:549`), are defined with
`units::kvar` twice.  `int_unit()` then says kvar of an integer in var, where
`fields.h:53` promises "the corresponding units for these values", and a line
that prints var is refused.  Every other reactive field has `units::kvar,
units::var`.  The run `field_units` fills one of the four from its line.

Of what the code does and no document contradicts, the models show:

* the first attempt of `parse_float_or_int` pads a number of the integer unit
  with three decimals, so that one above 2147483 overflows an `int32_t` although
  it fits (`parser.h:110`);
* a value without digits is read as 0, and a value of 0 needs no unit unless `*`
  or `.` follows; units are compared without regard to case; a number with a
  point must have the unit of `val()`, so `50.0*Hz` is refused for a frequency;
* `IntField` keeps a number modulo the range of its type;
* `AveragedFixedField` swallows the rest of the line when the count is 0, and a
  negative count gives 0;
* a timestamp is stored before the number of its line has been read, and a field
  whose value was refused stays present: in a `ParsedData` used again it keeps
  the next telegram's line out;
* a field that returns the view it was given, which no kind of `fields.h` does,
  is filled and yet counts as unknown, and what it has left is overlooked
  (`parser.h:213`, `:217`);
* equal M-Bus channels, and the channel 0, give two fields one id, of which the
  second is never filled; `gas_delivered` and `gas_delivered_gj` share one always.

## 6. What is not modelled, and what comes next

* `Logger`, `NonCopyable` and the telegram types: no behaviour of their own.
* The conversion of a `FixedValue` to `float`, the names of the fields, and the
  destructor of `Aes128GcmMbedTls`.
* `psa_destroy_key` that fails: the code can do nothing about it.
* How long the bytes behind a view of `DlmsPacketDecryptor` stay: they are the
  caller's.  `ViewIsAuthenticated` speaks of the view of the last call, and a
  further call on the same bytes takes it back.  For `PacketAccumulator`, which
  writes to the buffer by itself, `HeldTelegramIntact` answers the question.

Planned:

1. The composition of `PacketAccumulator` with `DsmrParser`: every telegram
   handed over has two bytes at least, which `parse` relies on in `size() - 2`,
   and the view is parsed before the next `/`.
2. The composition of `DlmsReceiveLoop` with `DlmsPacketDecryptor`.
3. `Crc16` against the polynomial it stands for.
