# A formal model of serialize.go

serialize.go packs values into the bits of a packet and reads them back from
packets that may hold anything at all. These TLA+ modules model the streams that
do it, down to the words that are stored and loaded, the arithmetic that turns
values into bits, and one serialize function run against both ends of a network
that damages packets. TLC checks them on small instances, and TLAPS proves for every
instance what is promised of both writers, the bit reader, the read stream, the loops, the
int_relative code, the measure stream, the wide integers, ranged integers, fixed point values and
compressed floats, and of one serialize function run on both ends.

## The system

The library is sequential Go code with no goroutine, lock or global state: a
stream belongs to one caller. What is hard in it is not interleaving but long
sequences of legal calls on state that is packed tightly: bits pending in a word,
memory that was used before, a panic between two pieces of a call, boundaries of
words, windows and packets, and the latch that makes a refusal final.

| component | state | operations | what it relies on |
| --- | --- | --- | --- |
| `BitWriter` (bitpacker.go) | buffer, scratch word, `bitsWritten`, `wordIndex`, `scratchBits` | `Reset`, `WriteBits`, `WriteAlign`, `WriteBytes`, `FlushBits`, `Data` | a buffer of whole words |
| `WriteStream` (write_stream.go) | buffer, scratch word, `bitsWritten` | `Reset`, the `Serialize...` operations, `Flush`, `Data` | a buffer of whole words; packs bits itself, without `BitWriter` |
| `BitReader` (bitpacker.go) | packet, its backing array, `bitsRead`, the tail window | `Reset`, `ReadBits`, `ReadAlign`, `ReadBytes` | up to 12 bytes of memory behind the packet, or the tail |
| `ReadStream` (read_stream.go) | a `BitReader`, the latched error | `Reset`, the `Serialize...` operations, `Fail`, `Reject` | `BitReader`, after its own check of the end |
| `MeasureStream` (measure_stream.go) | a bit count | the `Serialize...` operations, `Reset` | repeats the checks of the write stream in code of its own |
| `Continue`, `Until` (stream.go) | the caller's flag | one `SerializeBool` per round | the latch of the read stream |
| int_relative (stream.go) | none: constant buckets | a difference in tiers of flags and payloads | the writer takes the first tier that fits |
| ranged integers and fixed point (serialize.go, stream.go) | none | width and offset of a value in its declared bounds | wide integers; wrapping lanes |
| compressed floats (stream.go) | none, or constants the caller keeps | a float quantized to a step of its range | float32, every operation rounding once |
| wide integers (int128.go) | none | arithmetic, shifts, division and order on two words | wrapping uint64, `bits.Div64` |
| refusals (serialize.go) | none | `closedRefusal`, `rejection`, `Fail`, `Reject` | the latch |
| `CopyString`, zig-zag (serialize.go) | none | pure functions | the strings a write stream takes |
| a serialize function (the caller's) | the variables of an object | the same calls on either end, a field perhaps depending on one before it | writer and reader agree; the latch, when its variables are stale |
| compat/ | none | exchanges files with the C++ library | |

One serialize function of the caller runs against any of the three streams through
the interface `Stream`. The caller calls the stream; through `SerializeObject` the
stream calls back into the caller's objects, which call the stream again and may
return an error of their own.

What makes each correct:

* **writers**: the bits in the buffer are the encodings of the calls that returned,
  in order, whatever the widths; a call that does not fit writes nothing; after a
  flush, `Data` is those bits and zeros up to the byte; memory past the end is
  only ever zeroed; no store leaves the buffer.
* **reader**: a read returns the next bits of the packet, never bits of what lies
  behind it or of an earlier packet, and no load leaves its source.
* **read stream**: on any packet the position stays inside it; the first refusal is
  kept and nothing happens after it; what a call returns is what is latched;
  a packet accepted to its end is the only one with those values.
* **loops**: they end on every packet, after no more rounds than it has bits.
* **measure stream**: what is measured is at least what is written, wherever in a
  byte the object lands, exact but for the aligns; it panics where the write does, with
  the same message.
* **wide integers**: over any sequence of operations the two words are the number a native
  128 bit integer would be.
* **ranged integers, fixed point**: a write takes exactly the values of the declaration, sends
  the distance from the minimum in the fewest bits of the range, and a read
  returns the value of those bits or refuses them.
* **compressed floats**: the reader takes what the writer sends; nothing decodes outside the
  two ends of the range, whatever the bits or the constants.
* **text**: what `CopyString` keeps is the longest prefix that fits and ends with a character.
* **a serialize function on both ends**: an object arrives as it was sent, also after
  a packet that was refused; damage shows; an object refused part way is a prefix.

## Modules

| module | role |
| --- | --- |
| `Bits` | geometry, words as functions from bit numbers to bits, memory addressed by the bit, word stores, block copies, position arithmetic |
| `WireSpec` | abstract: what a writer promises, with no word, scratch or memory |
| `WriteStream` | the write stream; implements `WireSpec` |
| `BitWriter` | the bit writer; implements `WireSpec` |
| `ReaderSpec` | abstract: what a reader of bits promises |
| `BitReader` | the bit reader with windows, slack and tail; implements `ReaderSpec` |
| `Codec` | `BitsRequired`, fields of numbers |
| `Tiers` | the buckets of int_relative and the writer's code of a difference |
| `ReadStream` | the read stream on packets of any content |
| `SentinelLoop` | `Continue` and `Until` loops composed with the read stream |
| `Measure` | the measure stream beside the checks and counts of the write stream |
| `WideSpec` | abstract: the integers of native hardware |
| `Wide` | `Uint128` and `Int128` in two lanes |
| `WideArithmetic` | a caller that computes with them; implements `WideSpec` |
| `FixedPoint` | ranged integers of one lane and two, fixed point values, zig-zag, on `Wide` |
| `Floats` | binary floating point of a few bits |
| `CompressedFloat` | both entry points of compressed floats on the three streams, on `Floats` |
| `Text` | strings by their bytes, `CopyString` |
| `Message` | `WireSpec`, a network and `ReadStream` composed by one serialize function |
| `MC...` | values, buffers and packets for TLC |
| `CodecProofs` | lemmas and theorems about the operators of `Bits` and `Codec`, checked by TLAPS |
| `BitWriterProofs`, `BitReaderProofs`, `MeasureProofs` | theorems about those components |
| `WriteStreamProofs` | theorems about the write stream, and about the compressed floats it writes |
| `ReadStreamProofs` | theorems about the tiers, the read stream, and the loops on it |
| `MessageProofs` | theorems about a message, on those of `CodecProofs` and `ReadStreamProofs` |
| `WideProofs` | theorems about the wide integers, the ranges and the fixed point values computed with them |

`Message` puts the caller's variables beside the two streams; it takes the abstract writer for
the sender because `WriteStream` is shown to implement it, and the decoders and the latch of
`ReadStream` for the receiver.

### Words and bytes

The code fixes bytes of 8 bits and words of 8 bytes. Both are parameters here
(`ByteBits`, `WordBytes`), so every 64, 63, 8 and 7 of the source is an
expression in them; the code is the instance 8, 8, and TLC checks instances small
enough to reach every alignment. Shifts by the whole width give zero, as in Go.
Positions are unbounded where the code has `int64` counts of bits: a buffer of 2^60
bytes is not in question.

### The write stream

`data`, `scratch`, `numBits` and `bitsWritten` are the fields of the struct. A call
runs in steps, one per `tryWriteBits` or `tryWriteBits64` it makes and one for the
block copy of a byte run: a call can panic between two of them and the caller can
recover, so the states between them are real. `call` is the call that is running and
`last` how the previous one ended.

| action | code |
| --- | --- |
| `Begin` | an operation past its argument checks; `room` for the whole of it, except int_relative |
| `WritePiece` | `tryWriteBits64` (and `tryWriteBits`, which repeats it) with its spill |
| `CopyBlock` | the `copy` of the aligned words in `writeBytesStream` |
| `Overflow`, `PieceOverflow` | the panics for want of room, before a call and in int_relative between two pieces |
| `Misuse` | the panics for arguments; they come before anything is written |
| `Return`, `Flush`, `Reset` | the same |

A value is the sequence of bits it encodes to and the operation is that field, where
it is cut into pieces, whether an align and a byte run follow, and whether the room is
checked as a whole. A number, a bool, a float or a fixed point value is a field; it is
cut at a word if it is wider (`writeGroups128`). int_relative is a flag per tier, each
a piece, and a payload. `SerializeEnd` writes nothing and `SerializeObject`
calls the object, whose calls are calls of the stream: neither is an action.

### The bit writer

The same with the counters the code keeps: the stores go to `wordIndex` and the
shifts are by `scratchBits`, and only `CountersAgree` makes them positions. "FlushBits ends
the write" (its comment): no value follows it until a `Reset`. The writer has no
operation that panics part way, so `WriteBits` and `WriteAlign` are one step.

### The bit reader

`slack` is what lies between the packet and the cap of its slice; `tail` is filled
by `Reset` only for packets without enough of it and keeps what it held otherwise. A
load outside its source sets `last` to `"crash"`, which `LoadsInside` says never
happens. The actions are `readBits` and `readBits64` behind the checks their callers make,
widths of zero included (a range of one value), `ReadAlign`, `ReadBytes` and `Reset`.

### The read stream

The packet is the input, of any content. Each operation has a decoder, which at a position
gives a new position and either a reason to refuse or the value read and the code a
writer has for it; `Serialize` puts the latch around it, as every method of the stream does. `echo` collects
those codes: it is what a writer writes for the values read so far, and it is compared to the
packet. The bits come straight from the packet, which is what `BitReader` is
shown to give. A byte of text starts a character, and says how many bytes follow it, or
is one that follows (`Text`). Ranged integers of every width, fixed point values included, are read by the
span of their range; int_relative is modelled with its numbers.
`EnterObject` and `LeaveObject` are the two halves of `SerializeObject`, with any calls
between them, and an object may return nil, a reason, or an error of its own whatever
happened inside. A caller that ignores errors is a caller that calls on, so every such
caller is covered.

### The measure stream

`Measure` keeps the count of the measure stream and, for every place in a byte an object may land
at, the bits a write stream has written for the same calls. An operation is two definitions,
`Measure...` and `Write...`, because the code has two: each makes its own checks, in its own order,
and takes its own number of bits or panics. `Call` makes both. A call that panics leaves its
stream alone; a caller that recovers goes on. The write stream has the room, the one check a
measure has not.

### Wide integers

`Wide` has the operations of int128.go one by one, on lanes of `LaneBits` bits, with the carry,
the borrow and the branches of the shifts as they are in the code. `WideArithmetic` is a caller
with an accumulator that applies any of them to any operand and looks at the answer.
Division is `BeginDivision`, which takes the hardware's division where the code does,
a `DivisionStep` per round of the loop, and `EndDivision`, which puts the signs back: the loop's
invariant is then a property of states (`DivisionSoFar`). `WideSpec` has one number and no lanes.

### Ranged integers and fixed point

A state of `FixedPoint` is a declaration, what a caller writes, the field on the wire, and
what a reader makes of it: `Serialize` is the write, `Receive` the read of what was written,
`ReceiveAny` the read of any other group of the width, and `Refuse` that of a declaration
the reader does not take. Operations of one kind (int, int128, fixed64, fixed128, zig-zag) share
the control and differ in their arithmetic, which is that of the code: wrapping lanes, capacities
of formats at and past the width of a lane, bounds in whole units shifted to raw values, and
the width computed from the raw range in one lane but from the units and the fraction
in two. What the properties compare it to is plain arithmetic on integers.

### Compressed floats

`CompressedFloat` has the same shape, with `Measure` before the write because the two check
a declaration in different functions. A declaration comes as bounds and a resolution, its
constants derived on each call, or with its constants, which may be anything. Floats are those of
`Floats`: a precision, a unit and a largest exponent, gradual underflow, infinities and NaN, every
operation rounding its exact result to the nearest, ties to even. The integers are
wider than a significand, as in the code (32 bits against 24): it is what the clamps
are about.

### A message

The sender of `Message` visits the fields of a schema: bits, ranged integers, byte runs, strings
through `CopyString`, an int_relative to a field before it, and a field that is there only
if one before it is not zero. `WriteNext` is a call of the writer (`WireSpec`'s `Accept`), or the
panic for an ill-formed text. `Deliver` resets the receiver onto a packet: the one that was sent
(`DeliverIntact`), or that packet cut short by bytes, lengthened by one byte of any
content, or with a bit flipped. `ReadField` runs the same function on the receiver's variables, also
past a refusal, when what it branches on may be stale; `ReturnEarly` is the caller that checks
each call. The receiver's variables are not cleared between two packets.

## Runs

| run | module, cfg | what it shows |
| --- | --- | --- |
| `write_stream` | `MCWriteStream`, `WriteStream.cfg` | the invariants, the inductive invariant `IInv`, and `ImplementsWire` |
| `write_stream_trap` | `MCWriteStream`, `WriteStreamTrap.cfg` | expected violation: see Findings |
| `bit_writer` | `MCBitWriter`, `BitWriter.cfg` | the inductive invariant `IInv`, counters, block copies, memory past the end, `ImplementsWire` |
| `bit_reader` | `MCBitReader`, `BitReader.cfg` | the inductive invariant `IInv`, `LoadsInside`, `ImplementsReader` |
| `read_stream` | `MCReadStream`, `ReadStream.cfg` | the inductive invariant `IInv`, `Canonical`, `OneEncoding`, `ReturnsTheLatch`, `RefusalStands` |
| `sentinel_loop` | `MCSentinelLoop`, `SentinelLoop.cfg` | `Terminates`, `BoundedByPacket` |
| `measure` | `MCMeasure`, `Measure.cfg` | `Enough`, `OnlyAlignsEstimated`, `SameTrap` |
| `wide` | `WideArithmetic`, `WideArithmetic.cfg` | `DivisionSoFar`, `ImplementsNative` |
| `fixed_point` | `MCFixedPoint`, `FixedPoint.cfg` | `PanicsOutsideTheRange`, `WireIsTheOffset`, `ReadsTheRange` |
| `compressed_float` | `MCCompressedFloat`, `CompressedFloat.cfg` | `ReaderAcceptsWriter`, `DecodesBetweenEnds`, `DerivedConstantsServe`, `MeasureAgrees` |
| `compressed_float_bound` | `MCCompressedFloat`, `CompressedFloatBound.cfg` | expected violation: see Findings |
| `message` | `MCMessage`, `Message.cfg` | `LongestThatFits`, `Arrives`, `DamageShows`, `OnlyAPrefix` |

Bounds, all of them in the MC modules and the .cfg files:

* `write_stream`: words of two bytes of two bits, buffers of none, two and three words. Fields of
  0 to 7 bits fit a word, fill it, and need a second; runs of 0 to 5 bytes
  have only a head, a head and tail, one block and two; every position in a
  word and every distance from the end of the buffer is reached, and every call
  is tried at each, so every way to cross or meet a boundary occurs. int_relative has a
  tier without payload, one with, and the absolute one.
* `bit_writer`: words of three bytes of two bits, because `WriteBits` takes at most half a word
  and a spill should leave none, one or two bits behind.
* `bit_reader`: packets of 0 to 5 bytes and slack of 0 to 4, on both sides of both
  window sizes (two and three bytes) and of the length at which the tail starts inside the
  packet; slack of ones, to be told from padding.
* `read_stream`: every packet of up to five bytes of two bits, every order of
  operations, objects nested twice, and a second packet with the same stream.
* `sentinel_loop`: every packet of up to four bytes of two bits; elements of
  no bits and elements that refuse are among the bodies.
* `measure`: bytes of four bits, so that an align takes none to three; the arguments of every
  operation on both sides of each of its checks; up to five calls (`MaxCalls`), each at every place in a byte, so that fields
  and aligns alternate and their excess adds up.
* `wide`: lanes of three bits, every pair of values for every operation, every shift up to one more
  than all of the bits. A lane of three bits is wide enough for a carry out of it, a shift
  inside it and on its ends, and a division with every relation of the two lengths.
* `fixed_point`: lanes of three bits; in one lane every pair of bounds, every value and every
  group of bits; in two lanes the bounds around the ends of the type, of a lane, and zero, with
  every value and every group; formats from no bits to more than both lanes.
* `compressed_float`: three significant bits against integers of five, so that half of
  the step counts are no floats and half a step may carry; 1.0 is 2^8 of the
  smallest subnormal and values are infinite from 2^15 on, so that a range may overflow, a
  quotient may underflow, and every clamp is reached. Every count of steps is tried as precomputed, with its
  width and one bit more and less, and with deltas of every kind.
* `message`: three schemas, which between them have every kind of field, an optional one, and an int_relative on
  a number just read; all values, all texts of up to four bytes, well formed or not, against buffers
  of two and four. The first delivery is any of the kinds and a second one is intact: enough for
  what one packet leaves behind to show in the next. The sender's buffer is 16 words, more than any
  of the schemas takes: what happens when it is full is the business of `write_stream`.

State is finite because buffers and packets are. What is capped besides: the history counter `rounds` of
`SentinelLoop` (`Counted`), at one more than the bits of the packet, which is enough to
violate `BoundedByPacket`; the calls of `Measure` (`MaxCalls`); the packets of `Message`, two; and nesting (`Depth`). Deadlock is checked except where the caller is done: `sentinel_loop` when the
loop exits, `fixed_point` and the `compressed_float` runs when a field is read or refused, and
`message` when the last packet is.

**Fairness.** Only `LoopSpec` has any: weak fairness of the caller's own steps. The caller is one goroutine
that runs the loop and nothing it calls blocks; the body is assumed to come
back to the head of the loop, which is the caller's code.

## Proofs

Every theorem is for all values of the constants that satisfy the named assumptions of the modules it is
about. They say what the code fixes or what its types allow, and no more: positive byte and
word sizes, buffers of whole words, fields of at most a word or two, runs and packets of whole
bytes, a mark `Old` for memory that is not a bit, declarations of the types Go gives them
(`DeclarationsAssumption`, `ArgumentsAssumption`), and tiers of int_relative that follow one another
(`BucketsAssumption`), which the constants of the code do. `SchemasAssumption` says what a serialize function
can say: a condition, or the number an int_relative is relative to, is a number the function has visited
before, that number is there when it is needed, and a string has a buffer. Conditions are not nested:
the number a condition looks at is itself read unconditionally. A function that branches on a number
it has not read has no meaning on the receiver.

### The writers

* `InductiveInvariant` of `WriteStreamProofs`: `Spec => []IInv`. The invariants one cares about are not
  inductive. That the buffer past the position is zero needs the scratch to be clean, because a
  spill stores all of it; that the wire is the encodings needs the whole words of the
  buffer to be written (`WordsWritten`) and the running call to be
  where its pieces say (`CallSoFar`), because the room was checked for all of the call and each
  piece is found from the position; and that `Data` is right after a flush needs the
  flushed word (`FlushedBytes`). `IInv` is the conjunction, and each action has a lemma
  that it keeps it. The core of the argument is `PutEffect`: writing a
  piece of at most a word appends its bits and keeps the scratch clean, spill or not.
* `TypeCorrect`, `ScratchStaysClean`, `PastEndStaysZero`, `BlockCopiesAligned`, `StoresInside`:
  the invariants of the run, from it. `BlockCopyAligned` follows from the position: the head bytes end on
  a word boundary whenever bytes are left (`HeadReachesWord`).
* `Implementation`: `Spec => ImplementsWire`. While a call runs `Wire` stays at what was
  committed before it (a stutter); its return appends its encoding. An int_relative that panics
  part way appends a proper prefix of its field, which is what `PartialOverflow` allows.

`BitWriterProofs` has the same shape. The writer keeps two counters beside the position, so its `IInv` has
`CountersAgree`, without which no store is where the position says, together with `WordsStored` and
`RunSoFar`, what a byte run has written so far and that it is never left inside its whole words. From it:
`CountersStayTogether`, `CopiesStartClean`, `PastEndStaysZero` and `Implementation`.

### The bit reader

* `InductiveInvariant` and `LoadsStayInside`. A load leaves its source only through a tail that is not
  the packet's, so `IInv` says when it must be (`TailCurrent`): whenever the slack is too short for
  the wide window. `Reset` establishes it, and it is the one action that changes packet, slack or
  tail. `Window` is the geometry: from any position from which a legal read starts, the
  window is inside the packet with its slack, or inside the tail.
* `Implementation`: `Spec => ImplementsReader`. `WindowBit` says what bit of a window a bit of the
  packet is, whichever source it is loaded from, and `NarrowValue` and `WideValue` that shift and mask leave
  the next bits and nothing else.

### Numbers and their fields

`CodecProofs` is about the conversions the streams share, and the powers, quotients and words all the
proofs rest on. What is about tiers is in `ReadStreamProofs`.

* `FieldOfValue` and `ValueOfField`: the field of the value of any bits is those bits, and the value of the
  field of any number of its width is that number.
* `TierCodes`: the code of an int_relative is that of the one tier its difference is in, for any tiers.

What is true of all numbers is proved from the least one that fails (`Induction`, from the
well-foundedness of the naturals), and that powers of two double from counting the subsets of a
set (`PowerDoubles`, from the library's `FS_SUBSET`). The library's own proof of `FS_SUBSET`
leaves one step, again on powers of two, without a proof: it is the one fact here that
is cited and not checked down to the ground. The provers have no theory of exponents to replace
it with.

### The read stream

* `ReturnsWhatIsLatched`: `Spec => []ReturnsTheLatch`, which is inductive: every call sets what it
  returns from the latch, except the entry of an object, which returns nothing yet.
* `FirstRefusalStands`: `Spec => RefusalStands`, from it. `StepLatches` is the one argument for both: a step that
  is not a reset leaves a reason, the position and the values read alone. Neither looks into
  a decoder, and neither needs an assumption.
* `NoSecondEncoding`: `Spec => []Canonical`. Each decoder has a lemma that it is `Sound`: wherever it starts in any
  packet, it ends at or past that place and inside the packet, and if it accepts, the code of what it
  read is the very bits between the two. `FieldSound`, `RangedSound` and the others rest on `FieldOfValue`;
  `IntRelativeSound` is the deepest: a tier is accepted only if it is the first that fits the difference,
  so its flags and payload are the writer's by `TierCodes`. `Keeps` is what a sound
  decoder behind the latch does to the state, and `IInv` adds to `Canonical` that a packet
  accepted to its end is read to its end (`ReadToTheEnd`).
* `OnePacket`: `Spec => []OneEncoding`, from both: the check of the end takes zeros up to the byte,
  which are the writer's.
* `LoopsAreBounded`: `LoopSpec => []BoundedByPacket`. A loop begins a body only on a flag it has read, so the
  rounds begun are at most the bits read (`LoopInv`), which are at most the packet's because
  the decoders are sound.

### The measure stream

`Agrees` relates the measure of an operation to its write: they panic together with the same message, or the measure is the
write's bits and, for an align, at most the worst one more. There is a lemma for each operation, since
the code has two of each. The four invariants of the run are inductive together (`MInv`):
`TypeCorrect`, `MeasureIsEnough`, `ExactButForAligns` and `ChecksAsTheWriteDoes`.

### A message

`MessageProofs` is about every schema, every object and every packet the network makes of what was sent. The
four properties of the run are about the end of a delivery, and say nothing of how it came about; the
invariant that carries them, `MessageInv`, says where both ends are at every field. TLC checked it
on the instance of the run before it was proved.

* The sender (`SenderInv`): there are places, one per field, from 0 to the end of the wire, and at each the
  wire has the code of the field's value, or nothing if the field is not there (`Laid`); every value was one
  the writer takes (`GivenOK`), and every string sent is well formed (`SentText`).
  `FieldsLieInOrder` proves it: an accepted call appends its code, a panic ends the object.
* The receiver (`ReceiverInv`): as long as it has not refused and every value so far is the sender's (`SoFar`),
  it `Stands` where the sender's next field starts, and the bits behind it are those sent (`Told`). Of a
  packet that is intact, cut short or longer, more is known, since its bits are right as far as they go: it
  has refused only for the reason there is (`Followed`), and its variables are the sender's up to some field
  and its own from there on (`PrefixTo`).
* The two meet in one pair of lemmas per kind of field. One says that the decoder at a place
  where the writer's code lies accepts and gives the value back, or runs past the end if the packet stops inside the code
  (`FieldTaken`); the other, which flipped bits need, that a decoder that accepts with the sender's
  value has read the sender's bits (`FieldTold`), from `Sound` and `TierCodes`. A packet with other bits
  can then be accepted to its end only with another value.
* `WhatIsSentArrives`, `NoDamageIsTakenForTheObject` and `ARefusalLeavesTheRest`: `Spec => []Arrives`,
  `[]DamageShows` and `[]OnlyAPrefix`, from `ReceiverKeepsItsPlace`. What an earlier packet left is no hypothesis anywhere:
  `Deliver` resets the stream, and `Ready` says that what a field reads of the variables was read
  from this packet.
* `CopiesTheLongest`: `Spec => []LongestThatFits`, from `CopyStringLength` and `SourceText`: the cut is found from
  the end, so what is kept is the longest, and a text cut where a character starts is well formed
  (`CutBetweenCharacters`).

### Wide integers

`WideProofs` assumes that a lane has at least one bit (`LaneAssumption`) and nothing else.

* The operations. A pair of lanes is the pattern of a number modulo the square of a lane, and there is one
  lemma for each operation of int128.go that says which (`AddIs`, `SubIs`, `MulIs`, `NegIs`, `NotIs`, `LshIs`, `RshIs`,
  `SignedRshIs`, `CmpIs`, `WideLenIs` and so on): the carry, the borrow and the cross products are what the second lane needs
  (`TwoDigits`, `FromLanes`), and of a pair as a signed number only the sign of the upper lane counts (`SignedIs`).
  For and, or and exclusive or, the provers have no theory of bits: a lane is the sum of its bits (`LaneOfBits`), and what
  holds bit by bit holds of the sums (`PartialSums`).
* `PairsOfLanes` and `LongDivision`: `ArithmeticSpec => []TypeOK` and `[]DivisionSoFar`. Neither is inductive. That the
  remainder, shifted, is still a pair needs that it was below the divisor; that it is below the divisor
  again needs that the next bit of the dividend is the one taken; that the quotient's next bit can be set with an "or" needs
  that the quotient is a multiple of the bit before (`Digits`). And the start needs the case in which the hardware divides
  (`HardwareDivides`) and the shift by which the loop begins, found from the two lengths (`LoopBegins`). `ArithmeticInv`
  is all of that; `NextDigit` is one round of the loop in plain numbers, and `DivisionDigit` that the code's round is that one.
* `TwoLanesAreNative`: `ArithmeticSpec => ImplementsNative`. The rounds of a division are stutters and its end is the native
  division, truncated for signed numbers (`Truncates`), the smallest number included, which has no negation. Each other call is
  the native one on the number of the accumulator (`NativeArithmetic`, `NativeShifts`, `NativeBits`, `NativeQuestions`).

### Ranged integers and fixed point

* A kind of declaration is settled by what its operations compute in plain numbers, `FieldOf`: the
  writer panics on a declaration exactly if it is not one (`WellDeclared`), its width holds the span and no bit more
  (`HasTheWidth`), it sends the distance of a value in range and panics on the others (`WritesTheOffset`), and it
  returns the value at a distance or refuses it (`ReadsTheOffset`). `IntIs`, `Int128Is`, `Fixed64Is`, `Fixed128Is` and the two
  of zig-zag prove it for the code of each kind, and from there on the kinds are one (`FieldIs`).
* What the kinds share is that lanes wrap. `Ring` says that a difference of two patterns is the
  distance of their numbers whenever that distance is below the modulus, whichever of them is signed; `RawIsHeld`
  that the raw value of a bound in whole units is held by its storage when the declaration has the capacity (`CapacityIs`, formats at
  and past the lane included), `RangeOnTheRing` that the span then is one of patterns, and `StoreHolds` that what is stored back is the
  number meant. `Params128Is` needs more: the code counts the width of a wide range from the units and the fraction, which
  `LongerByFraction` shows is that of the raw span.
* `WritesInRange`, `WritesTheDistance`, `ReadsInRange`: `Spec => []PanicsOutsideTheRange`, `[]WireIsTheOffset`,
  `[]ReadsTheRange`. The properties are about the end of a field; the invariant that carries them, `FieldInv`, says that wire and
  result are those of the declaration at every stage, and was checked by TLC before it was proved. Beside `LaneAssumption` they rest
  on `BoundsAssumption`, that the bounds of a declaration are of the types Go gives them.

### Compressed floats

At the end of `WriteStreamProofs`, because it needs the powers of two of `CodecProofs`. The assumptions are `FloatsAssumption`, a
precision of two bits or more below the largest exponent, and `CompressedFloatAssumption`: integers wider than a
significand, as 32 bits are than 24, and all of them finite floats; declarations and values are made of floats.

* Rounding is settled once. A rounding of an exact quotient is a count of units of its last place (`NearestIs`); it keeps order
  (`NearestMonotone`, across places too: what is of a higher place is not below a significand of a lower one),
  leaves a float as it is (`NearestExact`) and gives a float or an infinity (`NearestRepresentable`). `RoundMonotone` and
  `RoundExact` are the same with signs. Nothing after that looks into a rounding: a quotient of a smaller by a larger float
  lies between 0 and 1 (`Quotients`) because 0 and 1 are what the ends round to, and so for products (`Parts`) and sums (`Sums`).
* `FloatInv`, the inductive invariant, says that width, wire and result are at each stage what the streams make of
  declaration and value; TLC checked it on the instance of the run. The rest is about pure functions.
* `MeasuresAsItWrites`: `FloatSpec => []MeasureAgrees`. It needs that a derived declaration that passes the writer's check has a finite
  top, which the measure stream takes from the same check and the write stream asks again.
* `AcceptsWhatIsWritten`: `FloatSpec => []ReaderAcceptsWriter`. The integer is a step whatever half a step carries to
  (`QuantizeIs`), and a step decodes between two finite ends (`Decoded`).
* `DecodesInside`: `FloatSpec => []DecodesBetweenEnds`. A reader asks less of a declaration than a writer, and its
  range may be infinite; then nothing decodes to a finite float (`DecodedOfNone`), and the refusal is what keeps the promise.
* `DerivedServeAsPrecomputed`: `FloatSpec => []DerivedConstantsServe`. That the value at max is sent as the last step
  needs that the count of steps is itself a float. `StepsAre` proves it of derived counts, which are a float rounded up: either the
  float was whole, or it had few enough bits above one that the count is small. Of precomputed counts it is not true; see Findings.

### What stays with TLC

Liveness (`Terminates`), since it rests on fairness. Every other property of the runs is stated by a theorem, but for the two
that the runs show to be violated.

## Findings

`SerializeIntRelative` of the write stream checks the room for each of its flags as
it comes to it. One that does not fit writes the flags that do, and then panics, while the comment
of `WriteStream` (write_stream.go:13-18) says that an operation that does not fit panics "before
any bit of the operation is written". A caller that recovers has a
packet with those flags at its end. The run `write_stream_trap` shows it: a byte run leaves 4 of the
8 bits of the buffer, an int_relative of two flags and a 3 bit absolute value writes both flags
(position 4 to 6), and panics at the absolute value, for which 2 bits are left. `WireSpec`
describes what the code does (`PartialOverflow`), so that the rest of the promise could
be checked and proved.

The read of a compressed float can be above max. `delta` is max - min rounded, and the last step
decodes to min + delta; the comment of `SerializeCompressedFloat32` in the read stream
(read_stream.go:332) says that the value is in [min,max]. The run `compressed_float_bound` shows it. The
interface (stream.go:117) and STANDARD.md say [min, min + delta], which is what
`DecodesBetweenEnds` checks, so the comment is out of date and the decode as specified.

An observation, without a run: precomputed constants are accepted with any step count up to the clamp,
also one that is no float32 (2^24 + 1, say), which no declaration derives. With such a count
a value at max may be sent as a step below the last. `DerivedConstantsServe`, which says that both ends are reached,
is about derived constants only.

## Not modelled

* **Only checked by TLC**: that the loops end (`Terminates`), which is liveness.
* **Bits after a `BitWriter.FlushBits`**: its comment says it ends the write, and no caller in the
  model writes on. The write stream's `Flush` may be followed by anything.
* **What `Data` aliases**: a packet is a value; that the slice is the buffer, and changes when the
  buffer is used again, is not in the model.
* **Signs of zero** in compressed floats, and float64: the quantization is float32 throughout.
  Raw float32 and float64 fields are bits that are finite or not.
* **The form of text** by code points: a byte starts a character and says how long it is, or follows
  one; overlong forms and surrogates are the library's to refuse.
* **Conditions within conditions** in `Message`: what an optional field depends on is always sent.
* Names, spelling and wrapping of errors (`errors.Is`, `errors.As`), the `context` a stream carries
  for its caller, the compatibility harness, which only exchanges files.

## Plan

1. `Message` with the write stream itself as the sender, in place of the specification it
   implements, and with `BitReader` below the read stream, whose bits come straight from the packet now.
2. `Wide` and `CompressedFloat` as the arithmetic of fields of `Message`, whose ranges are those of one lane.
