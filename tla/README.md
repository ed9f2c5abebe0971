# qdata-cpp in TLA+

qdata-cpp writes C++ objects to the qdata format and reads them back. An object
(R's vectors, lists, attributes) becomes a linear stream of headers and
payloads, the stream is cut into blocks of 1 MiB, the blocks are compressed by
one thread or by many, and stored behind a file header that carries a checksum.

This directory specifies that path in TLA+, down to the bytes that the shuffle
moves and the stripes that the checksum is made of. TLC checks each part on
small instances, and TLAPS proves the central invariants and two refinements
for every value of the constants. Paths below are relative to `src/include/`.

## 1. The system

    save / serialize                                       read / deserialize
        |                                                          ^
    write_object (write_traits.h)          read_into (qdata_deserializer.h)
        |  headers first, payloads deferred                        |
    qdata_serializer: write_header_*, flush_payloads       decode_object_header
        |  push_data, push_pod                                     |  get_data, get_pod
    BlockCompressWriter / BlockCompressWriterMT      BlockCompressReader / ...MT
        |  blocks, compressed                                      |
    xxHashWriter -> OfStreamWriter | MemoryStream            xxHash -> the same

| Part | State it keeps | Operations | Hard behaviour |
|---|---|---|---|
| Multithreaded block reader, `io/multithreaded_block_module.h:184-452` | two pools of buffers, `end_of_file`, `blocks_to_process`, the cancellation flag, the sequencer, `current_block` | read ahead, decompress, reorder, `get_new_block`, `finish`, `cleanup` | three kinds of threads share all of it; the caller polls; errors come from anywhere |
| Multithreaded block writer, `:20-182` | two pools, the sequencer, `current_block`, `current_blocknumber` | `push_data`, `push_pod`, `flush`, compress, write, `finish` | shared buffers; order restored; the stream throws in a task |
| Single-threaded block writer and reader, `io/block_module.h` | a block, its fill or the offset in it | the same, in one thread | where blocks are cut, and that both sides agree on it |
| Headers and limits, `qdata_format/detail/qdata_serializer.h`, `read_common.h`, `qdata_deserializer.h` | none | `write_header_*`, `decode_object_header`, `read_string_header`, `checked_*` | widths and boundaries, limits on both sides |
| Serializer and deserializer, `write_traits.h` and the two above | the recursion, five lists of deferred payloads, on reading five lists of pointers | traverse, defer, flush; build, collect, fill | the two sides must visit everything in the same order; pointers outlive the traversal |
| Save and load, `qdata_serializer.h:480-560`, `file_headers.h`, `filestream_module.h`, `xxhash_module.h` | the stream and its buffer, the hash environment, the stored checksum | open, write, patch the checksum into the header, close; validate, decode | a save that ends early; buffered writes; damage |
| Memory streams, `memory_stream.h`, `byte_buffer.h` | a buffer, a position | read, write, seek, grow | growth up to the limit of `size_t`; a patch in the middle |
| Compressors, `io/zstd_module.h` | scratch buffers that outlive a block | compress, decompress, decide whether to shuffle | error codes that are sizes; a flag bit in the size word |
| Shuffle, `blosc/` | none | transpose a block's bytes and back | four kernels and two loops must agree on every size |
| xxHash, `xxhash/xxhash.h` (XXH3, 64 bit) | a buffer that is kept full, accumulators | reset, update, digest | the digest needs bytes that the buffer has given up; one kernel per build |
| Strings, `core_types.h:89-164`, `read_string_payloads` | slabs with pointers into them | append, read, freeze | arithmetic at the end of a slab, who owns it |

What makes them correct, in a sentence each:

- the threads never share a buffer, the blocks arrive or are stored in order,
  an error is reported and ends everything, nobody waits for ever;
- what a writer cuts into blocks a reader puts together, within the bounds of
  every buffer;
- every header decodes to what it was written from, and no limit is passed;
- an object is read back as the same tree, each vector with its own payload;
- what a save returns success for is wholly there, what carries a checksum
  that fits is what was saved, and what a failed save leaves is recognized;
- a block is decoded, by whatever build, as it was, or refused;
- the checksum of a stream does not depend on how it was cut into pieces nor
  on the instruction set, and every byte goes into it;
- every string has its own characters, in memory that lives.

`PROJECT.json` lists the hazards at their lines, with the properties that
watch them.

## 2. Modules

| Module | Models | Correspondence |
|---|---|---|
| `BlockSource` | what a reader promises: the blocks of a stream in order, and an outcome that the stream justifies | abstract |
| `BlockReaderMT` | `BlockCompressReaderMT` | `ReaderStep` is the body of `reader_node` (`read_next_zblock`), `TaskStep(f)` the `decompressor_node` task of frame `f` and its push into the sequencer, `MainStep` the deserializer, `get_new_block`, `finish`, `cleanup`; a step is what a thread does between two accesses to shared state, so the tests of `get_new_block` (`TryGet`, `CheckEof`, `CheckCount`, `CheckCancelled`) are four steps |
| `BlockSink` | what a writer promises: blocks stored in the order of submission, success only when all are | abstract |
| `BlockWriterMT` | `BlockCompressWriterMT` | `MainStep` is the serializer with `push_data`, `flush` (`Flush`, then `Replace`), direct and copied submission and `finish`; `CompressStep(k)` is the task of block `k`, `WriterStep` the serial `writer_node`, with its two writes |
| `BlockCodec` | `BlockCompressWriter` and `BlockCompressReader` | bytes carry their number; `PushData`, `PushHeader` cut, `GetData`, `GetWhole`, `GetRest`, `GetHeader` and the `...Fails` are the branches of `get_data` and `get_pod`; between the two the stream may be cut short (`Arrive`) |
| `HeaderCodec` | all headers, their decoding and the limits | a header is a sequence of PODs of 1 to 8 bytes; a row of `Tags` per kind of object; the reader gets what was written, or a foreign stream that holds anything |
| `ObjectFormat` | `write_object` ... `flush_payloads`, `read_into` ... `read_object_data` | `stack` and `rstack` are the nested calls, `queues` and `lists` the five lists of payloads and of pointers |
| `SaveLoad` | `save_erased`, `serialize_erased_impl`, `read_qdata_object` and the streams | `target` is what the file or the memory holds, `buffer` what the `ofstream` has not written yet, `position`, `end` and `at` the positions of the memory writer and of the reader |
| `MemoryStream` | `erased_memory_writer` and `memory_reader`, as operators on a buffer | `Fits` and `GrownSize` are `checked_required_capacity` and `ensure_capacity`; composed into `SaveLoad`, whose actions `LengthError`, `TellMemory`, `PatchMemory` and `ResizeMemory` are the calls |
| `Shuffle` | `blosc_shuffle`, `blosc_unshuffle` and their kernels for SSE2 and AVX2 | an operator per intrinsic, a round as the composition the code writes, `ShuffleGeneric` the loop for the rest |
| `BlockCompressor` | `ZstdCompressor`, `ZstdShuffleCompressor`, both decompressors, the size word | one action per stage of `compress` (`Sample`, `Predict`, `CompressPlain`, `CompressShuffled`, `CompressBoth`); `ReadBlock` is the check of the size word and `decompress`; `scratch` is `shuffleblock`, which keeps what earlier blocks left |
| `XXH3` | `XXH3_64bits` of a contiguous input | a hash is the record of which bytes were read with which part of the secret |
| `XXH3Stream` | `XXH3_64bits_reset`, `_update`, `_digest` | the variables are the fields of `XXH3_state_t`; a call that consumes stripes is a series of steps, `pc` its place, `job` the call of `XXH3_consumeStripes` |
| `XXH3Kernels` | `XXH3_accumulate_512` and `XXH3_scrambleAcc` in C, SSE2, AVX2, AVX-512 and NEON | an operator per intrinsic; lanes of two halves of any width (32 bits in the code, 3 in the run) and any number of NEON lanes that the build allows |
| `XXH3Digest` | `XXH3Stream` with the accumulators computed | puts the stripes of each digest through every kernel |
| `StringSlabs` | `string_storage_builder` and `read_string_payloads` | `slabs` holds every slab with its characters, `storage` the ones the vector owns, `records` the `string_ref`s; `filling` says which of the two pieces of code fills them |
| `*_proofs` | the theorems about the module they extend | section 5 |
| `MC*` | constants and symmetry for TLC | |

The multithreaded modules take a block as a unit, because `BlockCodec` is about
its bytes and the multithreaded pair cuts with the same code in the same
places. `ObjectFormat` takes headers and payloads as units: `BlockCodec` and
`HeaderCodec` are about those. `SaveLoad` takes the sequence of writes that an
object makes as a unit each, and a checksum as a name for what it covers, which
`XXH3Stream` justifies: the writer hashes sizes and blocks as they go by, the
check of a file hashes other pieces, and both get the hash of the contiguous
stream. `BlockCompressor` is about the inside of the frame that the block
modules pass on.

**External code.** TBB, zstd, xxHash and the standard streams are modelled
from how the code uses them.

- TBB: after the group is cancelled a task that has not begun is dropped, one
  that runs completes; the sequencer refuses a number it already handed out or
  holds; an exception in a task cancels and is rethrown by `wait_for_all()`,
  which may or may not have reset the flag when `finish()` reads it: both.
- zstd: compression may fail (`CompressMayFail`; every `compress` of
  `BlockCompressor`) and is inverted by decompression; decompressing no bytes
  yields no bytes without an error, which is why a lost block is noticed only
  by the test of the size that follows.
- The compiler's intrinsics: their documented effect on a register.
- `ofstream`: holds back as much of what was written as it likes; a seek
  writes it all out before it moves; the destructor drops errors.
- A new buffer comes from outside the pool and from nobody's hands. TLC has
  few buffers, so a step that needs a fresh one is disabled when none is left;
  there are enough for the frames or blocks of the instance (the deadlock
  check would tell).

## 3. Runs

| Run | Shows | Bounds, and why they are enough |
|---|---|---|
| `reader` | no buffer has two holders, the block in hand is the one whose turn it is, main never polls for a block that cannot come (`BuffersExclusive`, `CurrentBlockIntact`, `PollingEnds`); it implements `BlockSource`, always answers, and reads an undamaged stream (`Implements`, `Termination`, `WholeStreamSucceeds`) | all streams of up to 2 frames, each good, undecompressible, oversized or cut; objects that need 1 to 3 of them; decoding that ends well, in a malformed object or at a limit; 3 and 2 buffers, without symmetry, which liveness does not allow. One frame is in hand while the other is in a task or the sequencer, and pools are reused; the theorems lift the safety part to any number |
| `reader_limit` | *violation*: finding 1 | 2 frames |
| `writer` | `BuffersExclusive`, `FilePrefix`, `NothingLost`, no block waits in the sequencer for one that is not coming (`NoneAwaitedInVain`), implements `BlockSink`, always ends; with failing stream, failing compression and a serializer that throws | objects of up to 2 blocks in any mix of buffered, direct and copied; 3 and 2 buffers; again lifted by the theorems |
| `codec_roundtrip` | `BlockFits`, `FrameSizes`, `ReadsBack` | all sequences of up to 4 calls, the stream whole or cut short anywhere; block 4, reserve 2 in place of 2^20 and 64, lengths 0, 1, 3, 4, 5, 10: nothing, within the reserve, one less, equal, one more and several blocks; `U32` is a multiple of the block, as 2^32 is, and large enough not to wrap |
| `codec_wrap` | *violation*: finding 2 | the same with `U32` = 16 and a length of 20 |
| `format_roundtrip` | `RoundTrip`: same tree, names and payloads; `DepthAgreement`: both sides count nesting alike | all objects of up to 3 nodes (root with two attributes, two elements, one in the other, ...) of all 8 types, empty or not; limits of 1 to 3 on either side. Three nodes put any two groups of payloads in any order of traversal and storage |
| `format_temporaries` | *violation*: finding 3 | 2 nodes |
| `headers` | `HeaderRoundTrip`, `LimitsBothSides`, `HeaderFitsReserve` | lengths and counts on both sides of 32, 253, 256, 2^16, of 2^32 and of each limit (those beyond 2^16 scaled down in order), every tag byte of a foreign stream |
| `save_load` | `ChecksumIsLast`, `FailureLeavesPrefix`, `NoSilentLoss`, `ValidatedIsIntact`, `SavedReadsBack` | an object of 3 blocks (7 pieces with the header) to memory, to a new file and over the file of an object of 1 block, so that a shorter and a longer stream meet; stopped at any write; one damage, of the header too; a largest `size_t` of 3 (the save must end in `length_error`), 7 (memory is filled to the last piece, its size cannot be doubled) and 15 |
| `compressor` | `KernelsAgree`, `BlockSurvives`, `IntactReads` | every pair of writing and reading builds; blocks around 8 bytes, the chunks of 128 and 256 bytes of the kernels, and the 512 from which the heuristic samples (2^17 in the code); objects of two blocks, the second shorter, over the buffers of the first; levels on both sides of 14; every outcome of zstd and the prediction; the header's shuffle byte either way, since no checksum covers it |
| `digest` | `DigestIsOneShot`, `EveryByteHashed`, `BuildsAgree` | the true sizes of stripe, block, buffer and short hashes; 3 updates of 11 lengths, one on each side of every boundary, with digests and resets between; the kernels on lanes of 6 bits (the theorem: of any even number) |
| `strings` | `ViewsIntact`, `SizesKept` | vectors of up to 4 strings; slabs of 8 bytes, lengths 0 to 18: within, filling, beyond a slab, beyond the limit, equal to NA's size and beyond a `uint32_t` (16) |

Deadlock is checked in every run: a thread that waits for what never comes, or
a reader that meets a unit it does not expect, has no action left, and is
reported. States in which the program has ended stutter (`Terminated`).

Every property is paired in `PROJECT.json` with a mutant of the definition that
models the code, which stands in the module before the original with a comment
that starts "Mutant of": under it TLC finds the property violated.

**Fairness.** `reader` and `writer` assume weak fairness of the
reader task, of each decompressor or compressor task, of the writer task and of
the main thread. TBB keeps at least one worker that runs tasks which are
ready, and the main thread is scheduled by the operating system and never
blocked by another: it polls, or waits for tasks. No strong fairness is
assumed: polling is not made fair with respect to what it polls for. After a
result of "undefined" nothing is assumed.

## 4. What the checks found

1. `reader_limit`. The `checked_r_compatible_*` functions
   (`qdata_deserializer.h:38-57`) throw directly and not through
   `cleanup_and_throw`. With `BlockCompressReaderMT` the flow graph may still
   be at work: the nodes and pools are members declared after `myGraph`, so
   they are destroyed under their tasks before the destructor of the graph
   waits. `docs/qdata_spec.md:117`: "These limits apply on both read and write."
   Writing has the same: `enter_object_scope` (`write_traits.h:68`) throws out
   of `write_multi_thread` with tasks at work (`LimitThrow` in `BlockWriterMT`).
   On the other paths `finish()` and `cleanup()` wait for the graph. In the
   models that wait is a guard (`Idle`), so no property is spent on it.
2. `codec_wrap`. `get_data` counts what it has copied in a `uint32_t`
   (`block_module.h:204`, `multithreaded_block_module.h:378`): a vector of
   2^32 bytes or more is written and cannot be read, though the specification
   allows 2^52 elements.
3. `format_temporaries`. A deferred payload is a pointer into the object. A
   range whose iterator returns vectors by value serializes
   (`docs/qdata_spec.md:232`: "Any range-like type ... serializes
   automatically"), and the pointer dangles when the payload is written.

Also visible in the models, without a document that says otherwise or without
a run of their own:

- A failed `compress()` becomes a frame of size 0 in a write that succeeds
  (`CompressFails` in `BlockWriterMT`). It is found when the object is read,
  and only then (`BlockSurvives`).
- A save that fails in any way but on opening the file has destroyed the
  previous file, since validation comes after truncation. What it leaves is the
  beginning of the new file (`FailureLeavesPrefix`), without a checksum
  (`ChecksumIsLast`).
- A save may return with the checksum not written, since the destructor drops
  the error, and such a file is read without validation only (`SavedReadsBack`
  says exactly this).
- The shuffle byte of the header is not covered by the checksum. Where it is
  wrong, blocks are refused, never misread (`BlockSurvives`, `IntactReads`).
- `string_storage_builder` cuts the length of a `std::string` to a `uint32_t`
  (`core_types.h:104`) before any limit is checked, so that one of 4 GiB or
  more is shortened, or becomes NA, without an error; `docs/qdata_spec.md:117`
  says that the limits apply on write. `SizesKept` therefore speaks of lengths
  a file can hold; `ViewsIntact` holds for all.

## 5. Theorems

All are proved for every value of the constants that satisfies the named
assumptions of the modules: any number of frames or blocks and buffers, any
sizes with `0 < Reserve < MaxBlock`, any limits in the order of the code's, any
sizes of stripes, buffers and slabs. The argument is the same throughout: an
inductive invariant, one lemma that it holds initially, one per action or group
of its conjuncts that a step preserves it; then the properties follow from it.

**`BlockReaderMT_proofs`** — `Invariance`, `TypeCorrect`, `NoSharedBuffer`,
`BlocksInOrder`, `NeverPollsInVain`, `Refinement`. `BuffersExclusive` is not
inductive: that a task may take a buffer depends on who holds one in which
phase (`HoldInv`). That the block main takes is the next one depends on the
numbers of all frames in flight (`NumberInv`): good ones carry their place,
failed ones all carry 0, and of those with the same number the sequencer holds
one. A failed block that does carry the awaited number is taken, but is empty
(`size` = 0), and then the stream is damaged, which justifies the error
(`MainInv`). `NeverPollsInVain` (`PollingEnds`): when only main is left running
and polls in `get_new_block`, the awaited block is in the sequencer, or the end
of the stream or the cancellation is there to be seen. That needs more than
safety of the blocks: without a cancellation no emitted frame is ever lost or
refused, whatever the order in which the tasks end (`NoneLost`). It is what
`Termination` rests on besides fairness. `Refinement` covers every way the
decoding may end: what "undefined" leaves open (finding 1) is an outcome of its
own in `BlockSource`.

**`BlockWriterMT_proofs`** — `Invariance`, `TypeCorrect`, `NoSharedBuffer`,
`PrefixAlways`, `NoBlockLost`, `SequencerNeverStarves`, `Refinement`. The heart
is `WriterInv`: the sequencer's head counts the frames stored and the one in
the writer's hands, and exactly the blocks before it are gone. `NoBlockLost`
needs that an idle graph without an exception has stored everything: the least
block not stored would be at the sequencer's head and the graph not idle
(`IdleComplete`). `SequencerNeverStarves` (`NoneAwaitedInVain`) is the same at
every moment: while nothing is cancelled, the numbers from the head to that of
a waiting block are those of blocks on their way. `Refinement` covers
compressions that fail and serializers that throw; where compression does not
fail, no block is lost (`Sound`).

**`BlockCodec_proofs`** — `WriterInvariance`, `BlockNeverOverrun`,
`FramesWellSized`: the writer's `memcpy`s stay in the block, for any sizes and
calls. `StreamReadsBack`: what was pushed is read back, in calls cut elsewhere,
and a stream cut short is never taken for a whole one. The inductive invariant
(`Replay`) says where every byte is: the frames and the writer's block hold the
numbers from 0 on without a gap (`Layout`), the reader's block and the frames
it has not yet read hold them from the number of bytes returned on (`Spans`).
Its hypothesis `NoWrap` is that no call takes 2^32 bytes: without it the
property is false (finding 2, `codec_wrap`), with it `BlockCodec_roundtrip.cfg`
is an instance.

**`HeaderCodec_proofs`** — `HeadersRoundTrip`, `TypeCorrect`, `LimitsKept`,
`HeadersFitReserve`: from the facts that all tags of the table differ and that
no long tag lies in the range of a short one, that a value below a bound
survives the cast to it, and that attributes are counted in at most four bytes.

**`BlockCompressor_proofs`** — first `Shuffle`, for any number of elements:
`ShuffledIsPlanes`, `UnshuffledIsElements`, `UnshuffledIsSource`. Each
instruction of a kernel is a map of positions, lane `L` and offset `o` of a
register to register, lane and offset of an operand (`UnpackAt`, `Epi32At`,
`Permute4x64At`). Composed over the steps of a round (`Words8`, `Doubles8`,
`Quads8`, `HalvesOnce8` ...) they give, for every build and both element sizes,
"byte `r` of element `i`" (`ShuffleRoundAt`, `UnshuffleRoundAt`), and the loops
over the rounds give the two orders that the plain loops are written in
(`Planes`, `Elements`), which undo each other since quotient and remainder are
unique. Then the component: `TypeCorrect`, `EveryBuildAgrees`, `BlocksSurvive`,
`IntactBlocksRead`, for objects of any number of blocks and any sizes. The
inductive invariant `IInv` says what a frame may hold (`FramesOf`): nothing, the
block under a size without the flag, or the block in the order of `Planes`
under a size with it. Whatever the scratch buffers held before, only the bytes
of the block are ever read from them (`ShuffledInto`, `Restored`).

**`XXH3_proofs`** — first the state that is fed piece by piece: `TypeCorrect`,
`StreamHash`, `EveryByteIsHashed`: a digest is the hash of the contiguous
stream, however it was cut, and of all of its bytes. Between calls the
accumulators hold the first stripes of the stream, the buffer what follows them,
and at least one byte (`StateOK`); and where less than a stripe is buffered, the
end of the buffer still holds the bytes before it (`EndsAt`), which is what the
digest relies on. Within a call, the stripes still to be consumed are those that
continue the accumulators, whether they come from the buffer or the input
(`InvJob`, `InvBack`).

Then the kernels, for lanes of any even width, any shift and any prime of half a
word: `AccumulatesAgree` and `ScramblesAgree` (C, SSE2, AVX2, AVX-512 and NEON
compute the same accumulators from the same stripe and secret) and with them
`DigestsAgree`, that `BuildsAgree` always holds. Every kernel is compared with
one definition of what happens to each lane (`Accumulated`, `Scrambled`). In C
the lanes are updated one after the other and each by two of its rounds, its own
and its neighbour's; what holds after some of them is `After`. In the vector kernels a
register holds the lanes at `Place`, a lane is two halves (`Register`), and the
high half gets where the multiplication takes it by a shuffle or by a shift
(`HighIs`). A scramble multiplies a lane by a prime of half a word: the kernels
without a 64 bit multiplication add the products of the two halves, which agrees
modulo the word (`HalvesMultiply`). NEON takes the lanes in pairs, with the
halves separated for two registers at once (`PairIs`, `NeonLaneIs`), and leaves
what `XXH3_NEON_LANES` leaves out to the scalar rounds. `LoopReadsTheSame` is
the same question for the loop over short inputs. `DigestAssumption`, a stripe
is eight bytes per accumulator, is what the code asserts.

**`Objects_proofs`** — of `ObjectFormat`: `RoundTrips`, `NodesReadBack`,
`DepthsAgree`, for objects of any number of nodes, any types and any limits. The
recursion is over a tree, but the nodes are numbered in the order in which both
sides meet them. So no induction over trees is needed: the invariant `IInv`
says that the state of a side that has met `m` nodes is determined by the object
and `m`, up to the calls that are about to end. The open calls are a path from
the root (`Walk`) whose frames hold the children after `m` (`Frames`), the
stream has `m` headers at places that the roles of the nodes determine
(`HeadersIn`, `Pos`), and the lists have the vectors whose calls have ended
(`Ended`). Vectors are queued when their calls end, not when they are met: the
attributes of a vector come before it. That order can be read off the tree
(`Earlier`, `Queued`) and is the same on both sides, so that the payloads go to
the vectors they were queued for (`Flushing`, `Filling`). `NodesReadBack` holds
with temporaries too: a vector has what its address led to, its own payload or
nobody's. `RoundTrips` needs `Temporaries = FALSE`, the setting of
`format_roundtrip`; otherwise `format_temporaries` shows it false (finding 3).
For `DepthsAgree`, the number of open calls is the depth of the node on top, and
a refused call is one for a node that is too deep. `ReaderNeverStrays`: wherever
the reader is about to take a header, a name or a payload, the stream has one of
that kind, so that the guards which the model puts on its actions (`Has`), and
the code does not have, never keep it from a step.

Of `StringSlabs`: `StringsTypeCorrect`, `ViewsAreIntact`, `SizesAreKept`: every
view lies in a slab that is owned or current, and in the current one below
`used` (`Placed`, `Holds`), so that what is copied next does not reach it.

**`SaveLoad_proofs`** — `TypeCorrect`, `HashLast`, `FailurePrefix`, `SavedWhole`,
`ValidatedIntact`, `ReadBack`: all that the run checks, for objects of any
number of blocks and any `size_t`. While a save runs, what is in the file and
the buffer together begins like the stream of the new object (`Begins`,
`FileInv`), and so does the memory up to the position (`MemoryInv`), whatever
it has grown to (`GrownIs`). What stops the save cuts that short (`FirstBegins`).
A damaged piece cannot pass a validated read: it is either in what is hashed,
and no checksum of an object is of a damaged piece, or it is the header, which
may carry a checksum of something else, but then the blocks are intact
(`ValidatedNoGarbage`). That rests on `Digest` standing for what it is of (no
collision), and on one piece being damaged.

Only model-checked:

- liveness under fairness (`Termination`, `WholeStreamSucceeds`), which the
  proof system does not reach;
- that no module stops before its end, which TLC checks as deadlock and no
  theorem states (it speaks of `ENABLED`); `NeverPollsInVain` for the reader of
  blocks and `ReaderNeverStrays` for the reader of objects are the parts of it
  that rest on what came before.

## 6. Not modelled

- zstd and the standard library as algorithms: external, see section 2.
- The prediction of `xgboost_blockshuffle_model.h`, a generated table: it
  changes the size of the output only, and is any in `BlockCompressor`.
- Of xxHash: the multiplications and shifts that finish a hash, which are the
  same code in every build and both ways, and left uninterpreted; the kernels
  for VSX, SVE and LSX; XXH32, XXH64, the 128 bit hash, seeds and custom
  secrets, which the library never uses.
- Whether `read_object` (`qdata_deserializer.h:71`), which keeps pointers into
  a local object, returns that very object: C++ allows the copy to be elided
  and does not require it. `ObjectFormat` assumes it is.
- The functions for the headers of qs2 and `read_qx_header`; `memory_writer`;
  `get_ptr`, `current_data`, `remaining_data` and `advance_data` of the block
  readers: not called by the library.
- `traits.h` and the dispatch on types: resolved at compile time. The types of
  `core_types.h` other than the strings are values, their accessors forward.
- The error policy that unwinds for a host language: not built into the
  library. `throw_error` is the throw in every `cleanup_and_throw`.

## 7. Plan

Done: the block layer, since it is concurrent and everything rests on it
(`BlockReaderMT`, `BlockWriterMT` and their abstract specifications, with
proofs), the sequential layers from the bottom (`BlockCodec`, `HeaderCodec`,
`ObjectFormat`), the whole path with its memory and file streams (`SaveLoad`,
`MemoryStream`), and below the blocks the compressors, the shuffle and the
checksum (`BlockCompressor`, `Shuffle`, `XXH3*`); the strings (`StringSlabs`).

Proved: every safety property that a run checks.

Left: the kernels for VSX, SVE and LSX and the multiplications that finish a
hash. Out of reach of the proof system and left to TLC: liveness.
