---------------------------- MODULE BlockCompressor ----------------------------
(***************************************************************************)
(* What happens to one block between the block writer and the stream, and  *)
(* between the stream and the block reader: the compressors decide whether *)
(* to shuffle the bytes first and mark a shuffled block in the top bit of  *)
(* its size word; the decompressors undo it.  Writer and reader may be     *)
(* different builds of the library, see Shuffle.  The reader takes its     *)
(* decompressor from the shuffle byte of the file header.                  *)
(*                                                                         *)
(* zstd is external: compressing yields a payload of some size or an       *)
(* error, decompressing a payload yields what was compressed, and          *)
(* decompressing no bytes at all yields no bytes, which is no error.  The  *)
(* prediction of the XGBoost model is any.                                 *)
(***************************************************************************)
EXTENDS Shuffle, Sequences, FiniteSets

CONSTANTS
    Plans,         \* the objects: sequences of block sizes
    Levels,        \* compression levels
    MaxBlock,      \* MAX_BLOCKSIZE
    PayloadSizes,  \* sizes a payload may have
    MaxZBlock,     \* MAX_ZBLOCKSIZE
    Mask,          \* SHUFFLE_MASK and BLOCK_METADATA: 2^31 in a word of 32 bits
    SampleSize     \* SHUFFLE_HEURISTIC_BLOCKSIZE

ASSUME SizesAssumption ==
    /\ MaxBlock \in Nat /\ MaxZBlock \in Nat /\ Mask \in Nat
    /\ Plans \subseteq Seq(1..MaxBlock) \ {<< >>}
    /\ PayloadSizes \subseteq 1..MaxZBlock /\ MaxZBlock < Mask
    /\ SampleSize \in Nat \ {0} /\ SampleSize % 8 = 0

HighLevel == 14  \* HIGH_COMPRESS_LEVEL_THRESHOLD
ElemSize == 8    \* SHUFFLE_ELEMSIZE

VARIABLES
    plan, level, shuffle, wbuild, \* the object, the arguments of the save, the writer's build
    header, rbuild,               \* the shuffle byte as the reader finds it, its build
    pc, k, samples,               \* the step, the block it is about, samples taken
    scratch,                      \* shuffleblock of the compressor, then of the decompressor
    stream,                       \* the frames: size word, payload and its length
    dst, size                     \* the reader's block and its size

input == <<plan, level, shuffle, wbuild, header, rbuild>>
vars == <<input, pc, k, samples, scratch, stream, dst, size>>

Upto(n) == 0..(n - 1)

\* Byte i of block b, a value of its own.
Byte(b, i) == b * MaxBlock + i
Source == [i \in Upto(plan[k]) |-> Byte(k, i)]

\* What is stored when zstd reports an error, for a sample or for the block:
\* COMPRESSION_ERROR is 0, and is written as if it were a size.
Lost == [word |-> 0, bytes |-> 0, content |-> << >>]
Payload(word, bytes, content) == [word |-> word, bytes |-> bytes, content |-> content]

Init ==
    /\ plan \in Plans /\ level \in Levels /\ shuffle \in BOOLEAN /\ header \in BOOLEAN
    /\ wbuild \in Builds /\ rbuild \in Builds
    /\ pc = "begin" /\ k = 1 /\ samples = 0
    /\ scratch = [i \in Upto(MaxBlock) |-> 0]
    /\ stream = << >>
    /\ dst = [i \in Upto(MaxBlock) |-> 0] /\ size = 0

--------------------------------------------------------------------------------
(* compress, and the writing of the frame *)

\* Write the size word, then as many bytes as it says without its flag.
Store(frame) ==
    /\ stream' = Append(stream, frame)
    /\ k' = k + 1 /\ samples' = 0
    /\ pc' = IF k = Len(plan) THEN "open" ELSE "begin"
    /\ UNCHANGED <<input, dst, size>>

\* ZstdCompressor, and ZstdShuffleCompressor for a block too small to sample.
SkipHeuristic ==
    /\ pc = "begin"
    /\ ~shuffle \/ plan[k] < 8 * SampleSize
    /\ pc' = "plain"
    /\ UNCHANGED <<input, k, samples, scratch, stream, dst, size>>

\* One round of use_shuffle_heuristic: a sample is compressed in both ways.
Sample ==
    /\ \/ pc = "begin" /\ shuffle /\ plan[k] >= 8 * SampleSize
       \/ pc = "sample"
    /\ LET offset == (plan[k] \div 4) * samples
           sample == [i \in Upto(SampleSize) |-> Source[offset + i]]
       IN  scratch' = Over(Shuffled(wbuild, sample, SampleSize, ElemSize), scratch)
    /\ \/ /\ samples' = samples + 1
          /\ pc' = IF samples = 3 THEN "predict" ELSE "sample"
          /\ UNCHANGED <<input, k, stream, dst, size>>
       \/ Store(Lost)

\* predict_xgboost_impl(features) > threshold, or not.
Predict ==
    /\ pc = "predict"
    /\ pc' \in {"plain", "shuffled"}
    /\ UNCHANGED <<input, k, samples, scratch, stream, dst, size>>

CompressPlain ==
    /\ pc = "plain"
    /\ Store(Lost) \/ \E n \in PayloadSizes : Store(Payload(n, n, Source))
    /\ UNCHANGED scratch

\* Mutant of ShuffledSource: the last bytes are padded to a whole element.
ShuffledSourcePadded ==
    LET whole == plan[k] - (plan[k] % ElemSize)
        last == [i \in whole..(whole + ElemSize - 1) |-> IF i < plan[k] THEN Source[i] ELSE 0]
    IN  Over(Shuffled(wbuild, Source, whole, ElemSize), Over(last, scratch))

\* The block shuffled into the scratch buffer, the last bytes as they are.
ShuffledSource ==
    LET whole == plan[k] - (plan[k] % ElemSize)
        last == [i \in whole..(plan[k] - 1) |-> Source[i]]
    IN  Over(Shuffled(wbuild, Source, whole, ElemSize), Over(last, scratch))

\* Compress shuffled.
CompressShuffled ==
    /\ pc = "shuffled" /\ level < HighLevel
    /\ scratch' = ShuffledSource
    /\ \/ Store(Lost)
       \/ \E n \in PayloadSizes :
            Store(Payload(n + Mask, n, [i \in Upto(plan[k]) |-> scratch'[i]]))

\* Compress both ways and keep the smaller payload.
CompressBoth ==
    /\ pc = "shuffled" /\ level >= HighLevel
    /\ scratch' = ShuffledSource
    /\ \/ Store(Lost)
       \/ \E with, without \in PayloadSizes :
            Store(IF with < without
                  THEN Payload(with + Mask, with, [i \in Upto(plan[k]) |-> scratch'[i]])
                  ELSE Payload(without, without, Source))

\* The stream is complete; a reader opens it, with buffers of its own.
Open ==
    /\ pc = "open"
    /\ pc' = "read" /\ k' = 1
    /\ scratch' = [i \in Upto(MaxBlock) |-> 0]
    /\ UNCHANGED <<input, samples, stream, dst, size>>

--------------------------------------------------------------------------------
(* The reading of the frame, and decompress *)

\* Mutant of compressed_block_size: the flag is left in.
CompressedBlockSizeRaw(word) == word

\* compressed_block_size(zsize): the word without its flag.
CompressedBlockSize(word) == word % Mask

\* ZSTD_decompressDCtx: what it makes of n bytes of a payload.
Zstd(frame, n) ==
    [ok |-> n \in {0, frame.bytes}, data |-> IF n = 0 THEN << >> ELSE frame.content]

\* is_error(blocksize): COMPRESSION_ERROR is 0.
IsError(n) == n = 0

\* Whatever goes wrong, decompress returns 0 and the reader throws.
Fail ==
    /\ pc' = "error"
    /\ UNCHANGED <<input, k, samples, stream, dst, size>>

\* The output of zstd becomes the block, or the reader throws.
Accept(output, block) ==
    IF ~output.ok \/ IsError(Cardinality(DOMAIN output.data)) THEN Fail
    ELSE /\ dst' = Over(block, dst)
         /\ size' = Cardinality(DOMAIN output.data)
         /\ pc' = "decoded"
         /\ UNCHANGED <<input, k, samples, stream>>

\* Mutant of DecompressPlain: the flag of an unexpected shuffled block is dropped.
DecompressPlainUnflagged(frame) ==
    /\ ~(header /\ frame.word >= Mask)
    /\ LET output == Zstd(frame, CompressedBlockSize(frame.word))
       IN  Accept(output, output.data)
    /\ UNCHANGED scratch

\* ZstdDecompressor, which knows no flag, and ZstdShuffleDecompressor without it.
DecompressPlain(frame) ==
    /\ ~(header /\ frame.word >= Mask)
    /\ IF frame.word > MaxZBlock THEN Fail
       ELSE LET output == Zstd(frame, frame.word) IN Accept(output, output.data)
    /\ UNCHANGED scratch

\* ZstdShuffleDecompressor, for a block with the flag.
DecompressShuffled(frame) ==
    /\ header /\ frame.word >= Mask
    /\ LET output == Zstd(frame, CompressedBlockSize(frame.word))
           n == Cardinality(DOMAIN output.data)
           whole == n - (n % ElemSize)
           shuffled == Over(output.data, scratch)
           last == [i \in whole..(n - 1) |-> shuffled[i]]
       IN  /\ scratch' = shuffled
           /\ Accept(output, Over(Unshuffled(rbuild, shuffled, whole, ElemSize), last))

\* decompress_block: the size word must fit the buffer before it is used.
ReadBlock ==
    /\ pc = "read"
    /\ IF CompressedBlockSize(stream[k].word) > MaxZBlock THEN Fail /\ UNCHANGED scratch
       ELSE DecompressPlain(stream[k]) \/ DecompressShuffled(stream[k])

\* The block has been used; the next one, or the end.
NextBlock ==
    /\ pc = "decoded"
    /\ k' = k + 1
    /\ pc' = IF k = Len(plan) THEN "done" ELSE "read"
    /\ UNCHANGED <<input, samples, scratch, stream, dst, size>>

Terminated == pc \in {"done", "error"} /\ UNCHANGED vars

Next ==
    \/ SkipHeuristic \/ Sample \/ Predict
    \/ CompressPlain \/ CompressShuffled \/ CompressBoth
    \/ Open \/ ReadBlock \/ NextBlock \/ Terminated

Spec == Init /\ [][Next]_vars

--------------------------------------------------------------------------------
(* Properties *)

\* Type invariant: nothing is written outside of the scratch buffers and of the
\* reader's block, and a size word has room for the size and the flag.
TypeOK ==
    /\ plan \in Plans /\ level \in Levels /\ shuffle \in BOOLEAN /\ header \in BOOLEAN
    /\ wbuild \in Builds /\ rbuild \in Builds
    /\ pc \in {"begin", "sample", "predict", "plain", "shuffled", "open", "read", "decoded",
              "error", "done"}
    /\ k \in 1..(Len(plan) + 1) /\ samples \in 0..4
    /\ DOMAIN scratch = Upto(MaxBlock) /\ DOMAIN dst = Upto(MaxBlock)
    /\ size \in 0..MaxBlock
    /\ \A j \in DOMAIN stream : stream[j].word \in 0..(2 * Mask - 1) /\ stream[j].bytes \in 0..MaxZBlock

\* The kernels of every build do what the plain loops do, for both element
\* sizes they know and any number of elements, and undo each other.
KernelsAgree ==
    (pc = "begin" /\ stream = << >>) =>
        \A t \in {4, 8} :
           LET n == plan[1] - (plan[1] % t)
               shuffled == Shuffled(wbuild, Source, n, t)
           IN  /\ shuffled = Shuffled("generic", Source, n, t)
               /\ Unshuffled(rbuild, shuffled, n, t) = [i \in Upto(n) |-> Source[i]]

\* A block that is decoded is the block that was written, byte for byte,
\* whatever the builds, the heuristic and the header's shuffle byte say, and
\* whatever earlier blocks have left in the buffers: the reader never takes
\* shuffled bytes for plain ones, nor a block lost by a failed compression, which
\* the save reports to nobody, for an empty one.
BlockSurvives ==
    pc = "decoded" => size = plan[k] /\ \A i \in Upto(size) : dst[i] = Byte(k, i)

\* The reader rejects nothing but a lost block, or shuffled blocks behind a
\* header that denies them: every other block is decoded by every build.
IntactReads ==
    pc = "error" => stream[k].bytes = 0 \/ (stream[k].word >= Mask /\ ~header)
================================================================================
