------------------------------- MODULE BlockCodec -------------------------------
(***************************************************************************)
(* BlockCompressWriter cuts the byte stream of the serializer into blocks  *)
(* of at most MAX_BLOCKSIZE bytes, and BlockCompressReader puts it         *)
(* together again for a deserializer that asks for the same pieces.  The   *)
(* stream may be cut short on its way.  The multithreaded pair cuts blocks *)
(* in the same places with the same code.                                  *)
(*                                                                         *)
(* Bytes are numbered in the order in which the serializer pushes them, so *)
(* a piece of data is the sequence of its byte numbers.  Compression and   *)
(* decompression invert each other and are left out: a frame is a block.   *)
(* The sizes of the code are scaled down: what counts is how lengths       *)
(* compare with MaxBlock, with the reserve, and with the range U32 of a    *)
(* uint32_t, of which MaxBlock is a divisor as 2^20 is of 2^32.            *)
(***************************************************************************)
EXTENDS Naturals, Sequences

CONSTANTS
    MaxBlock,   \* MAX_BLOCKSIZE
    Reserve,    \* BLOCK_RESERVE
    U32,        \* 2^32
    Lengths,    \* the lengths push_data is called with
    Headers,    \* the sizes of headers, a tag and what is contiguous with it
    MaxCalls    \* bound on the calls of the serializer

\* The static_asserts of read_common.h: a header fits in the reserve.
ASSUME SizesAssumption ==
    /\ MaxBlock \in Nat /\ Reserve \in 1..(MaxBlock - 1) /\ U32 \in Nat /\ MaxCalls \in Nat
    /\ Lengths \subseteq Nat /\ Headers \subseteq 1..Reserve

VARIABLES
    calls,              \* what the serializer has pushed, in order
    pushed,             \* the number of bytes pushed
    block,              \* the writer's block, current_blocksize bytes of it
    frames,             \* the blocks in the stream
    stream,             \* the blocks the reader gets
    next,               \* the reader's next call
    cursor,             \* the frames it has read
    rblock, offset,     \* its block (current_blocksize bytes), data_offset
    out, accounted,     \* outbuffer of the running get_data, bytes_accounted
    got,                \* the bytes handed to the deserializer
    mode                \* "write", "written", "read" or "loop" in get_data, an outcome

writer == <<calls, pushed, block, frames, stream>>
reader == <<next, cursor, rblock, offset, out, accounted, got>>
vars == <<writer, reader, mode>>

MinBlock == MaxBlock - Reserve

\* n bytes after the first k, by their numbers.
Bytes(k, n) == [i \in 1..n |-> k + i]

Init ==
    /\ calls = << >> /\ pushed = 0 /\ block = << >> /\ frames = << >> /\ stream = << >>
    /\ next = 1 /\ cursor = 0 /\ rblock = << >> /\ offset = 0
    /\ out = << >> /\ accounted = 0 /\ got = << >>
    /\ mode = "write"

--------------------------------------------------------------------------------
(* The writer *)

\* flush(), when the block is full; the frames and the block after it.
FlushFull(b) == IF Len(b) >= MaxBlock THEN <<b>> ELSE << >>
AfterFull(b) == IF Len(b) >= MaxBlock THEN << >> ELSE b

\* Mutant of Joined: a full block is not flushed before the next one.
JoinedWhole(b, n) == IF b = << >> THEN 0 ELSE n

\* How many of n bytes are appended to a block that is not empty.
Joined(b, n) ==
    IF b = << >> THEN 0 ELSE IF n < MaxBlock - Len(b) THEN n ELSE MaxBlock - Len(b)

\* push_data: fill the current block, store full blocks straight from the
\* input, and put what remains at the start of the block.
PushData(n) ==
    /\ mode = "write" /\ Len(calls) < MaxCalls
    /\ LET start  == AfterFull(block)
           joined == Joined(start, n)
           filled == start \o Bytes(pushed, joined)
           rest   == n - joined
           whole  == rest \div MaxBlock
           left   == rest % MaxBlock
           direct == [i \in 1..whole |-> Bytes(pushed + joined + (i - 1) * MaxBlock, MaxBlock)]
       IN  /\ frames' = frames \o FlushFull(block) \o FlushFull(filled) \o direct
           /\ block' = IF left > 0 THEN Bytes(pushed + n - left, left) ELSE AfterFull(filled)
    /\ calls' = Append(calls, <<"data", n>>)
    /\ pushed' = pushed + n
    /\ UNCHANGED <<stream, reader, mode>>

\* Mutant of Crowded: push_pod flushes a full block only.
CrowdedFull(b) == Len(b) >= MaxBlock

\* push_pod flushes a block whose reserve has been broken into.
Crowded(b) == Len(b) > MinBlock

\* A header: push_pod for its tag, push_pod_contiguous for what follows.
PushHeader(h) ==
    /\ mode = "write" /\ Len(calls) < MaxCalls
    /\ frames' = IF Crowded(block) THEN Append(frames, block) ELSE frames
    /\ block' = (IF Crowded(block) THEN << >> ELSE block) \o Bytes(pushed, h)
    /\ calls' = Append(calls, <<"header", h>>)
    /\ pushed' = pushed + h
    /\ UNCHANGED <<stream, reader, mode>>

\* finish() stores the last block.
FinishWrite ==
    /\ mode = "write"
    /\ frames' = IF block = << >> THEN frames ELSE Append(frames, block)
    /\ block' = << >>
    /\ mode' = "written"
    /\ UNCHANGED <<calls, pushed, stream, reader>>

\* A stream that ends before its last byte, between two blocks or within one.
CutShort(s) ==
    {SubSeq(s, 1, k - 1) : k \in 1..Len(s)}
    \cup UNION {{Append(SubSeq(s, 1, k - 1), SubSeq(s[k], 1, j)) : j \in 1..(Len(s[k]) - 1)} :
                 k \in 1..Len(s)}

\* The stream is handed to a reader, whole or not.
Arrive ==
    /\ mode = "written"
    /\ stream' \in {frames} \cup CutShort(frames)
    /\ mode' = "read"
    /\ UNCHANGED <<calls, pushed, block, frames, reader>>

WriterStep ==
    \/ \E n \in Lengths : PushData(n)
    \/ \E h \in Headers : PushHeader(h)
    \/ FinishWrite \/ Arrive

--------------------------------------------------------------------------------
(* The reader, which replays the calls *)

Remaining == Len(rblock) - offset

\* The stream has another block, of one of these sizes.
NextHas(sizes) == cursor < Len(stream) /\ Len(stream[cursor + 1]) \in sizes

\* Mutant of Here: data_offset is not added.
HereFromStart(n) == SubSeq(rblock, 1, n)

\* The n bytes at data_offset of the current block.
Here(n) == SubSeq(rblock, offset + 1, offset + n)

\* cleanup_and_throw
Throw ==
    /\ mode' = "error"
    /\ UNCHANGED <<writer, reader>>

\* get_data: all of it is in the block, or what is there is copied first.
GetData ==
    /\ mode = "read" /\ next <= Len(calls) /\ calls[next][1] = "data"
    /\ LET n == calls[next][2]
       IN  IF Remaining >= n
             THEN /\ got' = got \o Here(n)
                  /\ offset' = offset + n
                  /\ next' = next + 1
                  /\ UNCHANGED <<out, accounted, mode>>
             ELSE /\ out' = Here(Remaining)
                  /\ accounted' = Remaining
                  /\ mode' = "loop"
                  /\ UNCHANGED <<got, offset, next>>
    /\ UNCHANGED <<writer, cursor, rblock>>

\* memcpy to outbuffer + accounted
CopyOut(data) ==
    [i \in 1..(IF accounted + Len(data) > Len(out) THEN accounted + Len(data) ELSE Len(out)) |->
        IF i > accounted /\ i <= accounted + Len(data) THEN data[i - accounted] ELSE out[i]]

\* bytes_accounted += n, in a uint32_t
Account(n) == (accounted + n) % U32

\* A whole block is decompressed straight into the output.
GetWhole ==
    /\ mode = "loop" /\ calls[next][2] - accounted >= MaxBlock
    /\ NextHas({MaxBlock})
    /\ out' = CopyOut(stream[cursor + 1])
    /\ accounted' = Account(MaxBlock)
    /\ cursor' = cursor + 1
    /\ rblock' = stream[cursor + 1]
    /\ offset' = MaxBlock
    /\ UNCHANGED <<writer, next, got, mode>>

\* The rest is the start of the next block.
GetRest ==
    /\ mode = "loop" /\ calls[next][2] - accounted \in 1..(MaxBlock - 1)
    /\ NextHas((calls[next][2] - accounted)..MaxBlock)
    /\ LET n == calls[next][2] - accounted
       IN  /\ got' = got \o CopyOut(SubSeq(stream[cursor + 1], 1, n))
           /\ offset' = n
    /\ cursor' = cursor + 1
    /\ rblock' = stream[cursor + 1]
    /\ next' = next + 1
    /\ mode' = "read"
    /\ UNCHANGED <<writer, out, accounted>>

GetDone ==
    /\ mode = "loop" /\ calls[next][2] = accounted
    /\ got' = got \o out
    /\ next' = next + 1
    /\ mode' = "read"
    /\ UNCHANGED <<writer, cursor, rblock, offset, out, accounted>>

\* The stream has no further block, or one of the wrong size.
GetDataFails ==
    /\ mode = "loop" /\ calls[next][2] > accounted
    /\ LET n == calls[next][2] - accounted
       IN  IF n >= MaxBlock THEN ~NextHas({MaxBlock}) ELSE ~NextHas(n..MaxBlock)
    /\ Throw

\* get_pod for the tag and get_pod_contiguous for what follows: a header is
\* read from one block, a new one when the current block is used up.
GetHeader ==
    /\ mode = "read" /\ next <= Len(calls) /\ calls[next][1] = "header"
    /\ LET n     == calls[next][2]
           fresh == Remaining = 0
           b     == IF fresh THEN stream[cursor + 1] ELSE rblock
           o     == IF fresh THEN 0 ELSE offset
       IN  /\ fresh => cursor < Len(stream)
           /\ Len(b) - o >= n
           /\ got' = got \o SubSeq(b, o + 1, o + n)
           /\ rblock' = b
           /\ offset' = o + n
           /\ cursor' = IF fresh THEN cursor + 1 ELSE cursor
    /\ next' = next + 1
    /\ UNCHANGED <<writer, out, accounted, mode>>

GetHeaderFails ==
    /\ mode = "read" /\ next <= Len(calls) /\ calls[next][1] = "header"
    /\ LET n == calls[next][2]
       IN  IF Remaining = 0 THEN ~NextHas(n..MaxBlock) ELSE Remaining < n
    /\ Throw

\* Every piece has been read; finish() does nothing.
FinishRead ==
    /\ mode = "read" /\ next > Len(calls)
    /\ mode' = "ok"
    /\ UNCHANGED <<writer, reader>>

ReaderStep ==
    \/ GetData \/ GetWhole \/ GetRest \/ GetDone \/ GetDataFails
    \/ GetHeader \/ GetHeaderFails \/ FinishRead

--------------------------------------------------------------------------------
Terminated == mode \in {"ok", "error"} /\ UNCHANGED vars

Next == WriterStep \/ ReaderStep \/ Terminated

Spec == Init /\ [][Next]_vars

--------------------------------------------------------------------------------
(* Properties *)

\* No memcpy of the writer leaves its block, whose size is MAX_BLOCKSIZE.
BlockFits == Len(block) <= MaxBlock

\* MIN_BLOCKSIZE is the "smallest allowable block size, except for last block",
\* and no block is empty or too big for the reader's buffer.
FrameSizes ==
    \A i \in 1..Len(frames) :
       /\ Len(frames[i]) \in 1..MaxBlock
       /\ i < Len(frames) \/ mode = "write" => Len(frames[i]) >= MinBlock

\* The deserializer gets the bytes the serializer pushed, in order, and copies
\* none from beyond its block.  A stream that arrives as it was written is read
\* whole, so the reader never asks for a block the writer has cut elsewhere; one
\* that was cut short is not.
ReadsBack ==
    /\ offset <= Len(rblock)
    /\ \A i \in 1..Len(got) : got[i] = i
    /\ mode = "error" => stream # frames
    /\ mode = "ok" => stream = frames /\ Len(got) = pushed /\ cursor = Len(stream) /\ Remaining = 0
================================================================================
