----------------------------- MODULE BlockReaderMT -----------------------------
(***************************************************************************)
(* BlockCompressReaderMT: a TBB flow graph reads compressed frames ahead   *)
(* (reader_node), decompresses them on any number of workers               *)
(* (decompressor_node), puts them back in order (sequencer_node), and the  *)
(* calling thread polls for the next block.                                *)
(*                                                                         *)
(* Three kinds of thread run: the reader_node task (serial), one           *)
(* decompressor task per frame, and the main thread.  A step is what one   *)
(* of them does between two accesses to shared state.  Shared are the two  *)
(* buffer pools, end_of_file, blocks_to_process, the cancellation flag of  *)
(* the task group, and the sequencer.                                      *)
(*                                                                         *)
(* TBB is external.  Once the task group is cancelled a task that has not  *)
(* begun is dropped and one that runs completes, its output included.  The *)
(* sequencer refuses a number already handed out or already present.       *)
(* wait_for_all() returns when no task is left, and may or may not have    *)
(* reset the cancellation flag: both are allowed here.                     *)
(***************************************************************************)
EXTENDS Naturals, Sequences, FiniteSets

CONSTANTS
    MaxFrames,  \* bound on the frames of a stream
    Endings,    \* how decoding the object may end, see BlockSource
    Blocks,     \* buffers of MAX_BLOCKSIZE bytes
    ZBlocks,    \* buffers of MAX_ZBLOCKSIZE bytes
    NoBuf       \* an empty shared_ptr

ASSUME MaxFramesAssumption == MaxFrames \in Nat
ASSUME BuffersAssumption == NoBuf \notin Blocks \cup ZBlocks

VARIABLES
    file, want, ending,         \* the stream and the object, chosen at the start
    rd, pos,                    \* reader_node: its state, the frames it has read
    phase, num, zbuf, buf,      \* per frame: where it is, its blocknumber, its buffers
    zpool, pool,                \* available_zblocks, available_blocks
    zcontent, content,          \* the frame a buffer holds, 0 for none
    head,                       \* the number the sequencer hands out next
    eof, toProcess, cancelled,  \* end_of_file, blocks_to_process, tgc
    pc, current, size,          \* main: its place, current_block, current_blocksize
    processed, why, result      \* main: blocks_processed, the pending error, the outcome

inputs == <<file, want, ending>>
reader == <<rd, pos>>
frames == <<phase, num, zbuf, buf>>
buffers == <<zpool, pool, zcontent, content>>
main == <<pc, current, size, processed, why, result>>
vars == <<inputs, reader, frames, buffers, head, eof, toProcess, cancelled, main>>

Frames == 1..MaxFrames
Kinds == {"ok", "bad", "big", "cut"}
Streams ==
    UNION {{s \in [1..n -> Kinds] : \A i \in 1..n : s[i] = "cut" => i = n} :
             n \in 0..MaxFrames}

\* A frame travels none - reading - queued - running - decoded (or failed) -
\* slotted - taken - gone, and is dropped by cancellation or by the sequencer.
Phases == {"none", "reading", "queued", "running", "decoded", "failed",
           "slotted", "taken", "gone", "dropped"}

HeldZBlocks == zpool \cup {zbuf[f] : f \in Frames}
HeldBlocks == pool \cup {current} \cup {buf[f] : f \in Frames}

\* if(!available_zblocks.try_pop(z)) z = MAKE_SHARED_BLOCK_ASSIGNMENT(MAX_ZBLOCKSIZE)
PopZBlock(z) ==
    \/ z \in zpool /\ zpool' = zpool \ {z}
    \/ zpool = {} /\ z \notin HeldZBlocks /\ zpool' = zpool

\* if(!available_blocks.try_pop(b)) b = MAKE_SHARED_BLOCK_ASSIGNMENT(MAX_BLOCKSIZE)
PopBlock(b) ==
    \/ b \in pool /\ pool' = pool \ {b}
    \/ pool = {} /\ b \notin HeldBlocks /\ pool' = pool

\* No task of the flow graph is running or waiting to run.
Idle ==
    /\ rd = "stopped"
    /\ \A f \in Frames : phase[f] \notin {"queued", "running", "decoded", "failed"}

Init ==
    /\ file \in Streams
    /\ want \in 1..(MaxFrames + 1)
    /\ ending \in Endings
    /\ rd = "ready" /\ pos = 0
    /\ phase = [f \in Frames |-> "none"]
    /\ num = [f \in Frames |-> 0]
    /\ zbuf = [f \in Frames |-> NoBuf]
    /\ buf = [f \in Frames |-> NoBuf]
    /\ zpool = {} /\ pool = {}
    /\ zcontent = [z \in ZBlocks |-> 0]
    /\ content = [b \in Blocks |-> 0]
    /\ head = 0 /\ eof = FALSE /\ toProcess = 0 /\ cancelled = FALSE
    /\ pc = "use" /\ current \in Blocks /\ size = 0
    /\ processed = 0 /\ why = "none" /\ result = "none"

--------------------------------------------------------------------------------
(* reader_node: read_next_zblock *)

\* The size word cannot be read: the stream is at its end.
ReadEof ==
    /\ rd = "ready" /\ ~cancelled
    /\ pos = Len(file)
    /\ eof' = TRUE
    /\ rd' = "stopped"
    /\ UNCHANGED <<inputs, pos, frames, buffers, head, toProcess, cancelled, main>>

\* The size word does not fit a compressed block: cancel, and no end_of_file.
ReadOversize ==
    /\ rd = "ready" /\ ~cancelled
    /\ pos < Len(file) /\ file[pos + 1] = "big"
    /\ cancelled' = TRUE
    /\ rd' = "stopped"
    /\ UNCHANGED <<inputs, pos, frames, buffers, head, eof, toProcess, main>>

\* The size word is good: get a buffer and start reading the payload into it.
ReadHeader ==
    /\ rd = "ready" /\ ~cancelled
    /\ pos < Len(file) /\ file[pos + 1] # "big"
    /\ \E z \in ZBlocks :
         /\ PopZBlock(z)
         /\ zbuf' = [zbuf EXCEPT ![pos + 1] = z]
         /\ zcontent' = [zcontent EXCEPT ![z] = 0]
    /\ phase' = [phase EXCEPT ![pos + 1] = "reading"]
    /\ rd' = "reading"
    /\ UNCHANGED <<inputs, pos, num, buf, pool, content, head, eof, toProcess,
                   cancelled, main>>

\* Mutant of ReadShort: stops as for a failed read, without end_of_file.
ReadShortSilent ==
    /\ rd = "reading" /\ file[pos + 1] = "cut"
    /\ rd' = "stopped"
    /\ phase' = [phase EXCEPT ![pos + 1] = "dropped"]
    /\ zbuf' = [zbuf EXCEPT ![pos + 1] = NoBuf]
    /\ UNCHANGED <<inputs, pos, num, buf, buffers, head, eof, toProcess, cancelled, main>>

\* The payload is cut short.  Its buffer is not given back to the pool.
ReadShort ==
    /\ rd = "reading" /\ file[pos + 1] = "cut"
    /\ eof' = TRUE
    /\ rd' = "stopped"
    /\ phase' = [phase EXCEPT ![pos + 1] = "dropped"]
    /\ zbuf' = [zbuf EXCEPT ![pos + 1] = NoBuf]
    /\ UNCHANGED <<inputs, pos, num, buf, buffers, head, toProcess, cancelled, main>>

\* Mutant of ReadFrame: counts the frame once more than it is emitted.
ReadFrameCountsTwice ==
    /\ rd = "reading" /\ file[pos + 1] # "cut"
    /\ zcontent' = [zcontent EXCEPT ![zbuf[pos + 1]] = pos + 1]
    /\ num' = [num EXCEPT ![pos + 1] = toProcess]
    /\ toProcess' = toProcess + 2
    /\ phase' = [phase EXCEPT ![pos + 1] = "queued"]
    /\ pos' = pos + 1
    /\ rd' = "ready"
    /\ UNCHANGED <<inputs, zbuf, buf, zpool, pool, content, head, eof, cancelled, main>>

\* The payload is complete: number it, count it and emit it.
ReadFrame ==
    /\ rd = "reading" /\ file[pos + 1] # "cut"
    /\ zcontent' = [zcontent EXCEPT ![zbuf[pos + 1]] = pos + 1]
    /\ num' = [num EXCEPT ![pos + 1] = toProcess]
    /\ toProcess' = toProcess + 1
    /\ phase' = [phase EXCEPT ![pos + 1] = "queued"]
    /\ pos' = pos + 1
    /\ rd' = "ready"
    /\ UNCHANGED <<inputs, zbuf, buf, zpool, pool, content, head, eof, cancelled, main>>

\* The reader's next task is dropped by the cancellation.
DropReader ==
    /\ rd = "ready" /\ cancelled
    /\ rd' = "stopped"
    /\ UNCHANGED <<inputs, pos, frames, buffers, head, eof, toProcess, cancelled, main>>

ReaderStep ==
    ReadEof \/ ReadOversize \/ ReadHeader \/ ReadShort \/ ReadFrame \/ DropReader

--------------------------------------------------------------------------------
(* decompressor_node, one task per frame, and the push into sequencer_node *)

\* Mutant of StartDecompress: recycles the compressed buffer before it is read.
StartDecompressRecycles(f) ==
    /\ phase[f] = "queued" /\ ~cancelled
    /\ \E b \in Blocks :
         /\ PopBlock(b)
         /\ buf' = [buf EXCEPT ![f] = b]
         /\ content' = [content EXCEPT ![b] = 0]
    /\ zpool' = zpool \cup {zbuf[f]}
    /\ phase' = [phase EXCEPT ![f] = "running"]
    /\ UNCHANGED <<inputs, reader, num, zbuf, zcontent, head, eof, toProcess, cancelled, main>>

StartDecompress(f) ==
    /\ phase[f] = "queued" /\ ~cancelled
    /\ \E b \in Blocks :
         /\ PopBlock(b)
         /\ buf' = [buf EXCEPT ![f] = b]
         /\ content' = [content EXCEPT ![b] = 0]
    /\ phase' = [phase EXCEPT ![f] = "running"]
    /\ UNCHANGED <<inputs, reader, num, zbuf, zpool, zcontent, head, eof, toProcess,
                   cancelled, main>>

\* Decompression works: the compressed buffer goes back to its pool.
DecompressOk(f) ==
    /\ phase[f] = "running" /\ file[f] = "ok"
    /\ content' = [content EXCEPT ![buf[f]] = zcontent[zbuf[f]]]
    /\ zpool' = zpool \cup {zbuf[f]}
    /\ zbuf' = [zbuf EXCEPT ![f] = NoBuf]
    /\ phase' = [phase EXCEPT ![f] = "decoded"]
    /\ UNCHANGED <<inputs, reader, num, buf, pool, zcontent, head, eof, toProcess,
                   cancelled, main>>

\* Decompression fails: cancel, and return a block of size 0 that still has
\* the blocknumber 0 of a default-constructed OrderedBlock.
DecompressFail(f) ==
    /\ phase[f] = "running" /\ file[f] = "bad"
    /\ cancelled' = TRUE
    /\ num' = [num EXCEPT ![f] = 0]
    /\ zbuf' = [zbuf EXCEPT ![f] = NoBuf]
    /\ phase' = [phase EXCEPT ![f] = "failed"]
    /\ UNCHANGED <<inputs, reader, buf, buffers, head, eof, toProcess, main>>

\* The sequencer refuses a number it has handed out and one it already holds.
Accepts(n) ==
    /\ n >= head
    /\ ~\E g \in Frames : phase[g] = "slotted" /\ num[g] = n

Slot(f) ==
    /\ phase[f] \in {"decoded", "failed"}
    /\ Accepts(num[f])
    /\ phase' = [phase EXCEPT ![f] = "slotted"]
    /\ UNCHANGED <<inputs, reader, num, zbuf, buf, buffers, head, eof, toProcess,
                   cancelled, main>>

Refuse(f) ==
    /\ phase[f] \in {"decoded", "failed"}
    /\ ~Accepts(num[f])
    /\ phase' = [phase EXCEPT ![f] = "dropped"]
    /\ buf' = [buf EXCEPT ![f] = NoBuf]
    /\ UNCHANGED <<inputs, reader, num, zbuf, buffers, head, eof, toProcess,
                   cancelled, main>>

\* A task that has not begun is dropped by the cancellation.
DropTask(f) ==
    /\ phase[f] = "queued" /\ cancelled
    /\ phase' = [phase EXCEPT ![f] = "dropped"]
    /\ zbuf' = [zbuf EXCEPT ![f] = NoBuf]
    /\ UNCHANGED <<inputs, reader, num, buf, buffers, head, eof, toProcess, cancelled,
                   main>>

TaskStep(f) ==
    \/ StartDecompress(f) \/ DecompressOk(f) \/ DecompressFail(f)
    \/ Slot(f) \/ Refuse(f) \/ DropTask(f)

--------------------------------------------------------------------------------
(* The main thread: the deserializer, get_new_block, finish, cleanup *)

\* Everything but main's own state.
graph == <<inputs, reader, frames, buffers, head, eof, toProcess, cancelled>>

\* The block in hand can be used: only the first, before any get_new_block,
\* and the one of a failed decompression are empty.
Usable == processed = 0 \/ size > 0

\* The deserializer runs out of data: get_new_block.
NeedBlock ==
    /\ pc = "use" /\ Usable /\ processed < want
    /\ pc' = "try"
    /\ UNCHANGED <<graph, current, size, processed, why, result>>

\* sequencer_node.try_get(block) succeeds.
TryGet(f) ==
    /\ pc = "try"
    /\ phase[f] = "slotted" /\ num[f] = head
    /\ phase' = [phase EXCEPT ![f] = "taken"]
    /\ head' = head + 1
    /\ pc' = "swap"
    /\ UNCHANGED <<inputs, reader, num, zbuf, buf, buffers, eof, toProcess, cancelled,
                   current, size, processed, why, result>>

\* Mutant of SwapBlock: assigns current_block before it gives the old one back.
SwapBlockAssignsFirst(f) ==
    /\ pc = "swap" /\ phase[f] = "taken"
    /\ pool' = pool \cup {buf[f]}
    /\ current' = buf[f]
    /\ buf' = [buf EXCEPT ![f] = NoBuf]
    /\ size' = IF file[f] = "ok" THEN 1 ELSE 0
    /\ processed' = processed + 1
    /\ phase' = [phase EXCEPT ![f] = "gone"]
    /\ pc' = "use"
    /\ UNCHANGED <<inputs, reader, num, zbuf, zpool, zcontent, content, head, eof,
                   toProcess, cancelled, why, result>>

\* The old block goes back to the pool and the new one takes its place.
SwapBlock(f) ==
    /\ pc = "swap" /\ phase[f] = "taken"
    /\ pool' = pool \cup {current}
    /\ current' = buf[f]
    /\ buf' = [buf EXCEPT ![f] = NoBuf]
    /\ size' = IF file[f] = "ok" THEN 1 ELSE 0
    /\ processed' = processed + 1
    /\ phase' = [phase EXCEPT ![f] = "gone"]
    /\ pc' = "use"
    /\ UNCHANGED <<inputs, reader, num, zbuf, zpool, zcontent, content, head, eof,
                   toProcess, cancelled, why, result>>

TryGetFails ==
    /\ pc = "try"
    /\ ~\E f \in Frames : phase[f] = "slotted" /\ num[f] = head
    /\ pc' = "eof"
    /\ UNCHANGED <<graph, current, size, processed, why, result>>

\* Mutant of CheckEof: the count alone decides.
CheckEofIgnored ==
    /\ pc = "eof"
    /\ pc' = "count"
    /\ UNCHANGED <<graph, current, size, processed, why, result>>

\* if(end_of_file && ...: the flag is read before the count.
CheckEof ==
    /\ pc = "eof"
    /\ pc' = IF eof THEN "count" ELSE "cancelled"
    /\ UNCHANGED <<graph, current, size, processed, why, result>>

\* Mutant of CheckCount: the last block is not waited for.
CheckCountEarly ==
    /\ pc = "count"
    /\ IF processed + 1 >= toProcess
         THEN pc' = "cleanup" /\ why' = "eof"
         ELSE pc' = "cancelled" /\ why' = why
    /\ UNCHANGED <<graph, current, size, processed, result>>

\* ... blocks_processed >= blocks_to_process)
CheckCount ==
    /\ pc = "count"
    /\ IF processed >= toProcess
         THEN pc' = "cleanup" /\ why' = "eof"
         ELSE pc' = "cancelled" /\ why' = why
    /\ UNCHANGED <<graph, current, size, processed, result>>

\* Mutant of CheckCancelled: get_new_block polls on after a cancellation.
CheckCancelledIgnored ==
    /\ pc = "cancelled"
    /\ pc' = "try"
    /\ UNCHANGED <<graph, current, size, processed, why, result>>

\* if(tgc.is_group_execution_cancelled())
CheckCancelled ==
    /\ pc = "cancelled"
    /\ IF cancelled
         THEN pc' = "cleanup" /\ why' = "error"
         ELSE pc' = "try" /\ why' = why
    /\ UNCHANGED <<graph, current, size, processed, result>>

\* An empty block where data is due, or an object the deserializer rejects.
RejectBlock ==
    /\ pc = "use"
    /\ ~Usable \/ (processed = want /\ ending = "malformed")
    /\ pc' = "cleanup" /\ why' = "corrupt"
    /\ UNCHANGED <<graph, current, size, processed, result>>

\* cleanup(): cancel ...
Cleanup ==
    /\ pc = "cleanup"
    /\ cancelled' = TRUE
    /\ pc' = "wait"
    /\ UNCHANGED <<inputs, reader, frames, buffers, head, eof, toProcess, current, size,
                   processed, why, result>>

\* ... and wait_for_all(); then cleanup_and_throw throws and the reader is destroyed.
CleanupThrow ==
    /\ pc = "wait" /\ Idle
    /\ pc' = "done" /\ result' = why
    /\ UNCHANGED <<graph, current, size, processed, why>>

\* The object is complete: finish() waits for the reader to run to its end,
\* then tests the flag, which wait_for_all() may have reset.
Finish ==
    /\ pc = "use" /\ Usable /\ processed = want /\ ending = "finish"
    /\ Idle
    /\ pc' = "done"
    /\ result' \in (IF cancelled THEN {"ok", "error"} ELSE {"ok"})
    /\ UNCHANGED <<graph, current, size, processed, why>>

\* A checked_r_compatible_* helper throws: the stack unwinds with no cleanup().
\* The nodes are members declared after myGraph, so they are destroyed before
\* the destructor of the graph waits for the tasks that use them.
LimitThrow ==
    /\ pc = "use" /\ Usable /\ processed = want /\ ending = "limit"
    /\ pc' = "done"
    /\ result' = IF Idle THEN "limit" ELSE "undefined"
    /\ UNCHANGED <<graph, current, size, processed, why>>

MainStep ==
    \/ NeedBlock
    \/ \E f \in Frames : TryGet(f) \/ SwapBlock(f)
    \/ TryGetFails \/ CheckEof \/ CheckCount \/ CheckCancelled
    \/ RejectBlock \/ Cleanup \/ CleanupThrow \/ Finish \/ LimitThrow

--------------------------------------------------------------------------------
\* After "undefined" the program has no defined behaviour left to model.
GraphStep ==
    /\ result # "undefined"
    /\ ReaderStep \/ \E f \in Frames : TaskStep(f)

\* The read has ended; nothing is left to run.
Terminated == pc = "done" /\ UNCHANGED vars

Next == GraphStep \/ MainStep \/ Terminated

\* At least one TBB worker keeps running tasks, and so does the main thread.
Fairness ==
    /\ WF_vars(result # "undefined" /\ ReaderStep)
    /\ \A f \in Frames : WF_vars(result # "undefined" /\ TaskStep(f))
    /\ WF_vars(MainStep)

Spec == Init /\ [][Next]_vars
FairSpec == Spec /\ Fairness

--------------------------------------------------------------------------------
(* Properties *)

\* Type invariant: counters stay within the stream and every frame is in a known phase.
TypeOK ==
    /\ file \in Streams /\ want \in 1..(MaxFrames + 1) /\ ending \in Endings
    /\ rd \in {"ready", "reading", "stopped"} /\ pos \in 0..Len(file)
    /\ phase \in [Frames -> Phases] /\ num \in [Frames -> 0..MaxFrames]
    /\ zbuf \in [Frames -> ZBlocks \cup {NoBuf}] /\ buf \in [Frames -> Blocks \cup {NoBuf}]
    /\ zpool \subseteq ZBlocks /\ pool \subseteq Blocks
    /\ zcontent \in [ZBlocks -> 0..MaxFrames] /\ content \in [Blocks -> 0..MaxFrames]
    /\ head \in 0..MaxFrames /\ toProcess \in 0..Len(file)
    /\ eof \in BOOLEAN /\ cancelled \in BOOLEAN
    /\ pc \in {"use", "try", "swap", "eof", "count", "cancelled", "cleanup", "wait", "done"}
    /\ current \in Blocks /\ size \in {0, 1} /\ processed \in 0..MaxFrames
    /\ why \in {"none", "eof", "error", "corrupt"}
    /\ result \in {"none", "ok", "eof", "error", "corrupt", "limit", "undefined"}

\* The shared pools hand a buffer to one holder at a time: no buffer is in a
\* pool and in use, in use for two frames, or main's current_block and anything else.
BuffersExclusive ==
    /\ current \notin pool
    /\ \A f \in Frames :
         /\ zbuf[f] \notin zpool
         /\ buf[f] \notin pool \cup {current}
    /\ \A f, g \in Frames : f # g =>
         /\ zbuf[f] = zbuf[g] => zbuf[f] = NoBuf
         /\ buf[f] = buf[g] => buf[f] = NoBuf

\* The data main copies from current_block is that of the frame whose turn it
\* is, and no decompressor writes over it while main holds the block.
CurrentBlockIntact == size > 0 => content[current] = processed

\* get_new_block never polls for a block that cannot come: once no task of the
\* graph is left to change what it reads, the awaited block is in the sequencer,
\* or the flag and the count tell the end of the stream, or the group is
\* cancelled.  So every way for the reader to stop leaves a sign, and every
\* number that was counted reaches the sequencer, for whatever order the tasks
\* end in and wherever among its three tests main is.
Polling == pc \in {"try", "eof", "count", "cancelled"}
WayOut ==
    \/ \E f \in Frames : phase[f] = "slotted" /\ num[f] = head
    \/ eof /\ processed >= toProcess
    \/ cancelled
PollingEnds == Polling /\ Idle => WayOut

\* The limits "apply on both read and write": an object over a limit is
\* reported by a runtime_error, whatever the flow graph is doing.
LimitReported == ending = "limit" => result # "undefined"

\* The calling thread always gets its answer: get_new_block polls in vain only
\* while the reader or a decompressor can still change what it polls.
Termination == <>(result # "none")

\* A stream without damage that holds the blocks the object needs is read:
\* neither the polling order nor the read-ahead raises a false alarm.
WholeStreamSucceeds ==
    (want <= Len(file) /\ (\A i \in DOMAIN file : file[i] = "ok") /\ ending = "finish")
        => <>(result = "ok")

\* The reader implements the block source: blocks in stream order, none
\* skipped, and an outcome the stream justifies.
Source == INSTANCE BlockSource
    WITH delivered <- IF size = 0 /\ processed > 0 THEN processed - 1 ELSE processed,
         outcome <- result
Implements == Source!Spec
================================================================================
