----------------------------- MODULE BlockWriterMT -----------------------------
(***************************************************************************)
(* BlockCompressWriterMT: the calling thread fills blocks and submits them *)
(* to a TBB flow graph, any number of workers compress them                *)
(* (compressor_node, compressor_direct_node), sequencer_node puts them     *)
(* back in order and the serial writer_node writes them to the stream.     *)
(*                                                                         *)
(* Block k of the object carries the blocknumber k - 1.  A block reaches   *)
(* the graph in one of three ways:                                         *)
(*   "buffered"  current_block, filled and handed over by flush()          *)
(*   "direct"    a pointer into the object itself (direct_mem)             *)
(*   "copied"    a fresh copy, where direct_mem is off                     *)
(*                                                                         *)
(* TBB is external and modelled as in BlockReaderMT.  An exception thrown  *)
(* by a task cancels the group, and wait_for_all() rethrows it.            *)
(***************************************************************************)
EXTENDS Naturals, Sequences, FiniteSets

CONSTANTS
    MaxBlocks,        \* bound on the blocks of an object
    Endings,          \* {"finish"}, or with "limit": the serializer may throw
    CompressMayFail,  \* whether compress() may return COMPRESSION_ERROR
    Blocks,           \* buffers of MAX_BLOCKSIZE bytes
    ZBlocks,          \* buffers of MAX_ZBLOCKSIZE bytes
    NoBuf             \* an empty shared_ptr

ASSUME MaxBlocksAssumption == MaxBlocks \in Nat
ASSUME BuffersAssumption == NoBuf \notin Blocks \cup ZBlocks
ASSUME FlagAssumption == CompressMayFail \in BOOLEAN

VARIABLES
    plan, ending,               \* how the blocks are submitted and how that ends
    phase, num, buf, zbuf,      \* per block: where it is, its blocknumber, its buffers
    zok,                        \* per block: whether compress() succeeded
    pool, zpool,                \* available_blocks, available_zblocks
    content, zcontent,          \* the block a buffer holds, 0 for none
    head,                       \* the number the sequencer hands out next
    writing, torn,              \* writer_node: its block, 0 for none; a size word stands alone
    file,                       \* the frames in the stream, each the block it holds
    cancelled, thrown,          \* tgc; whether a task has thrown
    pc, current, number, result \* main: its place, current_block, current_blocknumber

object == <<plan, ending>>
blocks == <<phase, num, buf, zbuf, zok>>
buffers == <<pool, zpool, content, zcontent>>
stream == <<writing, torn, file>>
main == <<pc, current, number, result>>
vars == <<object, blocks, buffers, head, stream, cancelled, thrown, main>>

Numbers == 1..MaxBlocks
Ways == {"buffered", "direct", "copied"}
Plans == UNION {[1..n -> Ways] : n \in 0..MaxBlocks}

\* A block travels none - queued - running - compressed - slotted - writing -
\* gone, and is dropped by cancellation.
Phases == {"none", "queued", "running", "compressed", "slotted", "writing", "gone", "dropped"}

\* current_block is shared with the submitted block until flush() replaces it.
HeldBlocks == pool \cup {current} \cup {buf[k] : k \in Numbers}
HeldZBlocks == zpool \cup {zbuf[k] : k \in Numbers}

PopBlock(b) ==
    \/ b \in pool /\ pool' = pool \ {b}
    \/ pool = {} /\ b \notin HeldBlocks /\ pool' = pool

PopZBlock(z) ==
    \/ z \in zpool /\ zpool' = zpool \ {z}
    \/ zpool = {} /\ z \notin HeldZBlocks /\ zpool' = zpool

\* Mutant of AtHead: blocks are written in the order they are compressed.
AtHeadUnordered(k) == phase[k] = "slotted"

\* The block sequencer_node hands to writer_node next.
AtHead(k) == phase[k] = "slotted" /\ num[k] = head

\* No task of the flow graph is running or waiting to run.
Idle ==
    /\ writing = 0
    /\ \A k \in Numbers :
         /\ phase[k] \notin {"queued", "running", "compressed"}
         /\ AtHead(k) => cancelled

Init ==
    /\ plan \in Plans /\ ending \in Endings
    /\ phase = [k \in Numbers |-> "none"]
    /\ num = [k \in Numbers |-> 0]
    /\ buf = [k \in Numbers |-> NoBuf]
    /\ zbuf = [k \in Numbers |-> NoBuf]
    /\ zok = [k \in Numbers |-> TRUE]
    /\ pool = {} /\ zpool = {}
    /\ content = [b \in Blocks |-> 0]
    /\ zcontent = [z \in ZBlocks |-> 0]
    /\ head = 0 /\ writing = 0 /\ torn = FALSE /\ file = << >>
    /\ cancelled = FALSE /\ thrown = FALSE
    /\ pc = "next" /\ current \in Blocks /\ number = 0 /\ result = "none"

--------------------------------------------------------------------------------
(* The main thread: the serializer, push_data, push_pod, flush, finish *)

\* push_data and push_pod copy the next block's bytes into current_block.
Fill ==
    /\ pc = "next"
    /\ number < Len(plan) /\ plan[number + 1] = "buffered"
    /\ content' = [content EXCEPT ![current] = number + 1]
    /\ pc' = "flush"
    /\ UNCHANGED <<object, blocks, pool, zpool, zcontent, head, stream, cancelled, thrown,
                   current, number, result>>

\* flush(): submit_block(current_block, current_blocksize, current_blocknumber) ...
Flush ==
    /\ pc = "flush"
    /\ phase' = [phase EXCEPT ![number + 1] = "queued"]
    /\ num' = [num EXCEPT ![number + 1] = number]
    /\ buf' = [buf EXCEPT ![number + 1] = current]
    /\ number' = number + 1
    /\ pc' = "replace"
    /\ UNCHANGED <<object, zbuf, zok, buffers, head, stream, cancelled, thrown, current, result>>

\* Mutant of Replace: flush() keeps current_block.
ReplaceNothing ==
    /\ pc = "replace"
    /\ pc' = "next"
    /\ UNCHANGED <<object, blocks, buffers, head, stream, cancelled, thrown, current, number,
                   result>>

\* Mutant of Replace: waits for a block to come back where the pool is empty.
ReplaceWaits ==
    /\ pc = "replace"
    /\ \/ /\ \E b \in pool : pool' = pool \ {b} /\ current' = b
          /\ pc' = "next"
          /\ UNCHANGED <<object, blocks, zpool, content, zcontent, head, stream, cancelled,
                         thrown, number, result>>
       \/ pool = {} /\ UNCHANGED vars

\* ... and a block from the pool, or a new one, becomes current_block.
Replace ==
    /\ pc = "replace"
    /\ \E b \in Blocks : PopBlock(b) /\ current' = b
    /\ pc' = "next"
    /\ UNCHANGED <<object, blocks, zpool, content, zcontent, head, stream, cancelled, thrown,
                   number, result>>

\* push_data submits a full block in place; current_block is empty then.
SubmitDirect ==
    /\ pc = "next"
    /\ number < Len(plan) /\ plan[number + 1] = "direct"
    /\ phase' = [phase EXCEPT ![number + 1] = "queued"]
    /\ num' = [num EXCEPT ![number + 1] = number]
    /\ number' = number + 1
    /\ UNCHANGED <<object, buf, zbuf, zok, buffers, head, stream, cancelled, thrown,
                   pc, current, result>>

\* The same without direct_mem: the block is copied to a buffer of its own.
SubmitCopied ==
    /\ pc = "next"
    /\ number < Len(plan) /\ plan[number + 1] = "copied"
    /\ \E b \in Blocks :
         /\ PopBlock(b)
         /\ buf' = [buf EXCEPT ![number + 1] = b]
         /\ content' = [content EXCEPT ![b] = number + 1]
    /\ phase' = [phase EXCEPT ![number + 1] = "queued"]
    /\ num' = [num EXCEPT ![number + 1] = number]
    /\ number' = number + 1
    /\ UNCHANGED <<object, zbuf, zok, zpool, zcontent, head, stream, cancelled, thrown,
                   pc, current, result>>

\* Mutant of Finish: returns the digest without wait_for_all().
FinishNoWait ==
    /\ pc = "next" /\ number = Len(plan) /\ ending = "finish"
    /\ pc' = "done"
    /\ result' = IF thrown THEN "io_error" ELSE "ok"
    /\ UNCHANGED <<object, blocks, buffers, head, stream, cancelled, thrown, current, number>>

\* finish(): all blocks are submitted; wait_for_all() rethrows a task's exception.
Finish ==
    /\ pc = "next" /\ number = Len(plan) /\ ending = "finish"
    /\ Idle
    /\ pc' = "done"
    /\ result' = IF thrown THEN "io_error" ELSE "ok"
    /\ UNCHANGED <<object, blocks, buffers, head, stream, cancelled, thrown, current, number>>

\* The serializer throws (nesting depth, a length limit, an exception of the
\* object's own code) and write_multi_thread unwinds with no cleanup(): the
\* nodes, declared after myGraph, are destroyed while tasks may still run, and
\* the destructor of the graph waits, rethrowing what a task has thrown.
LimitThrow ==
    /\ pc = "next" /\ ending = "limit"
    /\ pc' = "done"
    /\ result' = IF Idle /\ ~thrown THEN "limit" ELSE "undefined"
    /\ UNCHANGED <<object, blocks, buffers, head, stream, cancelled, thrown, current, number>>

MainStep ==
    Fill \/ Flush \/ Replace \/ SubmitDirect \/ SubmitCopied \/ Finish \/ LimitThrow

--------------------------------------------------------------------------------
(* compressor_node and compressor_direct_node, one task per block *)

\* Mutant of StartCompress: gives the block back before it is compressed.
StartCompressReleases(k) ==
    /\ phase[k] = "queued" /\ ~cancelled
    /\ \E z \in ZBlocks :
         /\ PopZBlock(z)
         /\ zbuf' = [zbuf EXCEPT ![k] = z]
         /\ zcontent' = [zcontent EXCEPT ![z] = 0]
    /\ pool' = IF buf[k] = NoBuf THEN pool ELSE pool \cup {buf[k]}
    /\ phase' = [phase EXCEPT ![k] = "running"]
    /\ UNCHANGED <<object, num, buf, zok, content, head, stream, cancelled, thrown, main>>

StartCompress(k) ==
    /\ phase[k] = "queued" /\ ~cancelled
    /\ \E z \in ZBlocks :
         /\ PopZBlock(z)
         /\ zbuf' = [zbuf EXCEPT ![k] = z]
         /\ zcontent' = [zcontent EXCEPT ![z] = 0]
    /\ phase' = [phase EXCEPT ![k] = "running"]
    /\ UNCHANGED <<object, num, buf, zok, pool, content, head, stream, cancelled, thrown, main>>

\* Mutant of ReleaseBlock: also gives back the empty pointer of a direct block.
ReleaseAny(k) ==
    /\ pool' = pool \cup {buf[k]}
    /\ buf' = [buf EXCEPT ![k] = NoBuf]

\* The task of a block that came in a buffer gives that buffer to the pool.
ReleaseBlock(k) ==
    /\ pool' = IF buf[k] = NoBuf THEN pool ELSE pool \cup {buf[k]}
    /\ buf' = [buf EXCEPT ![k] = NoBuf]

Compress(k) ==
    /\ phase[k] = "running"
    /\ zcontent' = [zcontent EXCEPT ![zbuf[k]] = IF buf[k] = NoBuf THEN k ELSE content[buf[k]]]
    /\ ReleaseBlock(k)
    /\ phase' = [phase EXCEPT ![k] = "compressed"]
    /\ UNCHANGED <<object, num, zbuf, zok, zpool, content, head, stream, cancelled, thrown, main>>

\* Mutant of CompressFails: a block that cannot be compressed is not passed on.
CompressFailsDrops(k) ==
    /\ CompressMayFail
    /\ phase[k] = "running"
    /\ ReleaseBlock(k)
    /\ zbuf' = [zbuf EXCEPT ![k] = NoBuf]
    /\ phase' = [phase EXCEPT ![k] = "dropped"]
    /\ UNCHANGED <<object, num, zok, zpool, content, zcontent, head, stream, cancelled, thrown,
                   main>>

\* compress() returns COMPRESSION_ERROR, which is 0: the task goes on with a
\* compressed block of size 0.
CompressFails(k) ==
    /\ CompressMayFail
    /\ phase[k] = "running"
    /\ zok' = [zok EXCEPT ![k] = FALSE]
    /\ ReleaseBlock(k)
    /\ phase' = [phase EXCEPT ![k] = "compressed"]
    /\ UNCHANGED <<object, num, zbuf, zpool, content, zcontent, head, stream, cancelled, thrown,
                   main>>

\* The push into sequencer_node; all numbers differ, so none is refused.
Slot(k) ==
    /\ phase[k] = "compressed"
    /\ phase' = [phase EXCEPT ![k] = "slotted"]
    /\ UNCHANGED <<object, num, buf, zbuf, zok, buffers, head, stream, cancelled, thrown, main>>

\* A task that has not begun is dropped by the cancellation.
DropTask(k) ==
    /\ phase[k] = "queued" /\ cancelled
    /\ phase' = [phase EXCEPT ![k] = "dropped"]
    /\ buf' = [buf EXCEPT ![k] = NoBuf]
    /\ UNCHANGED <<object, num, zbuf, zok, buffers, head, stream, cancelled, thrown, main>>

CompressStep(k) ==
    StartCompress(k) \/ Compress(k) \/ CompressFails(k) \/ Slot(k) \/ DropTask(k)

--------------------------------------------------------------------------------
(* writer_node, serial: write_and_update(size), write_and_update(data, size) *)

TakeBlock(k) ==
    /\ writing = 0 /\ ~cancelled
    /\ AtHead(k)
    /\ phase' = [phase EXCEPT ![k] = "writing"]
    /\ head' = head + 1
    /\ writing' = k
    /\ UNCHANGED <<object, num, buf, zbuf, zok, buffers, torn, file, cancelled, thrown, main>>

WriteSize ==
    /\ writing # 0 /\ ~torn
    /\ torn' = TRUE
    /\ UNCHANGED <<object, blocks, buffers, head, writing, file, cancelled, thrown, main>>

\* The frame is complete.  A block that failed to compress leaves a frame of
\* size 0, which holds nothing.
WriteData ==
    /\ writing # 0 /\ torn
    /\ file' = Append(file, IF zok[writing] THEN zcontent[zbuf[writing]] ELSE 0)
    /\ torn' = FALSE
    /\ zpool' = zpool \cup {zbuf[writing]}
    /\ zbuf' = [zbuf EXCEPT ![writing] = NoBuf]
    /\ phase' = [phase EXCEPT ![writing] = "gone"]
    /\ writing' = 0
    /\ UNCHANGED <<object, num, buf, zok, pool, content, zcontent, head, cancelled, thrown, main>>

\* The stream throws from either write (OfStreamWriter sets failbit | badbit).
WriteThrows ==
    /\ writing # 0
    /\ thrown' = TRUE /\ cancelled' = TRUE
    /\ zbuf' = [zbuf EXCEPT ![writing] = NoBuf]
    /\ phase' = [phase EXCEPT ![writing] = "dropped"]
    /\ writing' = 0
    /\ UNCHANGED <<object, num, buf, zok, buffers, head, torn, file, main>>

WriterStep ==
    (\E k \in Numbers : TakeBlock(k)) \/ WriteSize \/ WriteData \/ WriteThrows

--------------------------------------------------------------------------------
\* After "undefined" the program has no defined behaviour left to model.
GraphStep ==
    /\ result # "undefined"
    /\ WriterStep \/ \E k \in Numbers : CompressStep(k)

\* The write has ended; nothing is left to run.
Terminated == pc = "done" /\ UNCHANGED vars

Next == MainStep \/ GraphStep \/ Terminated

\* At least one TBB worker keeps running tasks, and so does the main thread.
Fairness ==
    /\ WF_vars(MainStep)
    /\ WF_vars(result # "undefined" /\ WriterStep)
    /\ \A k \in Numbers : WF_vars(result # "undefined" /\ CompressStep(k))

Spec == Init /\ [][Next]_vars
FairSpec == Spec /\ Fairness

--------------------------------------------------------------------------------
(* Properties *)

\* Type invariant.
TypeOK ==
    /\ plan \in Plans /\ ending \in Endings
    /\ phase \in [Numbers -> Phases] /\ num \in [Numbers -> 0..MaxBlocks]
    /\ buf \in [Numbers -> Blocks \cup {NoBuf}] /\ zbuf \in [Numbers -> ZBlocks \cup {NoBuf}]
    /\ zok \in [Numbers -> BOOLEAN]
    /\ pool \subseteq Blocks /\ zpool \subseteq ZBlocks
    /\ content \in [Blocks -> 0..MaxBlocks] /\ zcontent \in [ZBlocks -> 0..MaxBlocks]
    /\ head \in 0..Len(plan) /\ writing \in 0..MaxBlocks /\ torn \in BOOLEAN
    /\ file \in Seq(0..MaxBlocks) /\ Len(file) <= Len(plan)
    /\ cancelled \in BOOLEAN /\ thrown \in BOOLEAN
    /\ pc \in {"next", "flush", "replace", "done"} /\ current \in Blocks
    /\ number \in 0..Len(plan)
    /\ result \in {"none", "ok", "io_error", "limit", "undefined"}

\* No buffer has two users: a buffer in a pool is in no task's hands, no two
\* tasks share one, and current_block, while main writes into it, is main's
\* alone (flush() replaces it before main writes again).
BuffersExclusive ==
    /\ pc \in {"next", "flush"} => current \notin pool /\ \A k \in Numbers : buf[k] # current
    /\ \A k \in Numbers : buf[k] \notin pool /\ zbuf[k] \notin zpool
    /\ \A j, k \in Numbers : j # k =>
         /\ buf[j] = buf[k] => buf[j] = NoBuf
         /\ zbuf[j] = zbuf[k] => zbuf[j] = NoBuf

\* The frames in the stream are at all times the first blocks of the object,
\* in order and unaltered, whatever the order in which they were compressed;
\* so an interrupted write leaves a prefix.
FilePrefix == \A i \in 1..Len(file) : zok[i] => file[i] = i

\* finish() returns only when all blocks are in the stream and no frame is torn;
\* a block that compress() failed on is there as a frame of size 0.
NothingLost == result = "ok" => Len(file) = Len(plan) /\ ~torn

\* A block never waits in the sequencer for a number that will not come: unless
\* the group is cancelled, every number from the head to its own is that of a
\* block on its way there, from whichever of the two compressor nodes and
\* whether or not compress() works.  Otherwise the graph would fall idle with
\* the block inside, which wait_for_all() does not tell from having written it.
OnItsWay == {"queued", "running", "compressed", "slotted"}
NoneAwaitedInVain ==
    ~cancelled =>
        \A k \in Numbers : phase[k] = "slotted" =>
            /\ head <= num[k]
            /\ \A n \in head..num[k] : \E j \in Numbers : num[j] = n /\ phase[j] \in OnItsWay

\* The write always ends.
Termination == <>(result # "none")

\* The writer implements the block sink.
Sink == INSTANCE BlockSink
    WITH total <- Len(plan), submitted <- number, stored <- file, outcome <- result
Implements == Sink!Spec
================================================================================
