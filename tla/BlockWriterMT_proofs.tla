-------------------------- MODULE BlockWriterMT_proofs --------------------------
(***************************************************************************)
(* Theorems about BlockWriterMT for any number of blocks and of buffers,   *)
(* checked by TLAPS: the type invariant, the exclusive use of the pooled   *)
(* buffers, that the stream always holds a prefix of the object's blocks   *)
(* and all of them on success, that the sequencer holds no block back for  *)
(* one that is not coming, and that the writer implements BlockSink.       *)
(***************************************************************************)
EXTENDS BlockWriterMT, TLAPS, SequenceTheorems

(* The inductive invariant, in parts. *)

\* Blocks are submitted in order; what is submitted carries its number.
SubmitInv ==
    /\ pc = "flush" => number < Len(plan) /\ content[current] = number + 1
    /\ \A k \in Numbers :
         /\ k > number => phase[k] = "none" /\ buf[k] = NoBuf
         /\ k <= number => phase[k] # "none" /\ num[k] = k - 1

\* A block holds a buffer exactly while it needs it, and a direct block none.
HoldInv ==
    \A k \in Numbers :
       /\ zbuf[k] # NoBuf <=> phase[k] \in {"running", "compressed", "slotted", "writing"}
       /\ buf[k] # NoBuf => phase[k] \in {"queued", "running"} /\ k <= Len(plan)

\* flush() has submitted current_block and nobody else has it.
FlushInv == pc = "replace" => \A k \in Numbers : buf[k] = current => k = number

\* What is in the buffers a block holds is that block.
ContentInv ==
    \A k \in Numbers :
       /\ buf[k] # NoBuf => content[buf[k]] = k
       /\ phase[k] \in {"compressed", "slotted", "writing"} /\ zok[k] => zcontent[zbuf[k]] = k

\* writer_node writes the blocks in order, one at a time, until it throws.
WriterInv ==
    /\ head = Len(file) + (IF writing # 0 \/ thrown THEN 1 ELSE 0)
    /\ thrown => writing = 0
    /\ cancelled <=> thrown
    /\ torn => writing # 0 \/ thrown
    /\ writing # 0 => writing = head /\ writing <= number /\ phase[writing] = "writing"
    /\ head <= number
    /\ \A k \in Numbers :
         /\ phase[k] = "writing" => k = writing
         /\ phase[k] = "gone" <=> k <= Len(file)
         /\ phase[k] = "dropped" => cancelled

ResultInv ==
    /\ pc = "done" <=> result # "none"
    /\ result = "ok" => number = Len(plan) /\ Len(file) = Len(plan) /\ ~torn
    /\ result = "io_error" => thrown
    /\ result \in {"limit", "undefined"} => ending = "limit"
    /\ pc = "done" => result = "undefined" \/ Idle

IInv ==
    /\ TypeOK /\ SubmitInv /\ HoldInv /\ BuffersExclusive /\ FlushInv /\ ContentInv
    /\ WriterInv /\ FilePrefix /\ ResultInv

--------------------------------------------------------------------------------
\* A plan has at most MaxBlocks blocks.
LEMMA PlanFacts ==
    ASSUME NEW s \in Plans
    PROVE  Len(s) \in Nat /\ Len(s) <= MaxBlocks
<1>1. PICK n \in 0..MaxBlocks : s \in [1..n -> Ways]
  BY MaxBlocksAssumption DEF Plans
<1>2. s \in Seq(Ways)
  BY <1>1, MaxBlocksAssumption, SeqDef
<1> QED
  BY <1>1, <1>2, LenProperties, MaxBlocksAssumption

--------------------------------------------------------------------------------
(* The parts of the invariant hold at the start and every step keeps them. *)

LEMMA InitIInv == Init => IInv
<1> SUFFICES ASSUME Init PROVE IInv
  OBVIOUS
<1> USE MaxBlocksAssumption, BuffersAssumption DEF Init
<1>1. Len(plan) \in Nat
  BY PlanFacts
<1>2. TypeOK
  <2>1. /\ phase \in [Numbers -> Phases] /\ num \in [Numbers -> 0..MaxBlocks]
        /\ buf \in [Numbers -> Blocks \cup {NoBuf}] /\ zbuf \in [Numbers -> ZBlocks \cup {NoBuf}]
        /\ zok \in [Numbers -> BOOLEAN]
        /\ content \in [Blocks -> 0..MaxBlocks] /\ zcontent \in [ZBlocks -> 0..MaxBlocks]
    BY DEF Phases
  <2>2. /\ head \in 0..Len(plan) /\ writing \in 0..MaxBlocks /\ number \in 0..Len(plan)
        /\ file \in Seq(0..MaxBlocks) /\ Len(file) <= Len(plan)
    BY <1>1
  <2> QED
    BY <2>1, <2>2 DEF TypeOK
<1>3. SubmitInv /\ HoldInv /\ BuffersExclusive /\ FlushInv /\ ContentInv
  BY DEF SubmitInv, HoldInv, BuffersExclusive, FlushInv, ContentInv, Numbers
<1>4. WriterInv /\ FilePrefix /\ ResultInv
  BY DEF WriterInv, FilePrefix, ResultInv, Numbers
<1> QED
  BY <1>2, <1>3, <1>4 DEF IInv

\* Every step is one of these.
LEMMA NextCases ==
    Next => \/ MainStep \/ WriterStep \/ (\E k \in Numbers : CompressStep(k)) \/ UNCHANGED vars
  BY DEF Next, GraphStep, Terminated

LEMMA TypeStep == IInv /\ Next => TypeOK'
<1> SUFFICES ASSUME IInv, Next PROVE TypeOK'
  OBVIOUS
<1> USE MaxBlocksAssumption, BuffersAssumption DEF IInv, TypeOK, Phases
<1>len. Len(plan) \in Nat /\ Len(plan) <= MaxBlocks
  BY PlanFacts
<1>1. CASE Fill
  BY <1>1, <1>len DEF Fill, object, blocks, stream
<1>2. CASE Flush
  <2>1. number + 1 \in 0..Len(plan) /\ number \in 0..MaxBlocks
    BY <1>2, <1>len DEF Flush, SubmitInv
  <2> QED
    BY <1>2, <2>1 DEF Flush, object, buffers, stream
<1>3. CASE Replace
  BY <1>3 DEF Replace, PopBlock, object, blocks, stream
<1>4. CASE SubmitDirect
  <2>1. number + 1 \in 0..Len(plan) /\ number \in 0..MaxBlocks
    BY <1>4, <1>len DEF SubmitDirect
  <2> QED
    BY <1>4, <2>1 DEF SubmitDirect, object, buffers, stream
<1>5. CASE SubmitCopied
  <2>1. number + 1 \in 0..Len(plan) /\ number \in 0..MaxBlocks /\ number + 1 \in 0..MaxBlocks
    BY <1>5, <1>len DEF SubmitCopied
  <2>2. pool' \subseteq Blocks
    BY <1>5 DEF SubmitCopied, PopBlock
  <2>b. PICK b \in Blocks : /\ buf' = [buf EXCEPT ![number + 1] = b]
                            /\ content' = [content EXCEPT ![b] = number + 1]
    BY <1>5 DEF SubmitCopied
  <2>3. /\ buf' \in [Numbers -> Blocks \cup {NoBuf}] /\ content' \in [Blocks -> 0..MaxBlocks]
        /\ phase' \in [Numbers -> Phases] /\ num' \in [Numbers -> 0..MaxBlocks]
    BY <1>5, <2>1, <2>b DEF SubmitCopied
  <2>4. UNCHANGED <<object, zbuf, zok, zpool, zcontent, head, stream, cancelled, thrown, pc, current,
                    result>>
        /\ number' = number + 1
    BY <1>5 DEF SubmitCopied
  <2> QED
    BY <2>1, <2>2, <2>3, <2>4 DEF object, stream
<1>6. CASE Finish \/ LimitThrow
  BY <1>6 DEF Finish, LimitThrow, object, blocks, buffers, stream
<1>7. ASSUME NEW k \in Numbers, CompressStep(k) PROVE TypeOK'
  <2>1. CASE StartCompress(k)
    BY <2>1 DEF StartCompress, PopZBlock, object, stream, main
  <2>2. CASE Compress(k)
    <3>1. zbuf[k] \in ZBlocks /\ (buf[k] # NoBuf => buf[k] \in Blocks)
      BY <2>2 DEF Compress, HoldInv
    <3>2. (IF buf[k] = NoBuf THEN k ELSE content[buf[k]]) \in 0..MaxBlocks
      BY <3>1 DEF Numbers
    <3> QED
      BY <2>2, <3>1, <3>2 DEF Compress, ReleaseBlock, object, stream, main
  <2>3. CASE CompressFails(k)
    BY <2>3 DEF CompressFails, ReleaseBlock, object, stream, main
  <2>4. CASE Slot(k)
    BY <2>4 DEF Slot, object, buffers, stream, main
  <2>5. CASE DropTask(k)
    BY <2>5 DEF DropTask, object, buffers, stream, main
  <2> QED
    BY <1>7, <2>1, <2>2, <2>3, <2>4, <2>5 DEF CompressStep
<1>8. ASSUME NEW k \in Numbers, TakeBlock(k) PROVE TypeOK'
  <2>1. head + 1 \in 0..Len(plan)
    BY <1>8, <1>len DEF TakeBlock, AtHead, SubmitInv, Numbers
  <2> QED
    BY <1>8, <2>1 DEF TakeBlock, object, buffers, main, Numbers
<1>9. CASE WriteSize
  BY <1>9 DEF WriteSize, object, blocks, buffers, main
<1>10. CASE WriteData
  <2>1. writing \in Numbers /\ zbuf[writing] \in ZBlocks /\ Len(file) + 1 <= Len(plan)
    BY <1>10, <1>len DEF WriteData, WriterInv, HoldInv, Numbers
  <2>2. file' \in Seq(0..MaxBlocks) /\ Len(file') = Len(file) + 1
    BY <1>10, <2>1 DEF WriteData
  <2>3. /\ phase' \in [Numbers -> Phases] /\ zbuf' \in [Numbers -> ZBlocks \cup {NoBuf}]
        /\ zpool' \subseteq ZBlocks
    BY <1>10, <2>1 DEF WriteData
  <2>4. UNCHANGED <<object, num, buf, zok, pool, content, zcontent, head, cancelled, thrown, main>>
    BY <1>10 DEF WriteData
  <2>5. torn' = FALSE /\ writing' = 0
    BY <1>10 DEF WriteData
  <2> QED
    <3>1. Len(file') <= Len(plan') /\ head' \in 0..Len(plan') /\ number' \in 0..Len(plan')
      BY <1>len, <2>1, <2>2, <2>4 DEF object, main
    <3>2. writing' \in 0..MaxBlocks
      BY <2>5
    <3>4. torn' \in BOOLEAN
      BY <2>5, Zenon
    <3>3. /\ plan' \in Plans /\ ending' \in Endings
          /\ num' \in [Numbers -> 0..MaxBlocks] /\ buf' \in [Numbers -> Blocks \cup {NoBuf}]
          /\ zok' \in [Numbers -> BOOLEAN] /\ pool' \subseteq Blocks
          /\ content' \in [Blocks -> 0..MaxBlocks] /\ zcontent' \in [ZBlocks -> 0..MaxBlocks]
          /\ cancelled' \in BOOLEAN /\ thrown' \in BOOLEAN
          /\ pc' \in {"next", "flush", "replace", "done"} /\ current' \in Blocks
          /\ result' \in {"none", "ok", "io_error", "limit", "undefined"}
      BY <2>4 DEF object, main
    <3> QED
      BY <2>2, <2>3, <3>1, <3>2, <3>3, <3>4
<1>11. CASE WriteThrows
  <2>1. phase' \in [Numbers -> Phases] /\ zbuf' \in [Numbers -> ZBlocks \cup {NoBuf}]
    BY <1>11 DEF WriteThrows
  <2>2. writing' \in 0..MaxBlocks /\ cancelled' \in BOOLEAN /\ thrown' \in BOOLEAN
    BY <1>11 DEF WriteThrows
  <2> QED
    BY <1>11, <2>1, <2>2 DEF WriteThrows, object, buffers, main
<1>12. CASE UNCHANGED vars
  BY <1>12 DEF vars, object, blocks, buffers, stream, main
<1> QED
  BY NextCases, <1>1, <1>2, <1>3, <1>4, <1>5, <1>6, <1>7, <1>8, <1>9, <1>10, <1>11, <1>12
     DEF MainStep, WriterStep

LEMMA SubmitStep == IInv /\ Next => SubmitInv'
<1> SUFFICES ASSUME IInv, Next PROVE SubmitInv'
  OBVIOUS
<1> USE MaxBlocksAssumption, BuffersAssumption DEF IInv, TypeOK, SubmitInv, Numbers
<1>len. Len(plan) \in Nat /\ Len(plan) <= MaxBlocks
  BY PlanFacts
<1>1. CASE Fill
  BY <1>1 DEF Fill, object, blocks
<1>2. CASE Flush
  BY <1>2, <1>len DEF Flush, object, buffers
<1>3. CASE Replace
  BY <1>3 DEF Replace, object, blocks
<1>4. CASE SubmitDirect
  <2>1. number + 1 \in Numbers /\ number + 1 <= Len(plan)
    BY <1>4, <1>len DEF SubmitDirect
  <2> QED
    <3>1. /\ phase' = [phase EXCEPT ![number + 1] = "queued"] /\ number' = number + 1
          /\ num' = [num EXCEPT ![number + 1] = number] /\ pc' = "next" /\ buf' = buf
      BY <1>4 DEF SubmitDirect
    <3>2. \A k \in Numbers : k <= number + 1 => phase'[k] # "none" /\ num'[k] = k - 1
      BY <2>1, <3>1
    <3> QED
      BY <2>1, <3>1, <3>2
<1>5. CASE SubmitCopied
  <2>1. number + 1 \in Numbers /\ number + 1 <= Len(plan)
    BY <1>5, <1>len DEF SubmitCopied
  <2>2. /\ phase' = [phase EXCEPT ![number + 1] = "queued"] /\ number' = number + 1
        /\ num' = [num EXCEPT ![number + 1] = number] /\ pc' = "next"
    BY <1>5 DEF SubmitCopied
  <2>3. \A k \in Numbers : k # number + 1 => buf'[k] = buf[k]
    BY <1>5 DEF SubmitCopied
  <2>4. \A k \in Numbers : k <= number + 1 => phase'[k] # "none" /\ num'[k] = k - 1
    BY <2>1, <2>2, <1>len
  <2>5. \A k \in Numbers : k > number + 1 => phase'[k] = "none" /\ buf'[k] = NoBuf
    BY <2>1, <2>2, <2>3, <1>len
  <2> HIDE DEF IInv, TypeOK
  <2> QED
    BY <2>2, <2>4, <2>5
<1>6. CASE Finish \/ LimitThrow
  BY <1>6 DEF Finish, LimitThrow, object, blocks, buffers
<1>7. ASSUME NEW k \in Numbers, CompressStep(k) PROVE SubmitInv'
  <2>1. UNCHANGED <<object, main, num, content>>
    BY <1>7 DEF CompressStep, StartCompress, Compress, CompressFails, Slot, DropTask, buffers
  <2>2. /\ phase[k] # "none"
        /\ \E ph \in Phases \ {"none"} : phase' = [phase EXCEPT ![k] = ph]
    BY <1>7 DEF CompressStep, StartCompress, Compress, CompressFails, Slot, DropTask, Phases
  <2>3. buf' = buf \/ buf' = [buf EXCEPT ![k] = NoBuf]
    BY <1>7 DEF CompressStep, StartCompress, Compress, CompressFails, Slot, DropTask, ReleaseBlock
  <2> QED
    BY <2>1, <2>2, <2>3 DEF object, main
<1>8. ASSUME NEW k \in Numbers, TakeBlock(k) PROVE SubmitInv'
  BY <1>8 DEF TakeBlock, AtHead, object, buffers, main
<1>9. CASE WriteSize \/ WriteData \/ WriteThrows
  <2>1. UNCHANGED <<object, main, num, buf, content>>
    BY <1>9 DEF WriteSize, WriteData, WriteThrows, blocks, buffers
  <2>2. phase' = phase \/ \E ph \in Phases \ {"none"} : phase' = [phase EXCEPT ![writing] = ph]
    BY <1>9 DEF WriteSize, WriteData, WriteThrows, blocks, Phases
  <2>3. writing # 0 => phase[writing] # "none"
    BY DEF WriterInv
  <2>4. writing # 0
    BY <1>9 DEF WriteSize, WriteData, WriteThrows
  <2> QED
    BY <2>1, <2>2, <2>3, <2>4 DEF object, main
<1>10. CASE UNCHANGED vars
  BY <1>10 DEF vars, object, blocks, buffers, main
<1> QED
  BY NextCases, <1>1, <1>2, <1>3, <1>4, <1>5, <1>6, <1>7, <1>8, <1>9, <1>10
     DEF MainStep, WriterStep

LEMMA BufferStep == IInv /\ Next => HoldInv' /\ BuffersExclusive' /\ FlushInv'
<1> SUFFICES ASSUME IInv, Next PROVE HoldInv' /\ BuffersExclusive' /\ FlushInv'
  OBVIOUS
<1> USE MaxBlocksAssumption, BuffersAssumption
    DEF IInv, TypeOK, HoldInv, BuffersExclusive, FlushInv
<1>len. Len(plan) \in Nat /\ Len(plan) <= MaxBlocks
  BY PlanFacts
<1>1. CASE Fill
  BY <1>1 DEF Fill, object, blocks
<1>2. CASE Flush
  <2>1. number + 1 \in Numbers /\ number + 1 <= Len(plan) /\ phase[number + 1] = "none"
    BY <1>2, <1>len DEF Flush, SubmitInv, Numbers
  <2> QED
    BY <1>2, <2>1 DEF Flush, object, buffers
<1>3. CASE Replace
  <2>1. PICK b \in Blocks : PopBlock(b) /\ current' = b
    BY <1>3 DEF Replace
  <2>2. b \notin pool' /\ pool' \subseteq pool /\ \A k \in Numbers : buf[k] # b
    BY <2>1 DEF PopBlock, HeldBlocks
  <2> QED
    BY <1>3, <2>1, <2>2 DEF Replace, object, blocks
<1>4. CASE SubmitDirect
  <2>1. number + 1 \in Numbers /\ phase[number + 1] = "none"
    BY <1>4, <1>len DEF SubmitDirect, SubmitInv, Numbers
  <2>2. buf[number + 1] = NoBuf /\ zbuf[number + 1] = NoBuf
    BY <2>1
  <2> QED
    BY <1>4, <2>1, <2>2 DEF SubmitDirect, object, buffers
<1>5. CASE SubmitCopied
  <2>1. number + 1 \in Numbers /\ number + 1 <= Len(plan) /\ phase[number + 1] = "none"
    BY <1>5, <1>len DEF SubmitCopied, SubmitInv, Numbers
  <2>2. PICK b \in Blocks : PopBlock(b) /\ buf' = [buf EXCEPT ![number + 1] = b]
    BY <1>5 DEF SubmitCopied
  <2>3. b \notin pool' /\ pool' \subseteq pool /\ b # current /\ \A k \in Numbers : buf[k] # b
    BY <1>5, <2>2 DEF PopBlock, HeldBlocks, SubmitCopied
  <2> QED
    BY <1>5, <2>1, <2>2, <2>3 DEF SubmitCopied, object
<1>6. CASE Finish \/ LimitThrow
  BY <1>6 DEF Finish, LimitThrow, object, blocks, buffers
<1>7. ASSUME NEW k \in Numbers, CompressStep(k) PROVE HoldInv' /\ BuffersExclusive' /\ FlushInv'
  <2>1. CASE StartCompress(k)
    <3>1. PICK z \in ZBlocks : PopZBlock(z) /\ zbuf' = [zbuf EXCEPT ![k] = z]
      BY <2>1 DEF StartCompress
    <3>2. z \notin zpool' /\ zpool' \subseteq zpool /\ \A j \in Numbers : zbuf[j] # z
      BY <3>1 DEF PopZBlock, HeldZBlocks
    <3> QED
      BY <2>1, <3>1, <3>2 DEF StartCompress, object, main
  <2>2. CASE Compress(k) \/ CompressFails(k)
    <3>1. /\ ReleaseBlock(k) /\ phase[k] = "running" /\ phase' = [phase EXCEPT ![k] = "compressed"]
          /\ UNCHANGED <<object, zbuf, zpool, main>>
      BY <2>2 DEF Compress, CompressFails
    <3>2. HoldInv'
      BY <3>1 DEF ReleaseBlock, object
    <3>3. FlushInv'
      BY <3>1 DEF ReleaseBlock, main
    <3>4. BuffersExclusive'
      BY <3>1 DEF ReleaseBlock, main
    <3> QED
      BY <3>2, <3>3, <3>4
  <2>3. CASE Slot(k)
    BY <2>3 DEF Slot, object, buffers, main
  <2>4. CASE DropTask(k)
    BY <2>4 DEF DropTask, object, buffers, main
  <2> QED
    BY <1>7, <2>1, <2>2, <2>3, <2>4 DEF CompressStep
<1>8. ASSUME NEW k \in Numbers, TakeBlock(k) PROVE HoldInv' /\ BuffersExclusive' /\ FlushInv'
  BY <1>8 DEF TakeBlock, AtHead, object, buffers, main
<1>9. CASE WriteSize
  BY <1>9 DEF WriteSize, object, blocks, buffers, main
<1>10. CASE WriteData \/ WriteThrows
  <2>1. writing \in Numbers /\ phase[writing] = "writing"
    BY <1>10 DEF WriteData, WriteThrows, WriterInv, Numbers
  <2>2. /\ zbuf' = [zbuf EXCEPT ![writing] = NoBuf]
        /\ \E ph \in {"gone", "dropped"} : phase' = [phase EXCEPT ![writing] = ph]
        /\ zpool' = zpool \/ zpool' = zpool \cup {zbuf[writing]}
        /\ UNCHANGED <<object, buf, pool, main>>
    BY <1>10 DEF WriteData, WriteThrows, buffers
  <2>3. HoldInv' /\ FlushInv'
    BY <2>1, <2>2 DEF object, main
  <2>4. BuffersExclusive'
    BY <2>1, <2>2 DEF object, main
  <2> QED
    BY <2>3, <2>4
<1>11. CASE UNCHANGED vars
  BY <1>11 DEF vars, object, blocks, buffers, main
<1> QED
  BY NextCases, <1>1, <1>2, <1>3, <1>4, <1>5, <1>6, <1>7, <1>8, <1>9, <1>10, <1>11
     DEF MainStep, WriterStep

LEMMA ContentStep == IInv /\ Next => ContentInv'
<1> SUFFICES ASSUME IInv, Next PROVE ContentInv'
  OBVIOUS
<1> USE MaxBlocksAssumption, BuffersAssumption DEF IInv, TypeOK, ContentInv
<1>len. Len(plan) \in Nat /\ Len(plan) <= MaxBlocks
  BY PlanFacts
<1>1. CASE Fill
  <2>1. \A k \in Numbers : buf[k] # current
    BY <1>1 DEF Fill, BuffersExclusive
  <2> QED
    BY <1>1, <2>1 DEF Fill, blocks
<1>2. CASE Flush
  <2>1. number + 1 \in Numbers /\ phase[number + 1] = "none" /\ content[current] = number + 1
    BY <1>2, <1>len DEF Flush, SubmitInv, Numbers
  <2> QED
    BY <1>2, <2>1 DEF Flush, buffers
<1>3. CASE Replace \/ Finish \/ LimitThrow
  BY <1>3 DEF Replace, Finish, LimitThrow, blocks, buffers
<1>4. CASE SubmitDirect
  BY <1>4 DEF SubmitDirect, buffers
<1>5. CASE SubmitCopied
  <2>1. number + 1 \in Numbers
    BY <1>5, <1>len DEF SubmitCopied, Numbers
  <2>2. PICK b \in Blocks : /\ PopBlock(b) /\ buf' = [buf EXCEPT ![number + 1] = b]
                            /\ content' = [content EXCEPT ![b] = number + 1]
    BY <1>5 DEF SubmitCopied
  <2>3. \A k \in Numbers : buf[k] # b
    BY <2>2 DEF PopBlock, HeldBlocks, BuffersExclusive
  <2> QED
    BY <1>5, <2>1, <2>2, <2>3 DEF SubmitCopied
<1>6. ASSUME NEW k \in Numbers, StartCompress(k) PROVE ContentInv'
  <2>1. PICK z \in ZBlocks : /\ PopZBlock(z) /\ zbuf' = [zbuf EXCEPT ![k] = z]
                             /\ zcontent' = [zcontent EXCEPT ![z] = 0]
    BY <1>6 DEF StartCompress
  <2>2. \A j \in Numbers : zbuf[j] # z
    BY <2>1 DEF PopZBlock, HeldZBlocks, BuffersExclusive
  <2> QED
    BY <1>6, <2>1, <2>2 DEF StartCompress
<1>7. ASSUME NEW k \in Numbers, Compress(k) PROVE ContentInv'
  <2>1. zbuf[k] \in ZBlocks /\ \A j \in Numbers : j # k => zbuf[j] # zbuf[k]
    BY <1>7 DEF Compress, HoldInv, BuffersExclusive
  <2>2. (IF buf[k] = NoBuf THEN k ELSE content[buf[k]]) = k
    OBVIOUS
  <2>3. /\ zcontent' = [zcontent EXCEPT ![zbuf[k]] = k] /\ buf' = [buf EXCEPT ![k] = NoBuf]
        /\ phase' = [phase EXCEPT ![k] = "compressed"]
        /\ UNCHANGED <<zbuf, zok, content>>
    BY <1>7, <2>2 DEF Compress, ReleaseBlock
  <2> QED
    BY <2>1, <2>3
<1>8. ASSUME NEW k \in Numbers, CompressFails(k) \/ Slot(k) \/ DropTask(k) PROVE ContentInv'
  BY <1>8 DEF CompressFails, ReleaseBlock, Slot, DropTask, buffers
<1>9. ASSUME NEW k \in Numbers, TakeBlock(k) PROVE ContentInv'
  BY <1>9 DEF TakeBlock, AtHead, buffers
<1>10. CASE WriteSize
  BY <1>10 DEF WriteSize, blocks, buffers
<1>11. CASE WriteData \/ WriteThrows
  <2>1. writing \in Numbers /\ phase[writing] = "writing"
    BY <1>11 DEF WriteData, WriteThrows, WriterInv, Numbers
  <2>2. /\ zbuf' = [zbuf EXCEPT ![writing] = NoBuf]
        /\ \E ph \in {"gone", "dropped"} : phase' = [phase EXCEPT ![writing] = ph]
        /\ UNCHANGED <<buf, zok, content, zcontent>>
    BY <1>11 DEF WriteData, WriteThrows, buffers
  <2> QED
    BY <2>1, <2>2
<1>12. CASE UNCHANGED vars
  BY <1>12 DEF vars, blocks, buffers
<1> QED
  BY NextCases, <1>1, <1>2, <1>3, <1>4, <1>5, <1>6, <1>7, <1>8, <1>9, <1>10, <1>11, <1>12
     DEF MainStep, WriterStep, CompressStep

LEMMA WriterStepInv == IInv /\ Next => WriterInv' /\ FilePrefix'
<1> SUFFICES ASSUME IInv, Next PROVE WriterInv' /\ FilePrefix'
  OBVIOUS
<1> USE MaxBlocksAssumption DEF IInv, TypeOK, WriterInv, FilePrefix, Numbers
<1>len. /\ Len(plan) \in Nat /\ Len(plan) <= MaxBlocks /\ Len(file) \in Nat
  BY PlanFacts
<1>1. CASE Fill \/ Replace \/ Finish \/ LimitThrow
  <2>1. UNCHANGED <<blocks, head, stream, cancelled, thrown, number>>
    BY <1>1 DEF Fill, Replace, Finish, LimitThrow
  <2> QED
    BY <2>1 DEF blocks, stream
<1>2. CASE Flush \/ SubmitDirect \/ SubmitCopied
  <2>1. /\ UNCHANGED <<zok, head, stream, cancelled, thrown>> /\ number' = number + 1
        /\ phase' = [phase EXCEPT ![number + 1] = "queued"]
    BY <1>2 DEF Flush, SubmitDirect, SubmitCopied
  <2> QED
    BY <2>1, <1>len DEF stream
<1>3. ASSUME NEW k \in Numbers, CompressStep(k) PROVE WriterInv' /\ FilePrefix'
  <2>1. UNCHANGED <<head, stream, cancelled, thrown, number>>
    BY <1>3 DEF CompressStep, StartCompress, Compress, CompressFails, Slot, DropTask, main
  <2>2. /\ phase[k] \in {"queued", "running", "compressed"}
        /\ \/ \E ph \in {"running", "compressed", "slotted"} : phase' = [phase EXCEPT ![k] = ph]
           \/ cancelled /\ phase' = [phase EXCEPT ![k] = "dropped"]
    BY <1>3 DEF CompressStep, StartCompress, Compress, CompressFails, Slot, DropTask
  <2>3. WriterInv'
    <3>1. UNCHANGED <<head, writing, torn, file, cancelled, thrown, number>>
      BY <2>1 DEF stream
    <3>2. PICK ph \in {"running", "compressed", "slotted", "dropped"} :
            phase' = [phase EXCEPT ![k] = ph] /\ (ph = "dropped" => cancelled)
      BY <2>2
    <3>3. writing # k
      BY <2>2
    <3>4. ~(k <= Len(file))
      BY <2>2
    <3>5. \A j \in Numbers : phase'[j] = IF j = k THEN ph ELSE phase[j]
      BY <3>2
    <3>6. \A j \in Numbers : /\ phase'[j] = "writing" => j = writing
                             /\ phase'[j] = "gone" <=> j <= Len(file)
                             /\ phase'[j] = "dropped" => cancelled
      BY <3>2, <3>4, <3>5
    <3>7. writing # 0 => phase'[writing] = "writing"
      BY <3>3, <3>5, <1>len
    <3> HIDE DEF TypeOK, IInv
    <3> QED
      BY <3>1, <3>6, <3>7 DEF IInv
  <2>4. \A i \in Numbers : zok'[i] => zok[i]
    BY <1>3 DEF CompressStep, StartCompress, Compress, CompressFails, Slot, DropTask
  <2>5. FilePrefix'
    <3>1. file' = file
      BY <2>1 DEF stream
    <3>2. \A i \in 1..Len(file) : i \in Numbers
      BY <1>len
    <3> HIDE DEF TypeOK
    <3> QED
      BY <2>4, <3>1, <3>2
  <2> QED
    BY <2>3, <2>5
<1>4. ASSUME NEW k \in Numbers, TakeBlock(k) PROVE WriterInv' /\ FilePrefix'
  <2>1. k <= number /\ num[k] = k - 1 /\ k = head + 1 /\ writing = 0 /\ ~thrown
    BY <1>4 DEF TakeBlock, AtHead, SubmitInv
  <2> QED
    BY <1>4, <2>1, <1>len DEF TakeBlock, main
<1>5. CASE WriteSize
  BY <1>5 DEF WriteSize, blocks, main
<1>6. CASE WriteData
  <2>1. /\ writing \in Numbers /\ writing = Len(file) + 1 /\ phase[writing] = "writing"
        /\ ~thrown
    BY <1>6, <1>len DEF WriteData
  <2>2. zok[writing] => zcontent[zbuf[writing]] = writing
    BY <2>1 DEF ContentInv
  <2>3. PICK x \in 0..MaxBlocks : file' = Append(file, x) /\ (zok[writing] => x = writing)
    <3>1. zbuf[writing] \in ZBlocks
      BY <2>1 DEF HoldInv
    <3> QED
      BY <1>6, <2>2, <3>1 DEF WriteData
  <2>4. /\ Len(file') = Len(file) + 1
        /\ \A i \in 1..Len(file) : file'[i] = file[i]
        /\ file'[Len(file) + 1] = x
    BY <2>3, <1>len
  <2>5. /\ phase' = [phase EXCEPT ![writing] = "gone"] /\ writing' = 0 /\ torn' = FALSE
        /\ UNCHANGED <<zok, head, cancelled, thrown, number>>
    BY <1>6 DEF WriteData, main
  <2>6. FilePrefix'
    BY <2>1, <2>3, <2>4, <2>5, <1>len
  <2>7. WriterInv'
    BY <2>1, <2>4, <2>5, <1>len
  <2> QED
    BY <2>6, <2>7
<1>7. CASE WriteThrows
  <2>1. /\ writing \in Numbers /\ phase[writing] = "writing" /\ thrown' = TRUE /\ cancelled' = TRUE
        /\ phase' = [phase EXCEPT ![writing] = "dropped"] /\ writing' = 0
        /\ UNCHANGED <<zok, head, torn, file, number>>
    BY <1>7 DEF WriteThrows, main
  <2>2. head' = Len(file) + 1 /\ Len(file) < MaxBlocks
    BY <2>1, <1>len
  <2>3. FilePrefix'
    BY <2>1, <1>len
  <2>4. WriterInv'
    BY <2>1, <2>2, <1>len
  <2> QED
    BY <2>3, <2>4
<1>8. CASE UNCHANGED vars
  BY <1>8 DEF vars, blocks, stream, main
<1> QED
  BY NextCases, <1>1, <1>2, <1>3, <1>4, <1>5, <1>6, <1>7, <1>8 DEF MainStep, WriterStep

\* When finish() finds the graph idle and nothing thrown, all blocks are written.
LEMMA IdleComplete ==
    ASSUME IInv, Idle, ~thrown, number = Len(plan)
    PROVE  Len(file) = Len(plan) /\ ~torn
<1> USE MaxBlocksAssumption DEF IInv, TypeOK, Numbers
<1>len. Len(plan) \in Nat /\ Len(plan) <= MaxBlocks /\ Len(file) \in Nat
  BY PlanFacts
<1>1. writing = 0 /\ ~cancelled /\ head = Len(file) /\ ~torn
  BY DEF Idle, WriterInv
<1>2. ASSUME Len(file) < Len(plan) PROVE FALSE
  <2> DEFINE k == Len(file) + 1
  <2>1. k \in Numbers /\ k <= number
    BY <1>2, <1>len
  <2>2. num[k] = head /\ phase[k] # "none"
    BY <1>1, <2>1, <1>len DEF SubmitInv
  <2>3. phase[k] \notin {"writing", "gone", "dropped"}
    BY <1>1, <2>1, <1>len DEF WriterInv
  <2>4. phase[k] \notin {"queued", "running", "compressed"} /\ (AtHead(k) => cancelled)
    BY <2>1 DEF Idle
  <2>5. phase[k] \in Phases
    BY <2>1
  <2>6. phase[k] = "slotted"
    BY <2>2, <2>3, <2>4, <2>5 DEF Phases
  <2> HIDE DEF k, IInv, TypeOK
  <2> QED
    BY <1>1, <2>2, <2>4, <2>6 DEF AtHead
<1> QED
  BY <1>1, <1>2, <1>len

\* Once the graph is idle its tasks do nothing more.
LEMMA IdleQuiet ==
    ASSUME Idle, GraphStep
    PROVE  FALSE
<1>1. ASSUME NEW k \in Numbers, CompressStep(k) PROVE FALSE
  BY <1>1 DEF Idle, CompressStep, StartCompress, Compress, CompressFails, Slot, DropTask
<1>2. ASSUME NEW k \in Numbers, TakeBlock(k) PROVE FALSE
  BY <1>2 DEF Idle, TakeBlock
<1>3. CASE WriteSize \/ WriteData \/ WriteThrows
  BY <1>3 DEF Idle, WriteSize, WriteData, WriteThrows
<1> QED
  BY <1>1, <1>2, <1>3 DEF GraphStep, WriterStep

LEMMA ResultStep == IInv /\ Next => ResultInv'
<1> SUFFICES ASSUME IInv, Next PROVE ResultInv'
  OBVIOUS
<1> USE DEF IInv, ResultInv
<1>1. CASE Fill \/ Flush \/ Replace \/ SubmitDirect \/ SubmitCopied
  BY <1>1 DEF Fill, Flush, Replace, SubmitDirect, SubmitCopied
<1>2. CASE Finish
  <2>1. Idle' = Idle
    BY <1>2 DEF Finish, Idle, AtHead, blocks, stream
  <2> QED
    BY <1>2, <2>1, IdleComplete DEF Finish, object, stream
<1>3. CASE LimitThrow
  <2>1. Idle' = Idle
    BY <1>3 DEF LimitThrow, Idle, AtHead, blocks, stream
  <2> QED
    BY <1>3, <2>1 DEF LimitThrow, object
<1>4. CASE GraphStep
  <2>1. pc # "done" /\ result = "none"
    BY <1>4, IdleQuiet DEF GraphStep
  <2>2. UNCHANGED main
    BY <1>4 DEF GraphStep, WriterStep, TakeBlock, WriteSize, WriteData, WriteThrows,
       CompressStep, StartCompress, Compress, CompressFails, Slot, DropTask
  <2> QED
    BY <2>1, <2>2 DEF main
<1>5. CASE UNCHANGED vars
  <2>1. Idle' = Idle
    BY <1>5 DEF vars, Idle, AtHead, blocks, stream
  <2> QED
    BY <1>5, <2>1 DEF vars, object, stream, main
<1> QED
  BY <1>1, <1>2, <1>3, <1>4, <1>5 DEF Next, MainStep, Terminated

--------------------------------------------------------------------------------
(* The theorems. *)

\* Every reachable state satisfies the inductive invariant.
THEOREM Invariance == Spec => []IInv
<1>1. IInv /\ UNCHANGED vars => IInv'
  <2> SUFFICES ASSUME IInv, UNCHANGED vars PROVE IInv'
    OBVIOUS
  <2>1. TypeOK' /\ SubmitInv' /\ HoldInv' /\ BuffersExclusive'
    BY DEF IInv, vars, object, blocks, buffers, stream, main, TypeOK, SubmitInv, HoldInv,
       BuffersExclusive
  <2>2. FlushInv' /\ ContentInv' /\ WriterInv' /\ FilePrefix'
    BY DEF IInv, vars, object, blocks, buffers, stream, main, FlushInv, ContentInv, WriterInv,
       FilePrefix
  <2>3. ResultInv'
    BY DEF IInv, vars, object, blocks, stream, main, ResultInv, Idle, AtHead
  <2> QED
    BY <2>1, <2>2, <2>3 DEF IInv
<1>2. IInv /\ [Next]_vars => IInv'
  BY <1>1, TypeStep, SubmitStep, BufferStep, ContentStep, WriterStepInv, ResultStep DEF IInv
<1> QED
  BY InitIInv, <1>2, PTL DEF Spec

\* Type correctness, for any number of blocks and buffers.
THEOREM TypeCorrect == Spec => []TypeOK
  BY Invariance, PTL DEF IInv

\* No buffer ever has two users, whatever the interleaving of main, the
\* compressors and the writer.
THEOREM NoSharedBuffer == Spec => []BuffersExclusive
  BY Invariance, PTL DEF IInv

\* The stream holds the first blocks of the object at all times.
THEOREM PrefixAlways == Spec => []FilePrefix
  BY Invariance, PTL DEF IInv

\* finish() succeeds only when every block is in the stream.
THEOREM NoBlockLost == Spec => []NothingLost
<1>1. IInv => NothingLost
  BY DEF IInv, ResultInv, NothingLost
<1> QED
  BY <1>1, Invariance, PTL

\* Whatever the order in which the compressors end, and whether or not they
\* succeed, the sequencer never holds a block back for one that is not coming.
THEOREM SequencerNeverStarves == Spec => []NoneAwaitedInVain
<1>1. ASSUME IInv, ~cancelled, NEW k \in Numbers, phase[k] = "slotted"
      PROVE  /\ head <= num[k]
             /\ \A n \in head..num[k] : \E j \in Numbers : num[j] = n /\ phase[j] \in OnItsWay
  <2>1. /\ head \in Nat /\ number \in Nat /\ number <= MaxBlocks /\ Len(file) \in Nat
        /\ phase \in [Numbers -> Phases]
    <3>1. /\ head \in 0..Len(plan) /\ number \in 0..Len(plan) /\ file \in Seq(0..MaxBlocks)
          /\ phase \in [Numbers -> Phases] /\ plan \in Plans
      BY <1>1 DEF IInv, TypeOK
    <3>2. Len(plan) \in Nat /\ Len(plan) <= MaxBlocks
      BY <3>1, PlanFacts
    <3> QED
      BY <3>1, <3>2, MaxBlocksAssumption
  <2>2. k \in Nat /\ 1 <= k /\ k <= number /\ num[k] = k - 1
    BY <1>1, <2>1 DEF IInv, SubmitInv, Numbers
  <2>3. /\ head = Len(file) + (IF writing # 0 THEN 1 ELSE 0)
        /\ writing # 0 => writing = head /\ phase[writing] = "writing"
    BY <1>1 DEF IInv, WriterInv
  <2>4. ASSUME NEW j \in Numbers
        PROVE  /\ phase[j] = "writing" => j = writing
               /\ phase[j] = "gone" <=> j <= Len(file)
               /\ phase[j] # "dropped"
    BY <1>1 DEF IInv, WriterInv
  <2>5. head <= num[k]
    <3>1. Len(file) < k /\ k # writing
      BY <1>1, <2>1, <2>2, <2>3, <2>4
    <3> QED
      BY <2>1, <2>2, <2>3, <3>1
  <2>6. ASSUME NEW n \in head..num[k]
        PROVE  \E j \in Numbers : num[j] = n /\ phase[j] \in OnItsWay
    <3>1. PICK j \in Nat : j = n + 1 /\ head < j /\ 1 <= j /\ j <= number /\ n = j - 1
      BY <2>1, <2>2
    <3>2. j \in Numbers
      BY <2>1, <3>1, MaxBlocksAssumption DEF Numbers
    <3>3. num[j] = n /\ phase[j] # "none"
      BY <1>1, <3>1, <3>2 DEF IInv, SubmitInv
    <3>4. phase[j] # "gone" /\ phase[j] # "writing" /\ phase[j] # "dropped"
      <4>1. ~(j <= Len(file)) /\ j # writing
        BY <2>1, <2>3, <3>1
      <4>2. /\ phase[j] = "writing" => j = writing
            /\ phase[j] = "gone" <=> j <= Len(file)
            /\ phase[j] # "dropped"
        BY <2>4, <3>2
      <4> QED
        BY <4>1, <4>2, Zenon
    <3>5. phase[j] \in Phases
      BY <2>1, <3>2
    <3> QED
      BY <3>2, <3>3, <3>4, <3>5 DEF Phases, OnItsWay
  <2> QED
    BY <2>5, <2>6
<1>2. IInv => NoneAwaitedInVain
  BY <1>1 DEF NoneAwaitedInVain
<1> QED
  BY <1>2, Invariance, PTL

(* Refinement. *)

\* Only a compressor that may fail ever marks a block as failed.
Sound == CompressMayFail \/ \A k \in Numbers : zok[k]

LEMMA SinkInit == Init => Sink!Init
<1> SUFFICES ASSUME Init PROVE Sink!Init
  OBVIOUS
<1>1. Len(plan) \in 0..MaxBlocks
  BY PlanFacts, MaxBlocksAssumption DEF Init
<1> QED
  BY <1>1 DEF Init, Sink!Init

LEMMA SoundStep == TypeOK /\ Sound /\ [Next]_vars => Sound'
<1> SUFFICES ASSUME ~CompressMayFail, TypeOK, Sound, [Next]_vars PROVE Sound'
  BY DEF Sound
<1>1. zok' = zok
  BY DEF Next, MainStep, Fill, Flush, Replace, SubmitDirect, SubmitCopied, Finish, LimitThrow,
     GraphStep, WriterStep, TakeBlock, WriteSize, WriteData, WriteThrows, CompressStep,
     StartCompress, Compress, CompressFails, Slot, DropTask, Terminated, vars, blocks
<1> QED
  BY <1>1 DEF Sound

LEMMA SinkStep ==
    ASSUME IInv, Sound, [Next]_vars
    PROVE  [Sink!Next]_(Sink!sink)
<1> USE MaxBlocksAssumption
<1>len. Len(plan) \in Nat /\ Len(plan) <= MaxBlocks /\ Len(file) \in Nat
  BY PlanFacts DEF IInv, TypeOK
<1>1. CASE Fill \/ Replace
  BY <1>1 DEF Fill, Replace, object, stream, Sink!sink
<1>2. CASE Flush \/ SubmitDirect \/ SubmitCopied
  <2>1. number < Len(plan) /\ number' = number + 1 /\ result = "none"
    BY <1>2 DEF Flush, SubmitDirect, SubmitCopied, IInv, SubmitInv, ResultInv, TypeOK
  <2>2. UNCHANGED <<plan, ending, file, result>>
    BY <1>2 DEF Flush, SubmitDirect, SubmitCopied, object, stream
  <2> QED
    BY <2>1, <2>2 DEF Sink!Next, Sink!Submit
<1>3. CASE Finish
  <2>1. /\ result = "none" /\ number = Len(plan)
        /\ result' = IF thrown THEN "io_error" ELSE "ok"
        /\ ending = "finish" /\ UNCHANGED <<plan, ending, file, number>>
    BY <1>3 DEF Finish, object, stream, IInv, ResultInv, TypeOK
  <2>2. ~thrown => Len(file) = Len(plan)
    BY <1>3, IdleComplete DEF Finish
  <2> QED
    BY <2>1, <2>2 DEF Sink!Next, Sink!End
<1>4. CASE LimitThrow
  BY <1>4 DEF LimitThrow, object, stream, IInv, ResultInv, TypeOK, Sink!Next, Sink!End
<1>5. ASSUME NEW k \in Numbers, CompressStep(k) PROVE [Sink!Next]_(Sink!sink)
  BY <1>5 DEF CompressStep, StartCompress, Compress, CompressFails, Slot, DropTask, object,
     stream, main, Sink!sink
<1>6. ASSUME NEW k \in Numbers, TakeBlock(k) PROVE [Sink!Next]_(Sink!sink)
  BY <1>6 DEF TakeBlock, object, main, Sink!sink
<1>7. CASE WriteSize \/ WriteThrows
  BY <1>7 DEF WriteSize, WriteThrows, object, main, Sink!sink
<1>8. CASE GraphStep /\ WriteData
  <2>1. result = "none"
    BY <1>8, IdleQuiet DEF IInv, ResultInv, GraphStep, TypeOK
  <2>2. /\ writing = Len(file) + 1 /\ writing <= number /\ phase[writing] = "writing"
        /\ writing \in Numbers
    BY <1>8, <1>len DEF WriteData, IInv, WriterInv, TypeOK, Numbers
  <2>3. \/ file' = Append(file, writing)
        \/ file' = Append(file, 0) /\ CompressMayFail
    BY <1>8, <2>2 DEF WriteData, IInv, ContentInv, Sound
  <2>4. UNCHANGED <<plan, ending, number, result>>
    BY <1>8 DEF WriteData, object, main
  <2>5. Len(file) < number
    BY <2>2, <1>len DEF IInv, TypeOK
  <2> QED
    BY <2>1, <2>2, <2>3, <2>4, <2>5 DEF Sink!Next, Sink!Store
<1>9. CASE UNCHANGED vars
  BY <1>9 DEF vars, object, stream, main, Sink!sink
<1> QED
  BY <1>1, <1>2, <1>3, <1>4, <1>5, <1>6, <1>7, <1>8, <1>9
     DEF Next, MainStep, GraphStep, WriterStep, Terminated

\* The multithreaded writer implements the block sink: however its threads
\* interleave, the blocks are stored in the order of their submission.
THEOREM Refinement == Spec => Implements
<1>1. Init => Sound
  BY DEF Init, Sound
<1>2. IInv /\ Sound /\ [Next]_vars => Sound'
  BY SoundStep DEF IInv
<1>3. IInv /\ Sound /\ [Next]_vars => [Sink!Next]_(Sink!sink)
  BY SinkStep
<1> QED
  BY <1>1, <1>2, <1>3, SinkInit, Invariance, PTL DEF Spec, Implements, Sink!Spec
================================================================================
