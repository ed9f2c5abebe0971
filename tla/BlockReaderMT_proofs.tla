-------------------------- MODULE BlockReaderMT_proofs --------------------------
(***************************************************************************)
(* Theorems about BlockReaderMT for any number of frames and of buffers,   *)
(* checked by TLAPS: the type invariant, the exclusive use of the pooled   *)
(* buffers, the order and integrity of the blocks handed to the            *)
(* deserializer, that main never polls for a block that cannot come, and   *)
(* that the reader implements BlockSource.                                 *)
(***************************************************************************)
EXTENDS BlockReaderMT, TLAPS, SequenceTheorems

(* The inductive invariant, in parts. *)

HoldsZBuf == {"reading", "queued", "running"}
HoldsBuf == {"running", "decoded", "failed", "slotted", "taken"}

\* The reader works through the stream in order, and numbers what it emits.
ReaderInv ==
    /\ toProcess = pos
    /\ rd = "reading" => pos < Len(file) /\ file[pos + 1] # "big"
    /\ eof => rd = "stopped" /\ Source!EndsAfter(file, pos)
    /\ \A f \in Frames :
         /\ f > pos + 1 => phase[f] = "none"
         /\ f = pos + 1 /\ rd = "ready" => phase[f] = "none"
         /\ f = pos + 1 /\ rd = "reading" => phase[f] = "reading"
         /\ f = pos + 1 /\ rd = "stopped" => phase[f] \in {"none", "dropped"}
         /\ f <= pos => phase[f] \notin {"none", "reading"} /\ file[f] \in {"ok", "bad"}

\* A frame holds a buffer exactly while it needs it.
HoldInv ==
    \A f \in Frames :
       /\ zbuf[f] # NoBuf <=> phase[f] \in HoldsZBuf
       /\ buf[f] # NoBuf <=> phase[f] \in HoldsBuf

\* What is in the buffers a frame holds is that frame.
ContentInv ==
    \A f \in Frames :
       /\ phase[f] \in {"queued", "running"} => zcontent[zbuf[f]] = f
       /\ phase[f] \in {"decoded", "slotted", "taken"} /\ file[f] = "ok" => content[buf[f]] = f
       /\ phase[f] = "decoded" => file[f] = "ok"
       /\ phase[f] = "failed" => file[f] = "bad"

\* Block numbers follow the stream, but for failed blocks, which all carry 0.
NumberInv ==
    /\ head = IF pc = "swap" THEN processed + 1 ELSE processed
    /\ \A f \in Frames :
         /\ phase[f] \in {"queued", "running", "decoded"} => num[f] = f - 1
         /\ phase[f] = "failed" => num[f] = 0
         /\ phase[f] \in {"slotted", "taken"} => num[f] = IF file[f] = "ok" THEN f - 1 ELSE 0
         /\ phase[f] = "slotted" => num[f] >= head
         /\ phase[f] = "taken" => pc = "swap" /\ num[f] = processed
    /\ \A f, g \in Frames :
         /\ phase[f] = "slotted" /\ phase[g] = "slotted" /\ num[f] = num[g] => f = g
         /\ phase[f] = "taken" /\ phase[g] = "taken" => f = g

\* The number of blocks with data main has taken.
Delivered == IF size = 0 /\ processed > 0 THEN processed - 1 ELSE processed

\* Main polls only when it needs a block, and an error it has decided on is justified.
MainInv ==
    /\ processed <= pos /\ processed <= want
    /\ pc \in {"try", "swap", "eof", "count", "cancelled"} => processed < want /\ Usable
    /\ pc = "count" => eof
    /\ size = 0 /\ processed > 0 => Source!Damaged(file)
    /\ cancelled /\ pc \notin {"wait", "done"} => Source!Damaged(file)
    /\ pc = "done" <=> result # "none"
    /\ pc \in {"cleanup", "wait"} =>
         \/ why = "eof" /\ Delivered < want /\ Source!EndsAfter(file, Delivered)
         \/ why = "error" /\ Source!Damaged(file)
         \/ why = "corrupt" /\ (Source!Damaged(file) \/ (ending = "malformed" /\ Delivered = want))

IInv ==
    /\ TypeOK /\ ReaderInv /\ HoldInv /\ BuffersExclusive /\ ContentInv /\ NumberInv
    /\ CurrentBlockIntact /\ MainInv

--------------------------------------------------------------------------------
(* Facts about streams. *)

\* A stream has at most MaxFrames frames, each of a known kind, and only its
\* last frame can be cut short.
LEMMA StreamFacts ==
    ASSUME NEW s \in Streams
    PROVE  /\ Len(s) \in Nat /\ Len(s) <= MaxFrames
           /\ DOMAIN s = 1..Len(s)
           /\ \A i \in 1..Len(s) : s[i] \in Kinds /\ (s[i] = "cut" => i = Len(s))
<1>1. PICK n \in 0..MaxFrames : /\ s \in [1..n -> Kinds]
                               /\ \A i \in 1..n : s[i] = "cut" => i = n
  BY MaxFramesAssumption DEF Streams
<1>2. s \in Seq(Kinds)
  BY <1>1, MaxFramesAssumption, SeqDef
<1>3. Len(s) = n
  BY <1>1, <1>2, LenProperties, MaxFramesAssumption
<1> QED
  BY <1>1, <1>2, <1>3, LenProperties, MaxFramesAssumption

\* One undecodable or oversized frame makes a stream damaged.
LEMMA DamagedAt ==
    ASSUME NEW s \in Streams, NEW i \in 1..Len(s), s[i] \in {"bad", "big"}
    PROVE  Source!Damaged(s)
<1>1. i \in DOMAIN s
  BY StreamFacts
<1> QED
  BY <1>1 DEF Source!Damaged

--------------------------------------------------------------------------------
(* The parts of the invariant hold at the start and every step keeps them. *)

LEMMA InitIInv == Init => IInv
<1> SUFFICES ASSUME Init PROVE IInv
  OBVIOUS
<1>1. Len(file) \in Nat /\ DOMAIN file = 1..Len(file)
  BY StreamFacts DEF Init
<1>2. TypeOK
  <2>1. /\ phase \in [Frames -> Phases] /\ num \in [Frames -> 0..MaxFrames]
        /\ zbuf \in [Frames -> ZBlocks \cup {NoBuf}] /\ buf \in [Frames -> Blocks \cup {NoBuf}]
        /\ zcontent \in [ZBlocks -> 0..MaxFrames] /\ content \in [Blocks -> 0..MaxFrames]
    BY MaxFramesAssumption DEF Init, Phases
  <2>2. /\ want \in 1..(MaxFrames + 1) /\ pos \in 0..Len(file) /\ head \in 0..MaxFrames
        /\ toProcess \in 0..Len(file) /\ processed \in 0..MaxFrames
    BY <1>1, MaxFramesAssumption DEF Init
  <2> QED
    BY <2>1, <2>2 DEF Init, TypeOK
<1>3. ReaderInv /\ ContentInv /\ NumberInv
  BY MaxFramesAssumption DEF Init, ReaderInv, ContentInv, NumberInv, Frames
<1>4. HoldInv /\ BuffersExclusive /\ CurrentBlockIntact
  BY BuffersAssumption DEF Init, HoldInv, HoldsZBuf, HoldsBuf, BuffersExclusive, CurrentBlockIntact
<1>5. MainInv
  BY MaxFramesAssumption DEF Init, MainInv, Usable, Delivered
<1> QED
  BY <1>2, <1>3, <1>4, <1>5 DEF IInv

LEMMA TypeStep == IInv /\ Next => TypeOK'
<1> SUFFICES ASSUME IInv, Next PROVE TypeOK'
  OBVIOUS
<1> USE MaxFramesAssumption, BuffersAssumption DEF IInv, TypeOK, Frames, Phases
<1>len. Len(file) \in Nat /\ Len(file) <= MaxFrames
  BY StreamFacts
<1>1. CASE ReadEof
  BY <1>1, <1>len DEF ReadEof, inputs, frames, buffers, main
<1>2. CASE ReadOversize
  BY <1>2, <1>len DEF ReadOversize, inputs, frames, buffers, main
<1>3. CASE ReadHeader
  BY <1>3, <1>len DEF ReadHeader, PopZBlock, inputs, frames, buffers, main
<1>4. CASE ReadShort
  BY <1>4, <1>len DEF ReadShort, inputs, frames, buffers, main
<1>5. CASE ReadFrame
  <2>1. /\ pos + 1 \in Frames /\ pos + 1 \in 0..Len(file) /\ toProcess + 1 \in 0..Len(file)
        /\ pos + 1 \in 0..MaxFrames /\ toProcess \in 0..MaxFrames
    BY <1>5, <1>len DEF ReadFrame, ReaderInv
  <2>2. zcontent' \in [ZBlocks -> 0..MaxFrames]
    BY <1>5, <2>1 DEF ReadFrame
  <2>3. /\ phase' \in [Frames -> {"none", "reading", "queued", "running", "decoded", "failed",
                                  "slotted", "taken", "gone", "dropped"}]
        /\ num' \in [Frames -> 0..MaxFrames]
    BY <1>5, <2>1 DEF ReadFrame
  <2>4. /\ UNCHANGED <<inputs, zbuf, buf, zpool, pool, content, head, eof, cancelled, main>>
        /\ toProcess' = toProcess + 1 /\ pos' = pos + 1 /\ rd' = "ready"
    BY <1>5 DEF ReadFrame
  <2>5. TypeOK
    OBVIOUS
  <2> HIDE DEF IInv
  <2>6. file' = file /\ pos' \in 0..Len(file') /\ toProcess' \in 0..Len(file')
    BY <2>1, <2>4 DEF inputs
  <2>7. rd' \in {"ready", "reading", "stopped"}
    BY <2>4
  <2> QED
    BY <2>2, <2>3, <2>4, <2>5, <2>6, <2>7 DEF inputs, main
<1>6. CASE DropReader
  BY <1>6, <1>len DEF DropReader, inputs, frames, buffers, main
<1>7. ASSUME NEW f \in Frames, TaskStep(f) PROVE TypeOK'
  <2>1. CASE StartDecompress(f)
    BY <2>1, <1>len DEF StartDecompress, PopBlock, inputs, reader, main
  <2>2. CASE DecompressOk(f)
    <3>1. zbuf[f] \in ZBlocks /\ buf[f] \in Blocks
      BY <2>2 DEF DecompressOk, HoldInv, HoldsZBuf, HoldsBuf
    <3>2. content' \in [Blocks -> 0..MaxFrames] /\ zpool' \subseteq ZBlocks
      BY <2>2, <3>1 DEF DecompressOk
    <3>3. /\ phase' \in [Frames -> {"none", "reading", "queued", "running", "decoded", "failed",
                                    "slotted", "taken", "gone", "dropped"}]
          /\ zbuf' \in [Frames -> ZBlocks \cup {NoBuf}]
      BY <2>2 DEF DecompressOk
    <3>4. UNCHANGED <<inputs, reader, num, buf, pool, zcontent, head, eof, toProcess, cancelled, main>>
      BY <2>2 DEF DecompressOk
    <3>5. TypeOK
      OBVIOUS
    <3> HIDE DEF IInv
    <3> QED
      BY <3>2, <3>3, <3>4, <3>5 DEF inputs, reader, main
  <2>3. CASE DecompressFail(f)
    BY <2>3, <1>len DEF DecompressFail, inputs, reader, buffers, main
  <2>4. CASE Slot(f)
    BY <2>4, <1>len DEF Slot, inputs, reader, buffers, main
  <2>5. CASE Refuse(f)
    BY <2>5, <1>len DEF Refuse, inputs, reader, buffers, main
  <2>6. CASE DropTask(f)
    BY <2>6, <1>len DEF DropTask, inputs, reader, buffers, main
  <2> QED
    BY <1>7, <2>1, <2>2, <2>3, <2>4, <2>5, <2>6 DEF TaskStep
<1>8. ASSUME NEW f \in Frames, TryGet(f) PROVE TypeOK'
  <2>1. head + 1 \in 0..MaxFrames
    BY <1>8 DEF TryGet, NumberInv
  <2> QED
    BY <1>8, <2>1, <1>len DEF TryGet, inputs, reader, buffers
<1>9. ASSUME NEW f \in Frames, SwapBlock(f) PROVE TypeOK'
  <2>1. processed + 1 \in 0..MaxFrames
    BY <1>9 DEF SwapBlock, NumberInv
  <2>2. buf[f] \in Blocks
    BY <1>9 DEF SwapBlock, HoldInv, HoldsBuf
  <2> QED
    BY <1>9, <2>1, <2>2, <1>len DEF SwapBlock, inputs, reader
<1>10. CASE NeedBlock \/ TryGetFails \/ CheckEof \/ RejectBlock
  <2>1. CASE NeedBlock
    BY <2>1 DEF NeedBlock, graph, inputs, reader, frames, buffers
  <2>2. CASE TryGetFails
    BY <2>2 DEF TryGetFails, graph, inputs, reader, frames, buffers
  <2>3. CASE CheckEof
    BY <2>3 DEF CheckEof, graph, inputs, reader, frames, buffers
  <2>4. CASE RejectBlock
    BY <2>4 DEF RejectBlock, graph, inputs, reader, frames, buffers
  <2> QED
    BY <1>10, <2>1, <2>2, <2>3, <2>4
<1>11. CASE CheckCount \/ CheckCancelled
  <2>1. CASE CheckCount
    BY <2>1 DEF CheckCount, graph, inputs, reader, frames, buffers
  <2>2. CASE CheckCancelled
    BY <2>2 DEF CheckCancelled, graph, inputs, reader, frames, buffers
  <2> QED
    BY <1>11, <2>1, <2>2
<1>12. CASE Cleanup
  BY <1>12 DEF Cleanup, graph, inputs, reader, frames, buffers
<1>13. CASE CleanupThrow \/ Finish \/ LimitThrow
  BY <1>13, <1>len DEF CleanupThrow, Finish, LimitThrow, graph, inputs, reader, frames, buffers,
       MainInv
<1>14. CASE Terminated
  BY <1>14 DEF Terminated, vars, inputs, reader, frames, buffers, main
<1> QED
  BY <1>1, <1>2, <1>3, <1>4, <1>5, <1>6, <1>7, <1>8, <1>9, <1>10, <1>11, <1>12,
     <1>13, <1>14 DEF Next, GraphStep, ReaderStep, MainStep

\* The steps of main that change nothing but main's own variables.
MainOnly ==
    \/ NeedBlock \/ TryGetFails \/ CheckEof \/ CheckCount \/ CheckCancelled
    \/ RejectBlock \/ CleanupThrow \/ Finish \/ LimitThrow

LEMMA MainOnlyFrame == MainOnly => UNCHANGED <<graph, current, size, processed>>
  BY DEF MainOnly, NeedBlock, TryGetFails, CheckEof, CheckCount, CheckCancelled, RejectBlock,
     CleanupThrow, Finish, LimitThrow

\* Every step is one of these.
LEMMA NextCases ==
    Next => \/ ReaderStep \/ (\E f \in Frames : TaskStep(f) \/ TryGet(f) \/ SwapBlock(f))
            \/ MainOnly \/ Cleanup \/ UNCHANGED vars
  BY DEF Next, GraphStep, MainStep, MainOnly, Terminated

LEMMA ReaderStepInv == IInv /\ Next => ReaderInv'
<1> SUFFICES ASSUME IInv, Next PROVE ReaderInv'
  OBVIOUS
<1> USE MaxFramesAssumption DEF IInv, TypeOK, Frames
<1>len. /\ Len(file) \in Nat /\ Len(file) <= MaxFrames
        /\ \A i \in 1..Len(file) : file[i] \in Kinds
  BY StreamFacts
<1>1. CASE ReadEof
  BY <1>1, <1>len DEF ReadEof, inputs, frames, ReaderInv, Source!EndsAfter
<1>2. CASE ReadOversize
  BY <1>2, <1>len DEF ReadOversize, inputs, frames, ReaderInv
<1>3. CASE ReadHeader
  BY <1>3, <1>len DEF ReadHeader, inputs, ReaderInv
<1>4. CASE ReadShort
  BY <1>4, <1>len DEF ReadShort, inputs, ReaderInv, Source!EndsAfter
<1>5. CASE ReadFrame
  BY <1>5, <1>len DEF ReadFrame, inputs, ReaderInv, Kinds
<1>6. CASE DropReader
  BY <1>6, <1>len DEF DropReader, inputs, frames, ReaderInv
<1>7. ASSUME NEW f \in Frames, TaskStep(f) \/ TryGet(f) \/ SwapBlock(f) PROVE ReaderInv'
  <2>1. /\ UNCHANGED <<file, rd, pos, toProcess, eof>>
        /\ phase[f] \notin {"none", "reading", "dropped"}
        /\ \E ph \in Phases \ {"none", "reading"} : phase' = [phase EXCEPT ![f] = ph]
    BY <1>7 DEF TaskStep, StartDecompress, DecompressOk, DecompressFail, Slot, Refuse, DropTask,
       TryGet, SwapBlock, inputs, reader, Phases
  <2> QED
    BY <2>1, <1>len DEF ReaderInv
<1>8. CASE MainOnly \/ Cleanup \/ UNCHANGED vars
  <2>1. UNCHANGED <<file, rd, pos, toProcess, eof, phase>>
    BY <1>8, MainOnlyFrame DEF Cleanup, graph, vars, inputs, reader, frames
  <2> QED
    BY <2>1 DEF ReaderInv
<1> QED
  BY NextCases, <1>1, <1>2, <1>3, <1>4, <1>5, <1>6, <1>7, <1>8 DEF ReaderStep

LEMMA BufferStep == IInv /\ Next => HoldInv' /\ BuffersExclusive'
<1> SUFFICES ASSUME IInv, Next PROVE HoldInv' /\ BuffersExclusive'
  OBVIOUS
<1> USE MaxFramesAssumption, BuffersAssumption
    DEF IInv, TypeOK, HoldInv, HoldsZBuf, HoldsBuf, BuffersExclusive
<1>len. Len(file) \in Nat /\ Len(file) <= MaxFrames
  BY StreamFacts
<1>1. CASE ReadEof \/ ReadOversize \/ DropReader
  BY <1>1 DEF ReadEof, ReadOversize, DropReader, frames, buffers, main
<1>2. CASE ReadHeader
  <2>1. pos + 1 \in Frames /\ phase[pos + 1] = "none"
    BY <1>2, <1>len DEF ReadHeader, ReaderInv, Frames
  <2>2. PICK z \in ZBlocks : PopZBlock(z) /\ zbuf' = [zbuf EXCEPT ![pos + 1] = z]
    BY <1>2 DEF ReadHeader
  <2>3. z \notin zpool' /\ zpool' \subseteq zpool /\ \A f \in Frames : zbuf[f] # z
    BY <2>2 DEF PopZBlock, HeldZBlocks
  <2> QED
    BY <1>2, <2>1, <2>2, <2>3 DEF ReadHeader, main
<1>3. CASE ReadShort \/ ReadFrame
  <2>1. pos + 1 \in Frames /\ phase[pos + 1] = "reading"
    BY <1>3, <1>len DEF ReadShort, ReadFrame, ReaderInv, Frames
  <2>2. CASE ReadShort
    BY <2>1, <2>2 DEF ReadShort, main, buffers
  <2>3. CASE ReadFrame
    BY <2>1, <2>3 DEF ReadFrame, main
  <2> QED
    BY <1>3, <2>2, <2>3
<1>4. ASSUME NEW f \in Frames, StartDecompress(f) PROVE HoldInv' /\ BuffersExclusive'
  <2>1. PICK b \in Blocks : PopBlock(b) /\ buf' = [buf EXCEPT ![f] = b]
    BY <1>4 DEF StartDecompress
  <2>2. /\ b \notin pool' /\ b # current /\ pool' \subseteq pool
        /\ \A g \in Frames : buf[g] # b
    BY <2>1 DEF PopBlock, HeldBlocks
  <2> QED
    BY <1>4, <2>1, <2>2 DEF StartDecompress, main
<1>5. ASSUME NEW f \in Frames,
             DecompressOk(f) \/ DecompressFail(f) \/ Slot(f) \/ Refuse(f) \/ DropTask(f)
      PROVE HoldInv' /\ BuffersExclusive'
  <2>1. CASE DecompressOk(f)
    <3>1. HoldInv'
      BY <2>1 DEF DecompressOk
    <3>2. BuffersExclusive'
      BY <2>1 DEF DecompressOk, main
    <3> QED
      BY <3>1, <3>2
  <2>2. CASE DecompressFail(f)
    BY <2>2 DEF DecompressFail, main, buffers
  <2>3. CASE Slot(f)
    BY <2>3 DEF Slot, main, buffers
  <2>4. CASE Refuse(f)
    BY <2>4 DEF Refuse, main, buffers
  <2>5. CASE DropTask(f)
    BY <2>5 DEF DropTask, main, buffers
  <2> QED
    BY <1>5, <2>1, <2>2, <2>3, <2>4, <2>5
<1>6. ASSUME NEW f \in Frames, TryGet(f) \/ SwapBlock(f) PROVE HoldInv' /\ BuffersExclusive'
  <2>1. CASE TryGet(f)
    BY <2>1 DEF TryGet, buffers
  <2>2. CASE SwapBlock(f)
    <3>1. HoldInv'
      BY <2>2 DEF SwapBlock
    <3>2. BuffersExclusive'
      BY <2>2 DEF SwapBlock
    <3> QED
      BY <3>1, <3>2
  <2> QED
    BY <1>6, <2>1, <2>2
<1>7. CASE MainOnly \/ Cleanup \/ UNCHANGED vars
  <2>1. UNCHANGED <<frames, buffers, current>>
    BY <1>7, MainOnlyFrame DEF Cleanup, graph, vars, main
  <2> QED
    BY <2>1 DEF frames, buffers
<1> QED
  BY NextCases, <1>1, <1>2, <1>3, <1>4, <1>5, <1>6, <1>7 DEF ReaderStep, TaskStep

LEMMA ContentStep == IInv /\ Next => ContentInv' /\ CurrentBlockIntact'
<1> SUFFICES ASSUME IInv, Next PROVE ContentInv' /\ CurrentBlockIntact'
  OBVIOUS
<1> USE MaxFramesAssumption, BuffersAssumption DEF IInv, TypeOK, ContentInv, CurrentBlockIntact
<1>len. /\ Len(file) \in Nat /\ Len(file) <= MaxFrames
  BY StreamFacts
<1>1. CASE ReadEof \/ ReadOversize \/ DropReader
  BY <1>1 DEF ReadEof, ReadOversize, DropReader, frames, buffers, main, inputs
<1>2. CASE ReadHeader
  <2>1. pos + 1 \in Frames /\ phase[pos + 1] = "none"
    BY <1>2, <1>len DEF ReadHeader, ReaderInv, Frames
  <2>2. PICK z \in ZBlocks : /\ PopZBlock(z) /\ zbuf' = [zbuf EXCEPT ![pos + 1] = z]
                             /\ zcontent' = [zcontent EXCEPT ![z] = 0]
    BY <1>2 DEF ReadHeader
  <2>3. \A f \in Frames : zbuf[f] # z
    BY <2>2 DEF PopZBlock, HeldZBlocks, BuffersExclusive
  <2> QED
    BY <1>2, <2>1, <2>2, <2>3 DEF ReadHeader, main, inputs
<1>3. CASE ReadShort \/ ReadFrame
  <2>1. pos + 1 \in Frames /\ phase[pos + 1] = "reading" /\ zbuf[pos + 1] \in ZBlocks
    BY <1>3, <1>len DEF ReadShort, ReadFrame, ReaderInv, Frames, HoldInv, HoldsZBuf
  <2>2. \A f \in Frames : f # pos + 1 => zbuf[f] # zbuf[pos + 1]
    BY <2>1 DEF BuffersExclusive
  <2>3. CASE ReadShort
    BY <2>1, <2>3 DEF ReadShort, main, buffers, inputs
  <2>4. CASE ReadFrame
    BY <2>1, <2>2, <2>4 DEF ReadFrame, main, inputs
  <2> QED
    BY <1>3, <2>3, <2>4
<1>4. ASSUME NEW f \in Frames, StartDecompress(f) PROVE ContentInv' /\ CurrentBlockIntact'
  <2>1. PICK b \in Blocks : /\ PopBlock(b) /\ buf' = [buf EXCEPT ![f] = b]
                            /\ content' = [content EXCEPT ![b] = 0]
    BY <1>4 DEF StartDecompress
  <2>2. b # current /\ \A g \in Frames : buf[g] # b
    BY <2>1 DEF PopBlock, HeldBlocks, BuffersExclusive
  <2> QED
    BY <1>4, <2>1, <2>2 DEF StartDecompress, main, inputs
<1>5. ASSUME NEW f \in Frames, DecompressOk(f) PROVE ContentInv' /\ CurrentBlockIntact'
  <2>1. /\ buf[f] \in Blocks /\ buf[f] # current
        /\ \A g \in Frames : g # f => buf[g] # buf[f]
    BY <1>5 DEF DecompressOk, HoldInv, HoldsBuf, BuffersExclusive
  <2> QED
    BY <1>5, <2>1 DEF DecompressOk, main, inputs
<1>6. ASSUME NEW f \in Frames, DecompressFail(f) \/ Slot(f) \/ Refuse(f) \/ DropTask(f)
      PROVE ContentInv' /\ CurrentBlockIntact'
  <2>1. CASE DecompressFail(f)
    BY <2>1 DEF DecompressFail, main, buffers, inputs
  <2>2. CASE Slot(f)
    BY <2>2 DEF Slot, main, buffers, inputs
  <2>3. CASE Refuse(f)
    BY <2>3 DEF Refuse, main, buffers, inputs
  <2>4. CASE DropTask(f)
    BY <2>4 DEF DropTask, main, buffers, inputs
  <2> QED
    BY <1>6, <2>1, <2>2, <2>3, <2>4
<1>7. ASSUME NEW f \in Frames, TryGet(f) PROVE ContentInv' /\ CurrentBlockIntact'
  BY <1>7 DEF TryGet, buffers, inputs
<1>8. ASSUME NEW f \in Frames, SwapBlock(f) PROVE ContentInv' /\ CurrentBlockIntact'
  BY <1>8 DEF SwapBlock, inputs, NumberInv, Frames
<1>9. CASE MainOnly \/ Cleanup \/ UNCHANGED vars
  <2>1. UNCHANGED <<file, frames, buffers, current, size, processed>>
    BY <1>9, MainOnlyFrame DEF Cleanup, graph, vars, main, inputs
  <2> QED
    BY <2>1 DEF frames, buffers
<1> QED
  BY NextCases, <1>1, <1>2, <1>3, <1>4, <1>5, <1>6, <1>7, <1>8, <1>9 DEF ReaderStep, TaskStep

LEMMA NumberStep == IInv /\ Next => NumberInv'
<1> SUFFICES ASSUME IInv, Next PROVE NumberInv'
  OBVIOUS
<1> USE MaxFramesAssumption DEF IInv, TypeOK, NumberInv, Frames
<1>len. /\ Len(file) \in Nat /\ Len(file) <= MaxFrames
  BY StreamFacts
<1>1. CASE ReadEof \/ ReadOversize \/ DropReader
  BY <1>1 DEF ReadEof, ReadOversize, DropReader, frames, main, inputs
<1>2. CASE ReadHeader
  BY <1>2, <1>len DEF ReadHeader, main, inputs
<1>3. CASE ReadShort
  BY <1>3, <1>len DEF ReadShort, main, inputs
<1>4. CASE ReadFrame
  BY <1>4, <1>len DEF ReadFrame, main, inputs, ReaderInv
<1>5. ASSUME NEW f \in Frames, TaskStep(f) PROVE NumberInv'
  <2>1. CASE StartDecompress(f)
    BY <2>1 DEF StartDecompress, main, inputs
  <2>2. CASE DecompressOk(f)
    BY <2>2 DEF DecompressOk, main, inputs
  <2>3. CASE DecompressFail(f)
    BY <2>3 DEF DecompressFail, main, inputs
  <2>4. CASE Slot(f)
    BY <2>4 DEF Slot, Accepts, main, inputs, ContentInv
  <2>5. CASE Refuse(f)
    BY <2>5 DEF Refuse, main, inputs
  <2>6. CASE DropTask(f)
    BY <2>6 DEF DropTask, main, inputs
  <2> QED
    BY <1>5, <2>1, <2>2, <2>3, <2>4, <2>5, <2>6 DEF TaskStep
<1>6. ASSUME NEW f \in Frames, TryGet(f) PROVE NumberInv'
  BY <1>6 DEF TryGet, inputs
<1>7. ASSUME NEW f \in Frames, SwapBlock(f) PROVE NumberInv'
  <2>1. \A g \in Frames : phase[g] = "taken" => num[g] = processed /\ pc = "swap"
    OBVIOUS
  <2>2. \A g \in Frames : phase'[g] = "taken" => FALSE
    BY <1>7 DEF SwapBlock
  <2> QED
    BY <1>7, <2>1, <2>2 DEF SwapBlock, inputs
<1>8. CASE MainOnly \/ Cleanup \/ UNCHANGED vars
  <2>1. UNCHANGED <<file, frames, head, processed>>
    BY <1>8, MainOnlyFrame DEF Cleanup, graph, vars, main, inputs
  <2>2. pc' = "swap" <=> pc = "swap"
    BY <1>8 DEF MainOnly, Cleanup, NeedBlock, TryGetFails, CheckEof, CheckCount, CheckCancelled,
       RejectBlock, CleanupThrow, Finish, LimitThrow, vars, main
  <2> QED
    BY <2>1, <2>2 DEF frames
<1> QED
  BY NextCases, <1>1, <1>2, <1>3, <1>4, <1>5, <1>6, <1>7, <1>8 DEF ReaderStep

LEMMA MainStepInv == IInv /\ Next => MainInv'
<1> SUFFICES ASSUME IInv, Next PROVE MainInv'
  OBVIOUS
<1> USE MaxFramesAssumption DEF IInv, TypeOK
<1>len. /\ Len(file) \in Nat /\ Len(file) <= MaxFrames
  BY StreamFacts
<1>1. CASE ReadOversize
  <2>1. Source!Damaged(file)
    BY <1>1, <1>len, DamagedAt DEF ReadOversize
  <2> QED
    BY <1>1, <2>1 DEF ReadOversize, inputs, main, MainInv, Usable, Delivered
<1>2. CASE ReadEof \/ ReadHeader \/ ReadShort \/ ReadFrame \/ DropReader
  <2>1. UNCHANGED <<inputs, cancelled, main>>
    BY <1>2 DEF ReadEof, ReadHeader, ReadShort, ReadFrame, DropReader
  <2>2. pos <= pos' /\ pos' \in Nat
    BY <1>2, <1>len DEF ReadEof, ReadHeader, ReadShort, ReadFrame, DropReader
  <2>3. eof' = eof \/ eof' = TRUE
    BY <1>2 DEF ReadEof, ReadHeader, ReadShort, ReadFrame, DropReader
  <2> QED
    BY <2>1, <2>2, <2>3, <1>len DEF inputs, main, MainInv, Usable, Delivered
<1>3. ASSUME NEW f \in Frames, DecompressFail(f) PROVE MainInv'
  <2>1. Source!Damaged(file)
    <3>1. f \in 1..Len(file) /\ file[f] = "bad"
      BY <1>3, <1>len DEF DecompressFail, ReaderInv, Frames
    <3> QED
      BY <3>1, DamagedAt
  <2> QED
    BY <1>3, <2>1 DEF DecompressFail, inputs, reader, main, MainInv, Usable, Delivered
<1>4. ASSUME NEW f \in Frames, StartDecompress(f) \/ DecompressOk(f) \/ Slot(f) \/ Refuse(f)
                               \/ DropTask(f)
      PROVE MainInv'
  <2>1. UNCHANGED <<inputs, reader, cancelled, main, eof>>
    BY <1>4 DEF StartDecompress, DecompressOk, Slot, Refuse, DropTask
  <2> QED
    BY <2>1 DEF inputs, reader, main, MainInv, Usable, Delivered
<1>5. ASSUME NEW f \in Frames, TryGet(f) PROVE MainInv'
  BY <1>5 DEF TryGet, inputs, reader, MainInv, Usable, Delivered
<1>6. ASSUME NEW f \in Frames, SwapBlock(f) PROVE MainInv'
  <2>1. f <= pos /\ pos <= Len(file) /\ num[f] = processed
    BY <1>6 DEF SwapBlock, ReaderInv, NumberInv, Frames
  <2>2. processed + 1 <= pos
    BY <1>6, <2>1, <1>len DEF SwapBlock, NumberInv, Frames
  <2>3. file[f] = "bad" => Source!Damaged(file)
    BY <2>1, <1>len, DamagedAt DEF Frames
  <2>4. file[f] \in {"ok", "bad"}
    BY <2>1 DEF ReaderInv
  <2> QED
    BY <1>6, <2>2, <2>3, <2>4 DEF SwapBlock, inputs, reader, MainInv, Usable, Delivered
<1>7. CASE NeedBlock \/ TryGetFails \/ CheckEof \/ CheckCancelled
  BY <1>7 DEF NeedBlock, TryGetFails, CheckEof, CheckCancelled, graph, inputs, reader, MainInv,
     Usable, Delivered
<1>8. CASE CheckCount
  <2>1. CASE processed >= toProcess
    <3>1. processed = pos /\ Delivered = processed /\ Source!EndsAfter(file, processed)
      BY <1>8, <2>1, <1>len DEF CheckCount, MainInv, ReaderInv, Usable, Delivered
    <3> QED
      BY <1>8, <2>1, <3>1 DEF CheckCount, graph, inputs, reader, MainInv, Usable, Delivered
  <2>2. CASE ~(processed >= toProcess)
    BY <1>8, <2>2 DEF CheckCount, graph, inputs, reader, MainInv, Usable, Delivered
  <2> QED
    BY <2>1, <2>2
<1>9. CASE RejectBlock
  BY <1>9 DEF RejectBlock, graph, inputs, reader, MainInv, Usable, Delivered
<1>10. CASE Cleanup
  BY <1>10 DEF Cleanup, inputs, reader, MainInv, Usable, Delivered
<1>11. CASE CleanupThrow \/ Finish \/ LimitThrow
  BY <1>11 DEF CleanupThrow, Finish, LimitThrow, graph, inputs, reader, MainInv, Usable, Delivered
<1>12. CASE UNCHANGED vars
  BY <1>12 DEF vars, inputs, reader, main, MainInv, Usable, Delivered
<1> QED
  BY NextCases, <1>1, <1>2, <1>3, <1>4, <1>5, <1>6, <1>7, <1>8, <1>9, <1>10, <1>11, <1>12
     DEF ReaderStep, TaskStep, MainOnly

--------------------------------------------------------------------------------
(* The theorems. *)

\* Every reachable state satisfies the inductive invariant.
THEOREM Invariance == Spec => []IInv
<1>1. IInv /\ UNCHANGED vars => IInv'
  <2> SUFFICES ASSUME IInv, UNCHANGED vars PROVE IInv'
    OBVIOUS
  <2>1. TypeOK' /\ ReaderInv' /\ HoldInv' /\ BuffersExclusive'
    BY DEF IInv, vars, inputs, reader, frames, buffers, main, TypeOK, ReaderInv, HoldInv,
       BuffersExclusive
  <2>2. ContentInv' /\ NumberInv' /\ CurrentBlockIntact' /\ MainInv'
    BY DEF IInv, vars, inputs, reader, frames, buffers, main, ContentInv, NumberInv,
       CurrentBlockIntact, MainInv, Usable, Delivered
  <2> QED
    BY <2>1, <2>2 DEF IInv
<1>2. IInv /\ [Next]_vars => IInv'
  BY <1>1, TypeStep, ReaderStepInv, BufferStep, ContentStep, NumberStep, MainStepInv DEF IInv
<1> QED
  BY InitIInv, <1>2, PTL DEF Spec

\* Type correctness, for any number of frames and buffers.
THEOREM TypeCorrect == Spec => []TypeOK
  BY Invariance, PTL DEF IInv

\* No pooled buffer ever has two users, whatever the interleaving of the
\* reader, the decompressors and main.
THEOREM NoSharedBuffer == Spec => []BuffersExclusive
  BY Invariance, PTL DEF IInv

\* The block main reads from is the one whose turn it is, and stays so.
THEOREM BlocksInOrder == Spec => []CurrentBlockIntact
  BY Invariance, PTL DEF IInv

LEMMA SourceInit == Init => Source!Init
  BY DEF Init, Source!Init, Streams, Source!Streams, Kinds, Source!Kinds

\* Each step hands over the next block, ends the read with an outcome the
\* stream justifies, or changes nothing the deserializer can see.
LEMMA SourceStep ==
    ASSUME IInv, [Next]_vars
    PROVE  [Source!Next]_(Source!source)
<1> USE MaxFramesAssumption DEF IInv, TypeOK
<1>len. /\ Len(file) \in Nat /\ Len(file) <= MaxFrames
  BY StreamFacts
<1>1. CASE ReaderStep
  BY <1>1 DEF ReaderStep, ReadEof, ReadOversize, ReadHeader, ReadShort, ReadFrame, DropReader,
     inputs, main, Source!source
<1>2. ASSUME NEW f \in Frames, TaskStep(f) PROVE [Source!Next]_(Source!source)
  BY <1>2 DEF TaskStep, StartDecompress, DecompressOk, DecompressFail, Slot, Refuse, DropTask,
     inputs, main, Source!source
<1>3. ASSUME NEW f \in Frames, TryGet(f) PROVE [Source!Next]_(Source!source)
  BY <1>3 DEF TryGet, inputs, Source!source
<1>4. ASSUME NEW f \in Frames, SwapBlock(f) PROVE [Source!Next]_(Source!source)
  <2>1. /\ f <= pos /\ pos <= Len(file) /\ num[f] = processed
        /\ processed < want /\ Usable /\ result = "none"
        /\ num[f] = IF file[f] = "ok" THEN f - 1 ELSE 0
    BY <1>4 DEF SwapBlock, ReaderInv, NumberInv, MainInv, Frames
  <2>2. CASE file[f] = "ok"
    <3>1. f = processed + 1
      BY <2>1, <2>2 DEF Frames
    <3> QED
      BY <1>4, <1>len, <2>1, <2>2, <3>1
         DEF SwapBlock, inputs, Usable, Source!Next, Source!Deliver
  <2>3. CASE file[f] # "ok"
    BY <1>4, <2>1, <2>3 DEF SwapBlock, inputs, Usable, Source!source
  <2> QED
    BY <2>2, <2>3
<1>5. CASE NeedBlock \/ TryGetFails \/ CheckEof \/ CheckCount \/ CheckCancelled \/ RejectBlock
  BY <1>5 DEF NeedBlock, TryGetFails, CheckEof, CheckCount, CheckCancelled, RejectBlock,
     graph, inputs, Source!source
<1>6. CASE Cleanup
  BY <1>6 DEF Cleanup, inputs, Source!source
<1>7. CASE CleanupThrow
  BY <1>7 DEF CleanupThrow, graph, inputs, MainInv, Delivered, Source!Next, Source!End,
     Source!EndOfStream, Source!StreamError, Source!Corrupted
<1>8. CASE Finish
  BY <1>8 DEF Finish, graph, inputs, MainInv, Usable, Delivered, Source!Next, Source!End,
     Source!Succeed, Source!StreamError
<1>9. CASE LimitThrow
  BY <1>9 DEF LimitThrow, graph, inputs, MainInv, Usable, Delivered, Source!Next, Source!End,
     Source!OverLimit
<1>10. CASE UNCHANGED vars
  BY <1>10 DEF vars, inputs, main, Source!source
<1> QED
  BY NextCases, <1>1, <1>2, <1>3, <1>4, <1>5, <1>6, <1>7, <1>8, <1>9, <1>10 DEF MainOnly

\* The multithreaded reader implements the block source: however its threads
\* interleave, the deserializer gets the frames of the stream in order and an
\* outcome the stream justifies.
THEOREM Refinement == Spec => Implements
<1>1. IInv /\ [Next]_vars => [Source!Next]_(Source!source)
  BY SourceStep
<1> QED
  BY <1>1, SourceInit, Invariance, PTL DEF Spec, Implements, Source!Spec
--------------------------------------------------------------------------------
(* Main does not poll in vain. *)

\* The frames emitted, without a cancellation: none is lost, those that main
\* has taken are gone, and what follows them is on its way.
FramesKept ==
    /\ head <= pos
    /\ \A f \in 1..pos :
         /\ phase[f] # "dropped"
         /\ phase[f] = "gone" <=> f <= processed
         /\ phase[f] \in {"decoded", "failed", "slotted", "taken", "gone"} => file[f] = "ok"
         /\ f <= head => phase[f] \in {"taken", "gone"}

NoneLost ==
    /\ rd = "stopped" => eof \/ cancelled
    /\ ~cancelled => FramesKept

\* What moves has been emitted; what came from a frame that decodes has its
\* place as its number.
LEMMA Emitted ==
    ASSUME IInv, NEW f \in Frames,
           phase[f] \in {"queued", "running", "decoded", "failed", "slotted", "taken"}
    PROVE  /\ f \in 1..pos /\ f \in Nat /\ pos \in Nat /\ pos <= MaxFrames
           /\ ~cancelled /\ FramesKept => f > head \/ phase[f] = "taken"
           /\ ~cancelled /\ FramesKept /\ phase[f] \in {"decoded", "failed", "slotted", "taken"} =>
                file[f] = "ok" /\ phase[f] # "failed" /\ num[f] = f - 1
<1>1. pos \in Nat /\ pos <= MaxFrames /\ f \in Nat /\ f >= 1
  BY MaxFramesAssumption, StreamFacts DEF IInv, TypeOK, Frames
<1>2. f <= pos
  <2>1. rd \in {"ready", "reading", "stopped"}
    BY DEF IInv, TypeOK
  <2> QED
    BY <1>1, <2>1 DEF IInv, ReaderInv
<1>3. head \in Nat
  BY DEF IInv, TypeOK
<1> QED
  BY <1>1, <1>2, <1>3 DEF IInv, ContentInv, NumberInv, FramesKept

LEMMA NoneLostReader ==
    ASSUME IInv, NoneLost, ReaderStep
    PROVE  NoneLost'
<1>1. pos \in Nat /\ pos < pos + 1 /\ head \in Nat /\ processed \in Nat /\ processed <= pos
  BY DEF IInv, TypeOK, MainInv
<1>2. CASE ReadEof
  BY <1>2 DEF ReadEof, NoneLost, FramesKept, inputs, frames, main
<1>3. CASE ReadOversize \/ DropReader
  BY <1>3 DEF ReadOversize, DropReader, NoneLost
<1>4. CASE ReadHeader \/ ReadShort
  <2>1. /\ UNCHANGED <<inputs, pos, head, cancelled, main>>
        /\ \A f \in 1..pos : phase'[f] = phase[f]
        /\ rd' = "stopped" => eof'
    <3>1. pos + 1 \notin 1..pos /\ phase \in [Frames -> Phases] /\ 1..pos \subseteq Frames
      BY <1>1, StreamFacts, MaxFramesAssumption DEF IInv, TypeOK, Frames
    <3>2. /\ UNCHANGED <<inputs, pos, head, cancelled, main>>
          /\ \E ph \in {"reading", "dropped"} : phase' = [phase EXCEPT ![pos + 1] = ph]
          /\ rd' = "stopped" => eof'
      <4>1. CASE ReadHeader
        BY <4>1 DEF ReadHeader
      <4>2. CASE ReadShort
        BY <4>2 DEF ReadShort
      <4> QED
        BY <1>4, <4>1, <4>2
    <3> QED
      BY <3>1, <3>2
  <2> QED
    BY <2>1 DEF NoneLost, FramesKept, inputs, main
<1>5. CASE ReadFrame
  <2>1. /\ UNCHANGED <<inputs, head, cancelled, main>> /\ rd' = "ready" /\ pos' = pos + 1
        /\ \A f \in 1..pos : phase'[f] = phase[f]
    BY <1>1, <1>5 DEF ReadFrame, IInv, TypeOK
  <2>2. phase'[pos + 1] = "queued"
    <3>1. pos + 1 \in Frames
      BY <1>5, <1>1, StreamFacts, MaxFramesAssumption
         DEF ReadFrame, IInv, TypeOK, ReaderInv, Frames
    <3> QED
      BY <1>5, <3>1 DEF ReadFrame, IInv, TypeOK
  <2>3. ~cancelled => FramesKept'
    <3> SUFFICES ASSUME ~cancelled PROVE FramesKept'
      OBVIOUS
    <3>1. FramesKept
      BY DEF NoneLost
    <3>2. head' <= pos' /\ pos + 1 > processed /\ pos + 1 > head
      BY <1>1, <2>1, <3>1 DEF FramesKept
    <3>3. ASSUME NEW f \in 1..pos'
          PROVE  /\ phase'[f] # "dropped"
                 /\ phase'[f] = "gone" <=> f <= processed'
                 /\ phase'[f] \in {"decoded", "failed", "slotted", "taken", "gone"} =>
                      file'[f] = "ok"
                 /\ f <= head' => phase'[f] \in {"taken", "gone"}
      <4>1. CASE f = pos + 1
        BY <2>1, <2>2, <3>2, <4>1, <1>1 DEF main
      <4>2. CASE f \in 1..pos
        BY <2>1, <3>1, <4>2 DEF FramesKept, inputs, main
      <4> QED
        BY <1>1, <2>1, <4>1, <4>2
    <3> QED
      BY <3>2, <3>3 DEF FramesKept
  <2> QED
    BY <2>1, <2>3 DEF NoneLost
<1> QED
  BY <1>2, <1>3, <1>4, <1>5 DEF ReaderStep

LEMMA NoneLostTask ==
    ASSUME IInv, NoneLost, NEW f \in Frames, TaskStep(f)
    PROVE  NoneLost'
<1>1. CASE DecompressFail(f)
  BY <1>1 DEF DecompressFail, NoneLost, reader
<1>2. CASE DropTask(f)
  BY <1>2 DEF DropTask, NoneLost, reader
<1>3. CASE Refuse(f)
  <2>1. ~cancelled => FALSE
    <3> SUFFICES ASSUME ~cancelled PROVE FALSE
      OBVIOUS
    <3>1. FramesKept
      BY DEF NoneLost
    <3>2. /\ phase[f] \in {"decoded", "failed"} /\ f \in Nat /\ f > head
          /\ num[f] = f - 1 /\ ~Accepts(num[f])
      BY <1>3, <3>1, Emitted DEF Refuse
    <3>3. head \in Nat
      BY DEF IInv, TypeOK
    <3>4. PICK g \in Frames : phase[g] = "slotted" /\ num[g] = num[f]
      BY <3>2, <3>3 DEF Accepts
    <3>5. g \in Nat /\ num[g] = g - 1
      BY <3>1, <3>4, Emitted
    <3>6. g = f
      BY <3>2, <3>4, <3>5
    <3> QED
      BY <3>2, <3>4, <3>6
  <2> QED
    BY <1>3, <2>1 DEF Refuse, NoneLost, reader
<1>4. CASE StartDecompress(f) \/ DecompressOk(f) \/ Slot(f)
  <2>1. /\ UNCHANGED <<inputs, reader, head, eof, cancelled, main>>
        /\ phase[f] \in {"queued", "running", "decoded", "failed"}
        /\ \E ph \in {"running", "decoded", "slotted"} :
             /\ phase' = [phase EXCEPT ![f] = ph]
             /\ ph = "decoded" => file[f] = "ok"
             /\ ph = "slotted" => phase[f] \in {"decoded", "failed"}
    BY <1>4 DEF StartDecompress, DecompressOk, Slot
  <2>2. PICK ph \in {"running", "decoded", "slotted"} :
             /\ phase' = [phase EXCEPT ![f] = ph]
             /\ ph = "decoded" => file[f] = "ok"
             /\ ph = "slotted" => phase[f] \in {"decoded", "failed"}
    BY <2>1
  <2>3. ~cancelled => FramesKept'
    <3> SUFFICES ASSUME ~cancelled PROVE FramesKept'
      OBVIOUS
    <3>1. FramesKept
      BY DEF NoneLost
    <3>2. /\ f \in 1..pos /\ f > head
          /\ phase[f] \in {"decoded", "failed"} => file[f] = "ok"
      BY <2>1, <3>1, Emitted
    <3>3. head \in Nat /\ processed \in Nat /\ processed <= head /\ phase \in [Frames -> Phases]
      BY DEF IInv, TypeOK, NumberInv
    <3>4. phase'[f] = ph /\ \A g \in 1..pos : g # f => phase'[g] = phase[g]
      <4>1. 1..pos \subseteq Frames
        BY StreamFacts, MaxFramesAssumption DEF IInv, TypeOK, Frames
      <4> QED
        BY <2>2, <3>3, <4>1
    <3>5. ASSUME NEW g \in 1..pos
          PROVE  /\ phase'[g] # "dropped"
                 /\ phase'[g] = "gone" <=> g <= processed
                 /\ phase'[g] \in {"decoded", "failed", "slotted", "taken", "gone"} =>
                      file[g] = "ok"
                 /\ g <= head => phase'[g] \in {"taken", "gone"}
      <4>1. CASE g = f
        <5>1. ~(g <= processed) /\ ~(g <= head)
          BY <3>2, <3>3, <4>1
        <5> QED
          BY <2>2, <3>2, <3>4, <4>1, <5>1
      <4>2. CASE g # f
        BY <3>1, <3>4, <4>2 DEF FramesKept
      <4> QED
        BY <4>1, <4>2
    <3> QED
      BY <2>1, <3>1, <3>5 DEF FramesKept, inputs, reader, main
  <2> QED
    BY <2>1, <2>3 DEF NoneLost, reader
<1> QED
  BY <1>1, <1>2, <1>3, <1>4 DEF TaskStep

LEMMA NoneLostMain ==
    ASSUME IInv, NoneLost, MainStep
    PROVE  NoneLost'
<1>types. /\ pos \in Nat /\ head \in Nat /\ processed \in Nat /\ phase \in [Frames -> Phases]
          /\ 1..pos \subseteq Frames
  BY StreamFacts, MaxFramesAssumption DEF IInv, TypeOK, Frames
<1>1. CASE Cleanup
  BY <1>1 DEF Cleanup, NoneLost, reader
<1>2. ASSUME NEW f \in Frames, TryGet(f) PROVE NoneLost'
  <2>1. /\ UNCHANGED <<inputs, reader, eof, cancelled, processed>> /\ head' = head + 1
        /\ phase' = [phase EXCEPT ![f] = "taken"]
        /\ pc = "try" /\ phase[f] = "slotted" /\ num[f] = head
    BY <1>2 DEF TryGet
  <2>2. ~cancelled => FramesKept'
    <3> SUFFICES ASSUME ~cancelled PROVE FramesKept'
      OBVIOUS
    <3>1. FramesKept
      BY DEF NoneLost
    <3>2. f \in 1..pos /\ f = head + 1 /\ file[f] = "ok"
      BY <1>types, <2>1, <3>1, Emitted
    <3>3. processed = head
      BY <2>1 DEF IInv, NumberInv
    <3>4. phase'[f] = "taken" /\ \A g \in 1..pos : g # f => phase'[g] = phase[g]
      BY <1>types, <2>1
    <3>5. ASSUME NEW g \in 1..pos
          PROVE  /\ phase'[g] # "dropped"
                 /\ phase'[g] = "gone" <=> g <= processed
                 /\ phase'[g] \in {"decoded", "failed", "slotted", "taken", "gone"} =>
                      file[g] = "ok"
                 /\ g <= head + 1 => phase'[g] \in {"taken", "gone"}
      <4>1. CASE g = f
        <5>1. ~(g <= processed)
          BY <1>types, <3>2, <3>3, <4>1
        <5> QED
          BY <3>2, <3>4, <4>1, <5>1
      <4>2. CASE g # f
        <5>1. g <= head + 1 => g <= head
          BY <1>types, <3>2, <4>2
        <5> QED
          BY <3>1, <3>4, <4>2, <5>1 DEF FramesKept
      <4> QED
        BY <4>1, <4>2
    <3>6. head + 1 <= pos
      BY <3>2
    <3> QED
      BY <2>1, <3>5, <3>6 DEF FramesKept, inputs, reader
  <2> QED
    BY <2>1, <2>2 DEF NoneLost, reader
<1>3. ASSUME NEW f \in Frames, SwapBlock(f) PROVE NoneLost'
  <2>1. /\ UNCHANGED <<inputs, reader, eof, cancelled, head>> /\ processed' = processed + 1
        /\ phase' = [phase EXCEPT ![f] = "gone"]
        /\ phase[f] = "taken" /\ num[f] = processed
    BY <1>3 DEF SwapBlock, IInv, NumberInv
  <2>2. ~cancelled => FramesKept'
    <3> SUFFICES ASSUME ~cancelled PROVE FramesKept'
      OBVIOUS
    <3>1. FramesKept
      BY DEF NoneLost
    <3>2. f \in 1..pos /\ f = processed + 1 /\ file[f] = "ok"
      BY <1>types, <2>1, <3>1, Emitted
    <3>3. phase'[f] = "gone" /\ \A g \in 1..pos : g # f => phase'[g] = phase[g]
      BY <1>types, <2>1
    <3>4. ASSUME NEW g \in 1..pos
          PROVE  /\ phase'[g] # "dropped"
                 /\ phase'[g] = "gone" <=> g <= processed + 1
                 /\ phase'[g] \in {"decoded", "failed", "slotted", "taken", "gone"} =>
                      file[g] = "ok"
                 /\ g <= head => phase'[g] \in {"taken", "gone"}
      <4>1. CASE g = f
        <5>1. g <= processed + 1
          BY <1>types, <3>2, <4>1
        <5> QED
          BY <3>2, <3>3, <4>1, <5>1
      <4>2. CASE g # f
        <5>1. g <= processed + 1 <=> g <= processed
          BY <1>types, <3>2, <4>2
        <5> QED
          BY <3>1, <3>3, <4>2, <5>1 DEF FramesKept
      <4> QED
        BY <4>1, <4>2
    <3> QED
      BY <2>1, <3>1, <3>4 DEF FramesKept, inputs, reader
  <2> QED
    BY <2>1, <2>2 DEF NoneLost, reader
<1>4. ASSUME UNCHANGED <<graph, processed>> PROVE NoneLost'
  BY <1>4 DEF graph, inputs, reader, frames, NoneLost, FramesKept
<1>5. CASE \/ NeedBlock \/ TryGetFails \/ CheckEof \/ CheckCount \/ CheckCancelled
           \/ RejectBlock \/ CleanupThrow \/ Finish \/ LimitThrow
  BY <1>4, <1>5 DEF NeedBlock, TryGetFails, CheckEof, CheckCount, CheckCancelled, RejectBlock,
     CleanupThrow, Finish, LimitThrow
<1> QED
  BY <1>1, <1>2, <1>3, <1>5 DEF MainStep

\* When nothing runs but main, the frame it awaits is with the sequencer.
LEMMA AwaitedIsThere ==
    ASSUME IInv, NoneLost
    PROVE  PollingEnds
<1> SUFFICES ASSUME Polling, Idle, ~cancelled, processed < toProcess
             PROVE  \E f \in Frames : phase[f] = "slotted" /\ num[f] = head
  <2>1. Idle => eof \/ cancelled
    BY DEF Idle, NoneLost
  <2>2. processed < toProcess \/ processed >= toProcess
    BY DEF IInv, TypeOK
  <2> QED
    BY <2>1, <2>2 DEF PollingEnds, WayOut
<1>1. FramesKept
  BY DEF NoneLost
<1>2. /\ pos \in Nat /\ processed \in Nat /\ processed < pos /\ head = processed
      /\ 1..pos \subseteq Frames /\ phase \in [Frames -> Phases]
  BY StreamFacts, MaxFramesAssumption
     DEF IInv, TypeOK, ReaderInv, NumberInv, Polling, Frames
<1>3. PICK f \in 1..pos : f = processed + 1
  BY <1>2
<1>4. f \in Frames /\ phase[f] \notin {"none", "reading"}
  BY <1>2 DEF IInv, ReaderInv
<1>5. phase[f] \notin {"queued", "running", "decoded", "failed"}
  BY <1>4 DEF Idle
<1>6. phase[f] # "taken"
  BY <1>4 DEF IInv, NumberInv, Polling
<1>7. phase[f] # "dropped" /\ phase[f] # "gone"
  <2>1. ~(f <= processed)
    BY <1>2, <1>3
  <2> QED
    BY <1>1, <2>1 DEF FramesKept
<1>8. phase[f] = "slotted"
  BY <1>2, <1>4, <1>5, <1>6, <1>7 DEF Phases
<1>9. num[f] = f - 1
  BY <1>1, <1>4, <1>8, Emitted
<1> QED
  BY <1>2, <1>3, <1>4, <1>8, <1>9

\* get_new_block never polls forever for a block that cannot come: once no task
\* of the graph is left, the awaited block is in the sequencer, or the flag and
\* the count tell the end of the stream, or the group is cancelled.
THEOREM NeverPollsInVain == Spec => []PollingEnds
<1>1. Init => NoneLost
  <2>1. Init => 1..pos = {} /\ head <= pos
    BY DEF Init
  <2> QED
    BY <2>1 DEF Init, NoneLost, FramesKept
<1>2. IInv /\ NoneLost /\ [Next]_vars => NoneLost'
  <2> SUFFICES ASSUME IInv, NoneLost, [Next]_vars PROVE NoneLost'
    OBVIOUS
  <2>1. CASE UNCHANGED vars
    BY <2>1 DEF vars, inputs, reader, frames, main, NoneLost, FramesKept
  <2>2. CASE GraphStep
    BY <2>2, NoneLostReader, NoneLostTask DEF GraphStep
  <2>3. CASE MainStep
    BY <2>3, NoneLostMain
  <2> QED
    BY <2>1, <2>2, <2>3 DEF Next, Terminated
<1>3. IInv /\ NoneLost => PollingEnds
  BY AwaitedIsThere
<1> QED
  BY <1>1, <1>2, <1>3, Invariance, PTL DEF Spec

================================================================================
