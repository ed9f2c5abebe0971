---------------------------- MODULE BlockCodec_proofs ----------------------------
(***************************************************************************)
(* BlockCodec for blocks and calls of any size, checked by TLAPS.  The     *)
(* writer never writes outside its block, and every frame it stores fits   *)
(* the reader's buffer and is, but for the last, at least MIN_BLOCKSIZE    *)
(* long.  The reader returns the bytes that were pushed, all of them when  *)
(* the stream arrives whole, and takes no stream that was cut short for a  *)
(* whole one.                                                              *)
(***************************************************************************)
EXTENDS BlockCodec, TLAPS, SequenceTheorems

\* The blocks that may be stored before the last one.
Full == {b \in Seq(Nat) : Len(b) \in MinBlock..MaxBlock}

WriterInv ==
    /\ pushed \in Nat
    /\ block \in Seq(Nat) /\ Len(block) <= MaxBlock
    /\ mode = "write" => frames \in Seq(Full)
    /\ FrameSizes

LEMMA Sizes == /\ MaxBlock \in Nat /\ MinBlock \in Nat /\ 0 < MinBlock /\ MinBlock < MaxBlock
               /\ MinBlock + Reserve = MaxBlock /\ Reserve \in Nat
  BY SizesAssumption DEF MinBlock

LEMMA FullFrames ==
    ASSUME NEW f \in Seq(Full)
    PROVE  \A i \in 1..Len(f) : Len(f[i]) \in 1..MaxBlock /\ Len(f[i]) >= MinBlock
<1> SUFFICES ASSUME NEW i \in 1..Len(f)
             PROVE  Len(f[i]) \in 1..MaxBlock /\ Len(f[i]) >= MinBlock
  OBVIOUS
<1>1. f[i] \in Full
  OBVIOUS
<1>2. Len(f[i]) \in MinBlock..MaxBlock
  BY <1>1 DEF Full
<1> QED
  BY <1>2, Sizes

\* flush() of a block that is in bounds.
LEMMA FlushFacts ==
    ASSUME NEW b \in Seq(Nat), Len(b) <= MaxBlock
    PROVE  /\ FlushFull(b) \in Seq(Full)
           /\ AfterFull(b) \in Seq(Nat) /\ Len(AfterFull(b)) <= Len(b)
<1>1. CASE Len(b) >= MaxBlock
  <2>1. b \in Full
    BY <1>1, Sizes DEF Full
  <2>2. <<b>> \in Seq(Full)
    BY <2>1
  <2> QED
    BY <1>1, <2>2, Sizes DEF FlushFull, AfterFull
<1>2. CASE ~(Len(b) >= MaxBlock)
  BY <1>2, Sizes DEF FlushFull, AfterFull
<1> QED
  BY <1>1, <1>2

LEMMA BytesSeq ==
    ASSUME NEW k \in Nat, NEW n \in Nat
    PROVE  Bytes(k, n) \in Seq(Nat) /\ Len(Bytes(k, n)) = n
<1>1. \A i \in 1..n : k + i \in Nat
  OBVIOUS
<1>2. Bytes(k, n) \in [1..n -> Nat]
  BY <1>1 DEF Bytes
<1> QED
  BY <1>2

LEMMA DivMod ==
    ASSUME NEW n \in Nat, NEW d \in Nat, d > 0
    PROVE  n \div d \in Nat /\ n % d \in Nat /\ n % d < d
  OBVIOUS

\* push_data keeps the block in its buffer and stores full blocks only.
LEMMA PushDataStep ==
    ASSUME WriterInv, NEW n \in Lengths, PushData(n)
    PROVE  WriterInv'
<1> USE Sizes
<1> DEFINE start  == AfterFull(block)
           joined == Joined(start, n)
           filled == start \o Bytes(pushed, joined)
           rest   == n - joined
           whole  == rest \div MaxBlock
           left   == rest % MaxBlock
           direct == [i \in 1..whole |-> Bytes(pushed + joined + (i - 1) * MaxBlock, MaxBlock)]
<1>n. n \in Nat
  BY SizesAssumption
<1>1. start \in Seq(Nat) /\ Len(start) <= MaxBlock /\ FlushFull(block) \in Seq(Full)
  <2>1. block \in Seq(Nat) /\ Len(block) <= MaxBlock
    BY DEF WriterInv
  <2>2. Len(AfterFull(block)) \in Nat
    BY <2>1, FlushFacts
  <2> QED
    BY <2>1, <2>2, FlushFacts
<1>2. joined \in Nat /\ joined <= n /\ Len(start) + joined <= MaxBlock
  <2> HIDE DEF start
  <2> QED
    BY <1>1, <1>n DEF Joined
<1>3. filled \in Seq(Nat) /\ Len(filled) = Len(start) + joined
  <2>1. Bytes(pushed, joined) \in Seq(Nat) /\ Len(Bytes(pushed, joined)) = joined
    BY <1>2, BytesSeq DEF WriterInv
  <2> DEFINE new == Bytes(pushed, joined)
  <2>2. new \in Seq(Nat) /\ Len(new) = joined
    BY <2>1
  <2> HIDE DEF start, joined, new
  <2>3. start \o new \in Seq(Nat) /\ Len(start \o new) = Len(start) + Len(new)
    BY <1>1, <2>2
  <2> QED
    BY <2>2, <2>3 DEF new
<1>4. FlushFull(filled) \in Seq(Full) /\ AfterFull(filled) \in Seq(Nat)
      /\ Len(AfterFull(filled)) <= MaxBlock
  <2>1. Len(start) \in Nat
    BY <1>1
  <2> HIDE DEF filled, start, joined
  <2>2. filled \in Seq(Nat) /\ Len(filled) <= MaxBlock
    BY <1>2, <1>3
  <2>3. FlushFull(filled) \in Seq(Full) /\ AfterFull(filled) \in Seq(Nat)
        /\ Len(AfterFull(filled)) <= Len(filled)
    BY <2>2, FlushFacts
  <2>4. Len(AfterFull(filled)) \in Nat /\ Len(filled) \in Nat
    BY <2>2, <2>3
  <2> QED
    BY <2>2, <2>3, <2>4
<1>5. rest \in Nat /\ whole \in Nat /\ left \in Nat /\ left < MaxBlock /\ left <= n
  <2>1. rest \in Nat /\ rest <= n
    <3> HIDE DEF joined
    <3> QED
      BY <1>2, <1>n
  <2>2. whole \in Nat /\ left \in Nat /\ left < MaxBlock
    <3> HIDE DEF rest
    <3> QED
      BY <2>1, DivMod
  <2>3. left <= rest
    <3> HIDE DEF rest
    <3> QED
      BY <2>1
  <2> HIDE DEF rest, left, whole
  <2> QED
    BY <2>1, <2>2, <2>3, <1>n
<1>6. direct \in Seq(Full)
  <2> HIDE DEF joined, whole, start
  <2>1. ASSUME NEW i \in 1..whole
        PROVE  Bytes(pushed + joined + (i - 1) * MaxBlock, MaxBlock) \in Full
    <3>1. (i - 1) * MaxBlock \in Nat
      BY <1>5
    <3>2. pushed + joined + (i - 1) * MaxBlock \in Nat
      BY <3>1, <1>2 DEF WriterInv
    <3> DEFINE m == pushed + joined + (i - 1) * MaxBlock
    <3>3. Bytes(m, MaxBlock) \in Seq(Nat) /\ Len(Bytes(m, MaxBlock)) = MaxBlock
      BY <3>2, BytesSeq
    <3> HIDE DEF m
    <3>4. Bytes(m, MaxBlock) \in Full
      BY <3>3 DEF Full
    <3> QED
      BY <3>4 DEF m
  <2>2. direct \in [1..whole -> Full]
    BY <2>1
  <2> HIDE DEF direct
  <2> QED
    BY <2>2, <1>5
<1>7. /\ mode = "write" /\ mode' = "write" /\ pushed' = pushed + n
      /\ frames' = frames \o FlushFull(block) \o FlushFull(filled) \o direct
      /\ block' = IF left > 0 THEN Bytes(pushed + n - left, left) ELSE AfterFull(filled)
  BY DEF PushData
<1> HIDE DEF start, joined, filled, rest, whole, left, direct
<1>8. frames' \in Seq(Full)
  BY <1>1, <1>4, <1>6, <1>7 DEF WriterInv
<1>9. block' \in Seq(Nat) /\ Len(block') <= MaxBlock
  <2>1. pushed + n - left \in Nat
    BY <1>5, <1>n DEF WriterInv
  <2> QED
    BY <2>1, <1>4, <1>5, <1>7, BytesSeq
<1>10. FrameSizes'
  BY <1>7, <1>8, FullFrames DEF FrameSizes
<1> QED
  BY <1>7, <1>8, <1>9, <1>10, <1>n DEF WriterInv

\* push_pod leaves room for the whole header.
LEMMA PushHeaderStep ==
    ASSUME WriterInv, NEW h \in Headers, PushHeader(h)
    PROVE  WriterInv'
<1> USE Sizes
<1>h. h \in Nat /\ h <= Reserve
  BY SizesAssumption
<1>1. /\ mode = "write" /\ mode' = "write" /\ pushed' = pushed + h
      /\ frames' = IF Crowded(block) THEN Append(frames, block) ELSE frames
      /\ block' = (IF Crowded(block) THEN << >> ELSE block) \o Bytes(pushed, h)
  BY DEF PushHeader
<1>2. frames' \in Seq(Full)
  BY <1>1 DEF WriterInv, Crowded, Full
<1>3. block' \in Seq(Nat) /\ Len(block') <= MaxBlock
  <2>1. Bytes(pushed, h) \in Seq(Nat) /\ Len(Bytes(pushed, h)) = h
    BY <1>h, BytesSeq DEF WriterInv
  <2>2. CASE Crowded(block)
    BY <1>1, <1>h, <2>1, <2>2
  <2>3. CASE ~Crowded(block)
    BY <1>1, <1>h, <2>1, <2>3 DEF WriterInv, Crowded
  <2> QED
    BY <2>2, <2>3
<1>4. FrameSizes'
  BY <1>1, <1>2, FullFrames DEF FrameSizes
<1> QED
  BY <1>1, <1>2, <1>3, <1>4, <1>h DEF WriterInv

\* finish() stores what is left, which may be a short block.
LEMMA FinishStep ==
    ASSUME WriterInv, FinishWrite
    PROVE  WriterInv'
<1> USE Sizes
<1>1. /\ mode = "write" /\ mode' = "written" /\ pushed' = pushed /\ block' = << >>
      /\ frames' = IF block = << >> THEN frames ELSE Append(frames, block)
  BY DEF FinishWrite, reader
<1>2. CASE block = << >>
  BY <1>1, <1>2 DEF WriterInv, FrameSizes
<1>3. CASE block # << >>
  <2>1. Len(block) \in 1..MaxBlock
    BY <1>3 DEF WriterInv
  <2>2. /\ Len(frames') = Len(frames) + 1 /\ frames'[Len(frames) + 1] = block
        /\ \A i \in 1..Len(frames) : frames'[i] = frames[i]
        /\ Len(frames) \in Nat
    BY <1>1, <1>3 DEF WriterInv
  <2>3. \A i \in 1..Len(frames) : Len(frames[i]) \in MinBlock..MaxBlock
    BY <1>1 DEF WriterInv, Full
  <2> QED
    BY <1>1, <2>1, <2>2, <2>3 DEF WriterInv, FrameSizes
<1> QED
  BY <1>2, <1>3

\* The writer's block and the frames in the stream at every step.
THEOREM WriterInvariance == Spec => []WriterInv
<1>1. Init => WriterInv
  BY Sizes DEF Init, WriterInv, FrameSizes
<1>2. WriterInv /\ [Next]_vars => WriterInv'
  <2> SUFFICES ASSUME WriterInv, [Next]_vars PROVE WriterInv'
    OBVIOUS
  <2>1. CASE WriterStep
    <3>1. CASE Arrive
      BY <3>1 DEF Arrive, WriterInv, FrameSizes
    <3> QED
      BY <2>1, <3>1, PushDataStep, PushHeaderStep, FinishStep DEF WriterStep
  <2>2. CASE ReaderStep
    <3>1. UNCHANGED writer /\ mode # "write" /\ mode' # "write"
      BY <2>2 DEF ReaderStep, GetData, GetWhole, GetRest, GetDone, GetDataFails, GetHeader,
         GetHeaderFails, FinishRead, Throw, writer
    <3> QED
      BY <3>1 DEF writer, WriterInv, FrameSizes
  <2>3. CASE UNCHANGED vars
    BY <2>3 DEF vars, writer, WriterInv, FrameSizes
  <2> QED
    BY <2>1, <2>2, <2>3 DEF Next, Terminated
<1> QED
  BY <1>1, <1>2, PTL DEF Spec

\* No memcpy of the writer leaves its block.
THEOREM BlockNeverOverrun == Spec => []BlockFits
<1>1. WriterInv => BlockFits
  BY DEF WriterInv, BlockFits
<1> QED
  BY <1>1, WriterInvariance, PTL

\* Every frame fits the reader's buffer, and only the last is short.
THEOREM FramesWellSized == Spec => []FrameSizes
<1>1. WriterInv => FrameSizes
  BY DEF WriterInv
<1> QED
  BY <1>1, WriterInvariance, PTL
--------------------------------------------------------------------------------
(* Runs of consecutive bytes                                                *)

Start(x) == x[1] - 1
End(x) == Start(x) + Len(x)
Run(x) == x \in Seq(Nat) /\ x # << >> /\ Start(x) \in Nat /\ x = Bytes(Start(x), Len(x))

LEMMA BytesAt ==
    ASSUME NEW k \in Nat, NEW n \in Nat
    PROVE  /\ Bytes(k, n) \in Seq(Nat) /\ Len(Bytes(k, n)) = n
           /\ \A i \in 1..n : Bytes(k, n)[i] = k + i
           /\ n = 0 <=> Bytes(k, n) = << >>
<1>1. Bytes(k, n) \in Seq(Nat) /\ Len(Bytes(k, n)) = n
  BY BytesSeq
<1>2. \A i \in 1..n : Bytes(k, n)[i] = k + i
  BY DEF Bytes
<1> DEFINE x == Bytes(k, n)
<1>3. x \in Seq(Nat) /\ Len(x) = n
  BY <1>1
<1> HIDE DEF x
<1>4. n = 0 <=> x = << >>
  BY <1>3
<1> QED
  BY <1>1, <1>2, <1>4 DEF x

\* A sequence is a run when its elements are consecutive numbers.
LEMMA BytesBy ==
    ASSUME NEW x \in Seq(Nat), NEW k \in Nat, \A i \in 1..Len(x) : x[i] = k + i
    PROVE  x = Bytes(k, Len(x))
<1> DEFINE y == Bytes(k, Len(x))
<1>1. Len(x) \in Nat
  OBVIOUS
<1>2. y \in Seq(Nat) /\ Len(y) = Len(x) /\ \A i \in 1..Len(x) : y[i] = k + i
  BY <1>1, BytesAt
<1> HIDE DEF y
<1>3. x = y
  BY <1>2, SeqEqual
<1> QED
  BY <1>3 DEF y

LEMMA RunFacts ==
    ASSUME NEW k \in Nat, NEW n \in Nat, n > 0
    PROVE  /\ Run(Bytes(k, n)) /\ Start(Bytes(k, n)) = k /\ End(Bytes(k, n)) = k + n
           /\ Len(Bytes(k, n)) = n
<1> DEFINE x == Bytes(k, n)
<1>1. x \in Seq(Nat) /\ Len(x) = n /\ x # << >> /\ x[1] = k + 1
  BY BytesAt
<1>2. Start(x) = k
  <2> HIDE DEF x
  <2> QED
    BY <1>1 DEF Start
<1> HIDE DEF x
<1>3. x = Bytes(k, n)
  BY DEF x
<1>4. Run(x) /\ Start(x) = k /\ End(x) = k + n /\ Len(x) = n
  BY <1>1, <1>2, <1>3 DEF Run, End
<1> QED
  BY <1>4 DEF x

LEMMA BytesJoin ==
    ASSUME NEW k \in Nat, NEW m \in Nat, NEW n \in Nat
    PROVE  Bytes(k, m) \o Bytes(k + m, n) = Bytes(k, m + n)
<1> DEFINE a == Bytes(k, m)
           b == Bytes(k + m, n)
           x == a \o b
<1>1. k + m \in Nat /\ m + n \in Nat
  OBVIOUS
<1>2. /\ a \in Seq(Nat) /\ Len(a) = m /\ \A i \in 1..m : a[i] = k + i
      /\ b \in Seq(Nat) /\ Len(b) = n /\ \A i \in 1..n : b[i] = k + m + i
  BY <1>1, BytesAt
<1> HIDE DEF a, b
<1>3. /\ x \in Seq(Nat) /\ Len(x) = m + n
      /\ \A i \in 1..m : x[i] = a[i]
      /\ \A i \in (m + 1)..(m + n) : x[i] = b[i - m]
  <2>1. x \in Seq(Nat) /\ Len(x) = Len(a) + Len(b)
    BY <1>2
  <2>2. \A i \in 1..Len(x) : x[i] = IF i <= Len(a) THEN a[i] ELSE b[i - Len(a)]
    BY <1>2, ConcatProperties
  <2> HIDE DEF x
  <2> QED
    BY <1>2, <2>1, <2>2
<1> HIDE DEF x
<1>4. \A i \in 1..Len(x) : x[i] = k + i
  <2> SUFFICES ASSUME NEW i \in 1..Len(x) PROVE x[i] = k + i
    OBVIOUS
  <2>1. CASE i <= m
    BY <1>2, <1>3, <2>1
  <2>2. CASE i > m
    <3>1. i - m \in 1..n /\ i \in (m + 1)..(m + n)
      BY <1>3, <2>2
    <3> QED
      BY <1>2, <1>3, <3>1
  <2> QED
    BY <2>1, <2>2
<1>5. x = Bytes(k, m + n)
  BY <1>3, <1>4, BytesBy
<1> QED
  BY <1>5 DEF x, a, b

LEMMA NextBytes ==
    ASSUME NEW s \in Nat, NEW n \in Nat
    PROVE  Bytes(0, s) \o Bytes(s, n) = Bytes(0, s + n)
<1>1. \A k \in Nat : Bytes(k, s) \o Bytes(k + s, n) = Bytes(k, s + n)
  BY BytesJoin
<1>2. 0 + s = s
  OBVIOUS
<1> QED
  BY <1>1, <1>2

LEMMA BytesPart ==
    ASSUME NEW k \in Nat, NEW n \in Nat, NEW o \in Nat, NEW m \in Nat, o + m <= n
    PROVE  SubSeq(Bytes(k, n), o + 1, o + m) = Bytes(k + o, m)
<1> DEFINE a == Bytes(k, n)
           x == SubSeq(a, o + 1, o + m)
<1>1. a \in Seq(Nat) /\ Len(a) = n /\ \A i \in 1..n : a[i] = k + i
  BY BytesAt
<1> HIDE DEF a
<1>2. /\ x \in Seq(Nat) /\ Len(x) = m /\ \A i \in 1..m : x[i] = a[o + i]
  <2>1. x \in Seq(Nat)
    BY <1>1
  <2>2. Len(x) = m
    BY <1>1
  <2>3. \A i \in 1..m : x[i] = a[o + i]
    BY <1>1
  <2> QED
    BY <2>1, <2>2, <2>3
<1> HIDE DEF x
<1>3. \A i \in 1..Len(x) : x[i] = (k + o) + i
  BY <1>1, <1>2
<1>4. x = Bytes(k + o, m)
  BY <1>2, <1>3, BytesBy
<1> QED
  BY <1>4 DEF x, a

--------------------------------------------------------------------------------
(* Where the writer cuts                                                    *)

\* The frames are runs that follow each other, and reach so far.
Chain(f) ==
    \A k \in 1..Len(f) : Run(f[k]) /\ Start(f[k]) = IF k = 1 THEN 0 ELSE End(f[k - 1])
Reach(f) == IF f = << >> THEN 0 ELSE End(f[Len(f)])

\* A piece of the stream suits the calls, data and headers by the bytes they
\* begin and end at: a piece that begins within the data of a call is whole or
\* holds the rest of it, and no piece ends within a header.
Suits(x, data, headers) ==
    /\ Len(x) <= MaxBlock
    /\ \A c \in data : c[1] <= Start(x) /\ Start(x) < c[2] =>
                         Len(x) = MaxBlock \/ Len(x) >= c[2] - Start(x)
    /\ \A c \in headers : ~(c[1] < End(x) /\ End(x) < c[2])

\* Frames f and the writer's block b, after p bytes.
Layout(f, b, p, data, headers) ==
    /\ f \in Seq(Seq(Nat)) /\ b \in Seq(Nat) /\ p \in Nat
    /\ Chain(f) /\ Reach(f) \in Nat
    /\ b = Bytes(Reach(f), Len(b)) /\ Reach(f) + Len(b) = p
    /\ \A k \in 1..Len(f) : End(f[k]) <= p /\ Suits(f[k], data, headers)
    /\ b # << >> => Suits(b, data, headers)

\* Calls, by the bytes they begin and end at, none beyond p.
UpTo(p) == {c \in Nat \X Nat : c[2] <= p}

LEMMA BlockRun ==
    ASSUME NEW f, NEW b, NEW p, NEW D, NEW H, Layout(f, b, p, D, H), b # << >>
    PROVE  Run(b) /\ Start(b) = Reach(f) /\ End(b) = p /\ Len(b) \in Nat /\ Len(b) > 0
<1>1. Len(b) \in Nat /\ Len(b) > 0
  BY DEF Layout
<1>2. Run(Bytes(Reach(f), Len(b))) /\ Start(Bytes(Reach(f), Len(b))) = Reach(f)
      /\ End(Bytes(Reach(f), Len(b))) = Reach(f) + Len(b)
  BY <1>1, RunFacts DEF Layout
<1> QED
  BY <1>1, <1>2 DEF Layout

\* One more run at the end of a chain.
LEMMA ChainAppend ==
    ASSUME NEW f \in Seq(Seq(Nat)), Chain(f), NEW x \in Seq(Nat), Run(x), Start(x) = Reach(f)
    PROVE  /\ Append(f, x) \in Seq(Seq(Nat)) /\ Chain(Append(f, x))
           /\ Reach(Append(f, x)) = End(x)
<1> DEFINE g == Append(f, x)
           n == Len(f)
<1>1. n \in Nat
  OBVIOUS
<1>2. /\ g \in Seq(Seq(Nat)) /\ Len(g) = n + 1 /\ g[n + 1] = x
      /\ \A k \in 1..n : g[k] = f[k]
  OBVIOUS
<1>3. n = 0 <=> f = << >>
  OBVIOUS
<1> HIDE DEF g, n
<1>4. Chain(g)
  <2> SUFFICES ASSUME NEW k \in 1..(n + 1)
               PROVE  Run(g[k]) /\ Start(g[k]) = IF k = 1 THEN 0 ELSE End(g[k - 1])
    BY <1>2 DEF Chain
  <2>1. CASE k <= n
    <3>1. k \in 1..n /\ (k # 1 => k - 1 \in 1..n)
      BY <1>1, <2>1
    <3>2. g[k] = f[k] /\ (k # 1 => g[k - 1] = f[k - 1])
      BY <1>2, <3>1
    <3> QED
      BY <3>1, <3>2 DEF Chain, n
  <2>2. CASE k = n + 1
    <3>1. CASE n = 0
      BY <1>2, <1>3, <2>2, <3>1 DEF Reach
    <3>2. CASE n > 0
      <4>1. f # << >> /\ Reach(f) = End(f[n])
        BY <1>1, <1>3, <3>2 DEF Reach, n
      <4>2. g[k - 1] = f[n] /\ k # 1
        BY <1>1, <1>2, <2>2, <3>2
      <4> QED
        BY <1>2, <2>2, <4>1, <4>2
    <3> QED
      BY <1>1, <3>1, <3>2
  <2> QED
    BY <1>1, <2>1, <2>2
<1>5. Reach(g) = End(x)
  <2>1. g # << >>
    BY <1>1, <1>2
  <2> QED
    BY <1>2, <2>1 DEF Reach
<1> QED
  BY <1>2, <1>4, <1>5 DEF g

\* The block is stored as it is.
LEMMA LayoutStore ==
    ASSUME NEW f, NEW b, NEW p, NEW D, NEW H, Layout(f, b, p, D, H), b # << >>
    PROVE  Layout(Append(f, b), << >>, p, D, H)
<1> DEFINE g == Append(f, b)
<1>1. Run(b) /\ Start(b) = Reach(f) /\ End(b) = p
  BY BlockRun
<1>2. f \in Seq(Seq(Nat)) /\ b \in Seq(Nat) /\ p \in Nat /\ Chain(f) /\ Suits(b, D, H)
  BY DEF Layout
<1>3. g \in Seq(Seq(Nat)) /\ Chain(g) /\ Reach(g) = p
  BY <1>1, <1>2, ChainAppend
<1>4. \A k \in 1..Len(g) : End(g[k]) <= p /\ Suits(g[k], D, H)
  <2> SUFFICES ASSUME NEW k \in 1..Len(g) PROVE End(g[k]) <= p /\ Suits(g[k], D, H)
    OBVIOUS
  <2>1. Len(f) \in Nat /\ Len(g) = Len(f) + 1 /\ g[Len(f) + 1] = b
        /\ \A i \in 1..Len(f) : g[i] = f[i]
    BY <1>2
  <2> HIDE DEF g
  <2>2. CASE k \in 1..Len(f)
    BY <2>1, <2>2 DEF Layout
  <2>3. CASE k = Len(f) + 1
    BY <1>1, <1>2, <2>1, <2>3
  <2> QED
    BY <2>1, <2>2, <2>3
<1>5. Bytes(Reach(g), 0) = << >> /\ Len(<< >>) = 0 /\ << >> \in Seq(Nat)
  BY <1>2, <1>3, BytesAt
<1> HIDE DEF g
<1>6. Layout(g, << >>, p, D, H)
  BY <1>2, <1>3, <1>4, <1>5 DEF Layout
<1> QED
  BY <1>6 DEF g

\* flush() of a full block.
LEMMA LayoutFlush ==
    ASSUME NEW f, NEW b, NEW p, NEW D, NEW H, Layout(f, b, p, D, H)
    PROVE  Layout(f \o FlushFull(b), AfterFull(b), p, D, H)
<1>1. f \in Seq(Seq(Nat)) /\ b \in Seq(Nat)
  BY DEF Layout
<1>2. CASE Len(b) >= MaxBlock
  <2>1. b # << >>
    BY <1>1, <1>2, Sizes
  <2>2. f \o <<b>> = Append(f, b)
    BY <1>1
  <2> QED
    BY <1>2, <2>1, <2>2, LayoutStore DEF FlushFull, AfterFull
<1>3. CASE ~(Len(b) >= MaxBlock)
  <2>1. f \o << >> = f
    BY <1>1
  <2> QED
    BY <1>3, <2>1 DEF FlushFull, AfterFull
<1> QED
  BY <1>2, <1>3

\* A new block is begun with the last n bytes of the calls so far.
LEMMA LayoutBegin ==
    ASSUME NEW f, NEW p, NEW n \in 1..MaxBlock,
           NEW D \in SUBSET UpTo(p + n), NEW H \in SUBSET UpTo(p + n),
           Layout(f, << >>, p, D, H)
    PROVE  Layout(f, Bytes(p, n), p + n, D, H)
<1> DEFINE b == Bytes(p, n)
<1>1. n \in Nat /\ n > 0 /\ n <= MaxBlock /\ p \in Nat /\ Reach(f) = p
  BY Sizes DEF Layout
<1>2. b \in Seq(Nat) /\ Len(b) = n /\ Start(b) = p /\ End(b) = p + n
  BY <1>1, RunFacts, BytesSeq
<1>3. b = Bytes(Reach(f), Len(b))
  BY <1>1, <1>2
<1> HIDE DEF b
<1>4. Suits(b, D, H)
  <2>1. \A c \in D : c[2] - Start(b) <= Len(b)
    <3> SUFFICES ASSUME NEW c \in D PROVE c[2] - Start(b) <= Len(b)
      OBVIOUS
    <3>1. c[2] \in Nat /\ c[2] <= p + n
      BY DEF UpTo
    <3> QED
      BY <1>1, <1>2, <3>1
  <2>2. \A c \in D : c[2] \in Nat
    BY DEF UpTo
  <2>3. \A c \in H : c[2] \in Nat /\ c[2] <= p + n
    BY DEF UpTo
  <2> QED
    BY <1>1, <1>2, <2>1, <2>2, <2>3 DEF Suits
<1>5. \A k \in 1..Len(f) : End(f[k]) <= p + n /\ Suits(f[k], D, H)
  <2> SUFFICES ASSUME NEW k \in 1..Len(f) PROVE End(f[k]) <= p + n /\ Suits(f[k], D, H)
    OBVIOUS
  <2>1. End(f[k]) <= p /\ Suits(f[k], D, H) /\ Run(f[k])
    BY DEF Layout, Chain
  <2>2. End(f[k]) \in Int
    BY <2>1 DEF Run, End
  <2> QED
    BY <1>1, <2>1, <2>2
<1>6. Layout(f, b, p + n, D, H)
  BY <1>1, <1>2, <1>3, <1>4, <1>5 DEF Layout
<1> QED
  BY <1>6 DEF b

\* The block is continued.
LEMMA LayoutGrow ==
    ASSUME NEW f, NEW b, NEW p, NEW D \in SUBSET (Nat \X Nat), NEW n \in Nat,
           NEW H \in SUBSET UpTo(p + n), Layout(f, b, p, D, H),
           b # << >>, Len(b) + n <= MaxBlock
    PROVE  Layout(f, b \o Bytes(p, n), p + n, D, H)
<1> DEFINE r == Reach(f)
           m == Len(b)
           x == Bytes(r, m + n)
<1>1. r \in Nat /\ m \in Nat /\ m > 0 /\ p = r + m /\ p \in Nat /\ b = Bytes(r, m)
  BY BlockRun DEF Layout
<1>2. b \o Bytes(p, n) = x
  <2> HIDE DEF r, m
  <2> QED
    BY <1>1, BytesJoin
<1> HIDE DEF r, m
<1>3. x \in Seq(Nat) /\ Len(x) = m + n /\ Start(x) = r /\ End(x) = r + (m + n)
  <2>1. m + n \in Nat /\ m + n > 0
    BY <1>1
  <2> QED
    BY <1>1, <2>1, RunFacts, BytesSeq
<1>4. Start(b) = r /\ Len(b) = m /\ Suits(b, D, H)
  BY BlockRun DEF Layout, r, m
<1>9. x = Bytes(Reach(f), Len(x)) /\ Reach(f) = r
  BY <1>3 DEF r
<1> HIDE DEF x
<1>5. Suits(x, D, H)
  <2>1. MaxBlock \in Nat /\ m + n <= MaxBlock
    BY Sizes, <1>4
  <2>2. \A c \in D : c[1] \in Nat /\ c[2] \in Nat
    OBVIOUS
  <2>3. \A c \in H : c[2] \in Nat /\ c[2] <= p + n
    BY DEF UpTo
  <2>4. \A c \in D : c[1] <= Start(x) /\ Start(x) < c[2] =>
                       Len(x) = MaxBlock \/ Len(x) >= c[2] - Start(x)
    BY <1>1, <1>3, <1>4, <2>1, <2>2 DEF Suits
  <2>5. \A c \in H : ~(c[1] < End(x) /\ End(x) < c[2])
    BY <1>1, <1>3, <2>3
  <2> QED
    BY <1>3, <2>1, <2>4, <2>5 DEF Suits
<1>6. \A k \in 1..Len(f) : End(f[k]) <= p + n /\ Suits(f[k], D, H)
  <2> SUFFICES ASSUME NEW k \in 1..Len(f) PROVE End(f[k]) <= p + n /\ Suits(f[k], D, H)
    OBVIOUS
  <2>1. End(f[k]) <= p /\ Suits(f[k], D, H) /\ Run(f[k])
    BY DEF Layout, Chain
  <2>2. End(f[k]) \in Int
    BY <2>1 DEF Run, End
  <2> QED
    BY <1>1, <2>1, <2>2
<1>7. Reach(f) + Len(x) = p + n /\ p + n \in Nat
  BY <1>1, <1>3, <1>9
<1>8. Layout(f, x, p + n, D, H)
  BY <1>3, <1>5, <1>6, <1>7, <1>9 DEF Layout
<1> QED
  BY <1>2, <1>8

LEMMA Multiples ==
    ASSUME NEW d \in Nat
    PROVE  /\ \A i \in Nat : i * d \in Nat
           /\ \A i, w \in Nat : i <= w => i * d <= w * d
           /\ \A i \in Nat : (i + 1) * d = i * d + d
  OBVIOUS

\* Whole blocks are stored straight from the input.
LEMMA LayoutDirect ==
    ASSUME NEW f, NEW p, NEW w \in Nat, NEW D \in SUBSET (Nat \X Nat),
           NEW H \in SUBSET UpTo(p), Layout(f, << >>, p, D, H)
    PROVE  Layout(f \o [i \in 1..w |-> Bytes(p + (i - 1) * MaxBlock, MaxBlock)], << >>,
                  p + w * MaxBlock, D, H)
<1> DEFINE direct == [i \in 1..w |-> Bytes(p + (i - 1) * MaxBlock, MaxBlock)]
           g == f \o direct
           n == Len(f)
           at(i) == p + i * MaxBlock
<1>1. /\ f \in Seq(Seq(Nat)) /\ n \in Nat /\ p \in Nat /\ Reach(f) = p /\ Chain(f)
      /\ n = 0 <=> f = << >>
  BY DEF Layout
<1>2. /\ \A i \in Nat : at(i) \in Nat /\ p <= at(i) /\ at(i + 1) = at(i) + MaxBlock
      /\ \A i \in 0..w : at(i) <= at(w)
      /\ at(0) = p
  <2>1. MaxBlock \in Nat
    BY Sizes
  <2>2. /\ \A i \in Nat : i * MaxBlock \in Nat
        /\ \A i \in Nat : i <= w => i * MaxBlock <= w * MaxBlock
        /\ \A i \in Nat : (i + 1) * MaxBlock = i * MaxBlock + MaxBlock
    BY <2>1, Multiples
  <2>3. ASSUME NEW i \in Nat
        PROVE  at(i) \in Nat /\ p <= at(i) /\ at(i + 1) = at(i) + MaxBlock
    <3> DEFINE m == i * MaxBlock
    <3>1. m \in Nat /\ (i + 1) * MaxBlock = m + MaxBlock
      BY <2>2
    <3> HIDE DEF m
    <3>2. p + m \in Nat /\ p <= p + m /\ p + (m + MaxBlock) = (p + m) + MaxBlock
      BY <1>1, <2>1, <3>1
    <3> QED
      BY <3>1, <3>2 DEF m
  <2>4. ASSUME NEW i \in 0..w PROVE at(i) <= at(w)
    <3>1. i * MaxBlock \in Nat /\ w * MaxBlock \in Nat /\ i * MaxBlock <= w * MaxBlock
      BY <2>2
    <3> QED
      BY <1>1, <3>1
  <2>5. at(0) = p
    BY <1>1, <2>1
  <2> QED
    BY <2>3, <2>4, <2>5
<1>3. \A i \in 1..w : /\ Run(direct[i]) /\ Start(direct[i]) = at(i - 1) /\ End(direct[i]) = at(i)
                      /\ Len(direct[i]) = MaxBlock
  <2> SUFFICES ASSUME NEW i \in 1..w
               PROVE  /\ Run(direct[i]) /\ Start(direct[i]) = at(i - 1) /\ End(direct[i]) = at(i)
                      /\ Len(direct[i]) = MaxBlock
    OBVIOUS
  <2>1. direct[i] = Bytes(at(i - 1), MaxBlock)
    OBVIOUS
  <2> HIDE DEF at, direct
  <2>2. i - 1 \in Nat /\ (i - 1) + 1 = i
    OBVIOUS
  <2>3. at(i - 1) \in Nat /\ at(i) = at(i - 1) + MaxBlock
    BY <1>2, <2>2
  <2> DEFINE a == at(i - 1)
  <2>4. a \in Nat /\ direct[i] = Bytes(a, MaxBlock) /\ at(i) = a + MaxBlock
    BY <2>1, <2>3
  <2> HIDE DEF a
  <2>5. /\ Run(Bytes(a, MaxBlock)) /\ Start(Bytes(a, MaxBlock)) = a
        /\ End(Bytes(a, MaxBlock)) = a + MaxBlock /\ Len(Bytes(a, MaxBlock)) = MaxBlock
    <3>1. MaxBlock \in Nat /\ MaxBlock > 0
      BY Sizes
    <3> QED
      BY <2>4, <3>1, RunFacts
  <2> QED
    BY <2>4, <2>5 DEF a
<1>4. direct \in Seq(Seq(Nat)) /\ Len(direct) = w
  <2>1. \A i \in 1..w : direct[i] \in Seq(Nat)
    BY <1>3 DEF Run
  <2>2. direct = [i \in 1..w |-> direct[i]]
    OBVIOUS
  <2> HIDE DEF direct
  <2>3. direct \in [1..w -> Seq(Nat)]
    BY <2>1, <2>2
  <2> QED
    BY <2>3
<1> HIDE DEF direct, at
<1>5. /\ g \in Seq(Seq(Nat)) /\ Len(g) = n + w
      /\ \A k \in 1..n : g[k] = f[k]
      /\ \A i \in 1..w : g[n + i] = direct[i]
  <2>1. g \in Seq(Seq(Nat)) /\ Len(g) = Len(f) + Len(direct)
    BY <1>1, <1>4, ConcatProperties
  <2>2. \A k \in 1..Len(g) : g[k] = IF k <= Len(f) THEN f[k] ELSE direct[k - Len(f)]
    BY <1>1, <1>4, ConcatProperties
  <2> HIDE DEF g
  <2>3. \A k \in 1..n : g[k] = f[k]
    BY <1>1, <1>4, <2>1, <2>2
  <2>4. ASSUME NEW i \in 1..w PROVE g[n + i] = direct[i]
    <3>1. n + i \in 1..Len(g) /\ ~(n + i <= Len(f)) /\ (n + i) - Len(f) = i
      BY <1>1, <1>4, <2>1
    <3> QED
      BY <2>2, <3>1
  <2> QED
    BY <1>1, <1>4, <2>1, <2>3, <2>4
<1> HIDE DEF g
<1>6. ASSUME NEW k \in 1..(n + w), ~(k <= n)
      PROVE  k - n \in 1..w /\ g[k] = direct[k - n]
  <2>1. k - n \in 1..w /\ n + (k - n) = k
    BY <1>1, <1>6
  <2> QED
    BY <1>5, <2>1
<1> HIDE DEF n
<1>7. Chain(g)
  <2> SUFFICES ASSUME NEW k \in 1..(n + w)
               PROVE  Run(g[k]) /\ Start(g[k]) = IF k = 1 THEN 0 ELSE End(g[k - 1])
    BY <1>5 DEF Chain
  <2>1. CASE k <= n
    <3>1. k \in 1..n /\ (k # 1 => k - 1 \in 1..n)
      BY <1>1, <2>1
    <3>2. g[k] = f[k] /\ (k # 1 => g[k - 1] = f[k - 1])
      BY <1>5, <3>1
    <3> QED
      BY <1>1, <3>1, <3>2 DEF Chain, n
  <2>2. CASE k = n + 1
    <3>1. k - n = 1 /\ g[k] = direct[1] /\ 1 \in 1..w
      BY <1>1, <1>6, <2>2
    <3>2. Run(g[k]) /\ Start(g[k]) = p
      BY <1>2, <1>3, <3>1
    <3>3. CASE n = 0
      BY <1>1, <2>2, <3>2, <3>3 DEF Reach
    <3>4. CASE n > 0
      <4>1. f # << >> /\ p = End(f[n])
        BY <1>1, <3>4 DEF Reach, n
      <4>2. g[k - 1] = f[n] /\ k # 1
        BY <1>1, <1>5, <2>2, <3>4
      <4> QED
        BY <3>2, <4>1, <4>2
    <3> QED
      BY <1>1, <3>3, <3>4
  <2>3. CASE k > n + 1
    <3>1. k # 1 /\ k - 1 \in 1..(n + w) /\ ~(k <= n) /\ ~(k - 1 <= n) /\ (k - 1) - n = (k - n) - 1
      BY <1>1, <2>3
    <3>2. /\ k - n \in 1..w /\ g[k] = direct[k - n]
          /\ (k - n) - 1 \in 1..w /\ g[k - 1] = direct[(k - n) - 1]
      BY <1>6, <3>1
    <3> QED
      BY <1>3, <3>1, <3>2
  <2> QED
    BY <1>1, <2>1, <2>2, <2>3
<1>8. \A k \in 1..Len(g) : End(g[k]) <= at(w) /\ Suits(g[k], D, H)
  <2> SUFFICES ASSUME NEW k \in 1..(n + w) PROVE End(g[k]) <= at(w) /\ Suits(g[k], D, H)
    BY <1>5
  <2>1. CASE k <= n
    <3>0. k \in 1..n
      BY <1>1, <2>1
    <3>1. k \in 1..n /\ g[k] = f[k]
      BY <1>5, <3>0
    <3>2. End(f[k]) <= p /\ Suits(f[k], D, H) /\ Run(f[k])
      BY <3>1 DEF Layout, Chain, n
    <3>3. End(f[k]) \in Int
      BY <3>2 DEF Run, End
    <3> QED
      BY <1>1, <1>2, <3>1, <3>2, <3>3
  <2>2. CASE ~(k <= n)
    <3> DEFINE i == k - n
    <3>1. i \in 1..w /\ g[k] = direct[i]
      BY <1>6, <2>2
    <3> HIDE DEF i
    <3>2. End(g[k]) = at(i) /\ Len(g[k]) = MaxBlock /\ i \in 0..w /\ i \in Nat
      BY <1>3, <3>1
    <3>3. p <= at(i) /\ at(i) <= at(w) /\ at(i) \in Nat
      BY <1>2, <3>2
    <3>4. \A c \in H : c[2] \in Nat /\ c[2] <= p
      BY DEF UpTo
    <3> QED
      BY <1>1, <3>2, <3>3, <3>4, Sizes DEF Suits
  <2> QED
    BY <2>1, <2>2
<1>9. Reach(g) = at(w)
  <2>1. CASE w = 0
    <3>1. g = f
      <4>1. Len(g) = Len(f) /\ \A k \in 1..Len(f) : g[k] = f[k]
        BY <1>1, <1>5, <2>1 DEF n
      <4> QED
        BY <1>1, <1>5, <4>1, SeqEqual
    <3> QED
      BY <1>1, <1>2, <2>1, <3>1
  <2>2. CASE w > 0
    <3>1. w \in 1..w /\ g # << >> /\ g[Len(g)] = direct[w]
      BY <1>1, <1>5, <2>2
    <3> QED
      BY <1>3, <3>1 DEF Reach
  <2> QED
    BY <2>1, <2>2
<1>10. at(w) \in Nat
  BY <1>2
<1>11. Bytes(at(w), 0) = << >> /\ Len(<< >>) = 0 /\ << >> \in Seq(Nat)
  BY <1>10, BytesAt
<1>12. Layout(g, << >>, at(w), D, H)
  BY <1>5, <1>7, <1>8, <1>9, <1>10, <1>11 DEF Layout
<1> QED
  BY <1>12 DEF g, direct, at

\* A call that begins where the last one has ended is suited by what is there.
LEMMA LayoutCall ==
    ASSUME NEW f, NEW b, NEW p, NEW D, NEW H, NEW e \in Nat, Layout(f, b, p, D, H)
    PROVE  /\ Layout(f, b, p, D \cup {<<p, e>>}, H)
           /\ Layout(f, b, p, D, H \cup {<<p, e>>})
<1>1. ASSUME NEW x, Run(x), End(x) <= p, Suits(x, D, H)
      PROVE  Suits(x, D \cup {<<p, e>>}, H) /\ Suits(x, D, H \cup {<<p, e>>})
  <2>1. p \in Nat
    BY DEF Layout
  <2>2. Start(x) \in Nat /\ Len(x) \in Nat /\ Len(x) > 0 /\ End(x) = Start(x) + Len(x)
    BY <1>1 DEF Run, End
  <2>3. ~(p <= Start(x)) /\ ~(p < End(x))
    BY <1>1, <2>1, <2>2
  <2> QED
    BY <1>1, <2>3 DEF Suits
<1>2. \A k \in 1..Len(f) : Run(f[k]) /\ End(f[k]) <= p /\ Suits(f[k], D, H)
  BY DEF Layout, Chain
<1>3. b # << >> => Run(b) /\ End(b) <= p /\ Suits(b, D, H)
  BY BlockRun DEF Layout
<1> QED
  BY <1>1, <1>2, <1>3 DEF Layout

\* push_data: what fills the block, the whole blocks and the rest.
LEMMA LayoutData ==
    ASSUME NEW f, NEW b, NEW p, NEW n \in Nat, NEW D \in SUBSET UpTo(p), NEW H \in SUBSET UpTo(p),
           Layout(f, b, p, D, H), Len(b) <= MaxBlock
    PROVE  LET start  == AfterFull(b)
               joined == Joined(start, n)
               filled == start \o Bytes(p, joined)
               rest   == n - joined
               whole  == rest \div MaxBlock
               left   == rest % MaxBlock
               direct == [i \in 1..whole |-> Bytes(p + joined + (i - 1) * MaxBlock, MaxBlock)]
           IN  Layout(f \o FlushFull(b) \o FlushFull(filled) \o direct,
                      IF left > 0 THEN Bytes(p + n - left, left) ELSE AfterFull(filled),
                      p + n, D \cup {<<p, p + n>>}, H)
<1> DEFINE start  == AfterFull(b)
           joined == Joined(start, n)
           filled == start \o Bytes(p, joined)
           rest   == n - joined
           whole  == rest \div MaxBlock
           left   == rest % MaxBlock
           direct == [i \in 1..whole |-> Bytes(p + joined + (i - 1) * MaxBlock, MaxBlock)]
           E == D \cup {<<p, p + n>>}
           f1 == f \o FlushFull(b)
           f2 == f1 \o FlushFull(filled)
           q == p + joined
<1>1. p \in Nat /\ b \in Seq(Nat) /\ MaxBlock \in Nat /\ MaxBlock > 0
  BY Sizes DEF Layout
<1>2. Layout(f, b, p, E, H)
  <2> DEFINE e == p + n
  <2>1. e \in Nat
    BY <1>1
  <2> HIDE DEF e
  <2>2. Layout(f, b, p, D \cup {<<p, e>>}, H)
    BY <2>1, LayoutCall
  <2> QED
    BY <2>2 DEF e
<1>3. Layout(f1, start, p, E, H)
  BY <1>2, LayoutFlush
<1>4. start \in Seq(Nat) /\ Len(start) <= MaxBlock /\ Len(start) \in Nat
  <2>1. AfterFull(b) \in Seq(Nat) /\ Len(AfterFull(b)) <= Len(b)
    BY <1>1, FlushFacts
  <2>2. Len(AfterFull(b)) \in Nat /\ Len(b) \in Nat
    BY <1>1, <2>1
  <2> QED
    BY <1>1, <2>1, <2>2
<1> HIDE DEF start
<1>5. joined \in Nat /\ joined <= n /\ Len(start) + joined <= MaxBlock
      /\ (start = << >> => joined = 0)
      /\ (start # << >> /\ joined < n => Len(start) + joined = MaxBlock)
  BY <1>1, <1>4 DEF Joined
<1> HIDE DEF joined
<1>6. /\ E \in SUBSET UpTo(p + n) /\ E \in SUBSET (Nat \X Nat) /\ H \in SUBSET UpTo(p + n)
      /\ H \in SUBSET UpTo(q) /\ q \in Nat /\ q >= p
  BY <1>1, <1>5 DEF UpTo
<1>7. Layout(f1, filled, q, E, H)
  <2>1. CASE start = << >>
    <3>1. joined = 0 /\ Bytes(p, joined) = << >>
      BY <1>1, <1>5, <2>1, BytesAt
    <3>2. filled = start /\ q = p
      BY <1>1, <2>1, <3>1
    <3> QED
      BY <1>3, <3>2
  <2>2. CASE start # << >>
    BY <1>3, <1>5, <1>6, <2>2, LayoutGrow
  <2> QED
    BY <2>1, <2>2
<1>8. filled \in Seq(Nat) /\ Len(filled) = Len(start) + joined
  <2> DEFINE new == Bytes(p, joined)
  <2>1. new \in Seq(Nat) /\ Len(new) = joined
    BY <1>1, <1>5, BytesSeq
  <2> HIDE DEF new
  <2>2. start \o new \in Seq(Nat) /\ Len(start \o new) = Len(start) + Len(new)
    BY <1>4, <2>1
  <2> QED
    BY <2>1, <2>2 DEF new
<1> HIDE DEF filled, f1, q
<1>9. Layout(f2, AfterFull(filled), q, E, H)
  BY <1>7, LayoutFlush
<1>10. f2 \in Seq(Seq(Nat))
  BY <1>9 DEF Layout
<1>11. rest \in Nat /\ q + rest = p + n
  BY <1>1, <1>5 DEF q
<1> HIDE DEF rest, f2, E
<1>12. whole \in Nat /\ left \in Nat /\ left < MaxBlock /\ rest = whole * MaxBlock + left
  BY <1>1, <1>11
<1>13. ASSUME rest = 0
       PROVE  Layout(f2 \o direct, IF left > 0 THEN Bytes(p + n - left, left) ELSE AfterFull(filled),
                     p + n, E, H)
  <2>1. whole = 0 /\ left = 0
    BY <1>1, <1>13
  <2>2. direct = << >> /\ q = p + n
    BY <1>1, <1>6, <1>11, <1>13, <2>1
  <2>3. f2 \o << >> = f2
    BY <1>10
  <2> HIDE DEF direct, left, whole
  <2>4. f2 \o direct = f2
    BY <2>2, <2>3
  <2>5. ~(left > 0)
    BY <2>1
  <2> QED
    BY <1>9, <2>2, <2>4, <2>5
<1>14. ASSUME rest # 0
       PROVE  Layout(f2 \o direct, IF left > 0 THEN Bytes(p + n - left, left) ELSE AfterFull(filled),
                     p + n, E, H)
  <2>1. AfterFull(filled) = << >>
    <3>1. joined < n
      BY <1>1, <1>5, <1>14 DEF rest
    <3>2. CASE start = << >>
      <4>1. Len(filled) = 0
        BY <1>5, <1>8, <3>2
      <4> QED
        BY <1>8, <4>1 DEF AfterFull
    <3>3. CASE start # << >>
      BY <1>1, <1>5, <1>8, <3>1, <3>3 DEF AfterFull
    <3> QED
      BY <3>2, <3>3
  <2>2. direct = [i \in 1..whole |-> Bytes(q + (i - 1) * MaxBlock, MaxBlock)]
    BY DEF q
  <2> DEFINE t == q + whole * MaxBlock
  <2>3. whole * MaxBlock \in Nat
    BY <1>1, <1>12, Multiples
  <2>4. t \in Nat /\ t + left = p + n /\ p + n - left = t
    BY <1>1, <1>6, <1>11, <1>12, <2>3
  <2>5. Layout(f2, << >>, q, E, H)
    BY <1>9, <2>1
  <2> HIDE DEF direct, whole, left
  <2>6. Layout(f2 \o direct, << >>, t, E, H)
    BY <1>6, <1>12, <2>2, <2>5, LayoutDirect
  <2> HIDE DEF t
  <2>7. CASE left = 0
    <3>1. t = p + n
      BY <2>4, <2>7
    <3> QED
      BY <2>1, <2>6, <2>7, <3>1
  <2>8. CASE left > 0
    <3>1. left \in 1..MaxBlock /\ E \in SUBSET UpTo(t + left) /\ H \in SUBSET UpTo(t + left)
      BY <1>1, <1>6, <1>12, <2>4, <2>8
    <3>2. Layout(f2 \o direct, Bytes(t, left), t + left, E, H)
      BY <2>6, <3>1, LayoutBegin
    <3> QED
      BY <2>4, <2>8, <3>2
  <2> QED
    BY <1>12, <2>7, <2>8
<1>15. Layout(f2 \o direct, IF left > 0 THEN Bytes(p + n - left, left) ELSE AfterFull(filled),
              p + n, E, H)
  BY <1>13, <1>14
<1> QED
  BY <1>15 DEF f2, f1, E, filled, rest, joined, start

\* push_pod: a new block, or the one there is when it has room.
LEMMA LayoutHeader ==
    ASSUME NEW f, NEW b, NEW p, NEW h \in Headers,
           NEW D \in SUBSET UpTo(p), NEW H \in SUBSET UpTo(p), Layout(f, b, p, D, H)
    PROVE  Layout(IF Crowded(b) THEN Append(f, b) ELSE f,
                  (IF Crowded(b) THEN << >> ELSE b) \o Bytes(p, h),
                  p + h, D, H \cup {<<p, p + h>>})
<1> DEFINE G == H \cup {<<p, p + h>>}
<1>1. /\ p \in Nat /\ b \in Seq(Nat) /\ Len(b) \in Nat /\ MaxBlock \in Nat
      /\ h \in 1..MaxBlock /\ h <= Reserve /\ MinBlock + Reserve = MaxBlock
      /\ MinBlock \in Nat /\ 0 < MinBlock /\ Reserve \in Nat
  BY Sizes, SizesAssumption DEF Layout
<1>2. Layout(f, b, p, D, G)
  <2> DEFINE e == p + h
  <2>1. e \in Nat
    BY <1>1
  <2> HIDE DEF e
  <2>2. Layout(f, b, p, D, H \cup {<<p, e>>})
    BY <2>1, LayoutCall
  <2> QED
    BY <2>2 DEF e
<1>3. G \in SUBSET UpTo(p + h) /\ D \in SUBSET UpTo(p + h) /\ D \in SUBSET (Nat \X Nat)
  BY <1>1 DEF UpTo
<1> DEFINE new == Bytes(p, h)
<1>4. new \in Seq(Nat)
  BY <1>1, BytesSeq
<1>5. << >> \o new = new
  <2> HIDE DEF new
  <2> QED
    BY <1>4
<1> HIDE DEF G
<1>6. CASE Crowded(b)
  <2>1. b # << >>
    BY <1>1, <1>6 DEF Crowded
  <2>2. Layout(Append(f, b), << >>, p, D, G)
    BY <1>2, <2>1, LayoutStore
  <2>3. Layout(Append(f, b), new, p + h, D, G)
    BY <1>1, <1>3, <2>2, LayoutBegin
  <2> QED
    BY <1>5, <1>6, <2>3 DEF G
<1>7. CASE ~Crowded(b)
  <2>1. CASE b = << >>
    <3>1. Layout(f, new, p + h, D, G)
      BY <1>1, <1>2, <1>3, <2>1, LayoutBegin
    <3> QED
      BY <1>5, <1>7, <2>1, <3>1 DEF G
  <2>2. CASE b # << >>
    <3>1. Len(b) + h <= MaxBlock /\ h \in Nat
      BY <1>1, <1>7 DEF Crowded
    <3>2. Layout(f, b \o new, p + h, D, G)
      BY <1>2, <1>3, <2>2, <3>1, LayoutGrow
    <3> QED
      BY <1>7, <3>2 DEF G
  <2> QED
    BY <2>1, <2>2
<1> QED
  BY <1>6, <1>7

--------------------------------------------------------------------------------
(* The calls                                                                *)

CallSet == ({"data"} \X Lengths) \cup ({"header"} \X Headers)

\* ends[c] is the number of bytes that the first c calls have pushed.
Bounds(cs, ends, p) ==
    /\ cs \in Seq(CallSet) /\ p \in Nat
    /\ ends \in [0..Len(cs) -> Nat] /\ ends[0] = 0 /\ ends[Len(cs)] = p
    /\ \A c \in 1..Len(cs) : ends[c] = ends[c - 1] + cs[c][2] /\ ends[c] <= p

Spans(cs, ends, kind) ==
    {<<ends[c - 1], ends[c]>> : c \in {d \in 1..Len(cs) : cs[d][1] = kind}}

LEMMA CallFacts ==
    ASSUME NEW x \in CallSet
    PROVE  /\ x[2] \in Nat
           /\ x[1] = "data" \/ x[1] = "header"
           /\ x[1] = "data" => x[2] \in Lengths
           /\ x[1] = "header" => x[2] \in Headers /\ x[2] > 0
<1>1. \A n \in Lengths : n \in Nat
  BY SizesAssumption
<1>2. \A h \in Headers : h \in Nat /\ h > 0
  BY Sizes, SizesAssumption
<1>3. CASE x \in {"data"} \X Lengths
  BY <1>1, <1>3
<1>4. CASE x \in {"header"} \X Headers
  BY <1>2, <1>4
<1> QED
  BY <1>3, <1>4 DEF CallSet

LEMMA BoundsFacts ==
    ASSUME NEW cs, NEW ends, NEW p, Bounds(cs, ends, p), NEW c \in 1..Len(cs)
    PROVE  /\ c \in Nat /\ c - 1 \in 0..Len(cs) /\ c \in 0..Len(cs) /\ cs[c] \in CallSet
           /\ ends[c - 1] \in Nat /\ ends[c] \in Nat /\ cs[c][2] \in Nat
           /\ ends[c] = ends[c - 1] + cs[c][2] /\ ends[c] <= p /\ p \in Nat
<1>1. Len(cs) \in Nat /\ cs[c] \in CallSet
  BY DEF Bounds
<1>2. c \in Nat /\ c - 1 \in 0..Len(cs) /\ c \in 0..Len(cs)
  BY <1>1
<1>3. ends[c - 1] \in Nat /\ ends[c] \in Nat
  BY <1>2 DEF Bounds
<1> QED
  BY <1>1, <1>2, <1>3, CallFacts DEF Bounds

LEMMA SpansUpTo ==
    ASSUME NEW cs, NEW ends, NEW p, Bounds(cs, ends, p), NEW kind
    PROVE  Spans(cs, ends, kind) \in SUBSET UpTo(p)
  BY BoundsFacts DEF Spans, UpTo

LEMMA CallAppend ==
    ASSUME NEW cs, NEW ends, NEW p, Bounds(cs, ends, p), NEW x \in CallSet
    PROVE  LET more == [c \in 0..(Len(cs) + 1) |-> IF c <= Len(cs) THEN ends[c] ELSE p + x[2]]
           IN  /\ Bounds(Append(cs, x), more, p + x[2])
               /\ Spans(Append(cs, x), more, x[1]) = Spans(cs, ends, x[1]) \cup {<<p, p + x[2]>>}
               /\ \A kind : kind # x[1] => Spans(Append(cs, x), more, kind) = Spans(cs, ends, kind)
<1> DEFINE more == [c \in 0..(Len(cs) + 1) |-> IF c <= Len(cs) THEN ends[c] ELSE p + x[2]]
           ds == Append(cs, x)
           n == Len(cs)
<1>1. /\ cs \in Seq(CallSet) /\ n \in Nat /\ p \in Nat /\ x[2] \in Nat /\ p + x[2] \in Nat
      /\ \A c \in 0..n : ends[c] \in Nat
      /\ ends[0] = 0 /\ ends[n] = p
  BY CallFacts DEF Bounds
<1>2. /\ ds \in Seq(CallSet) /\ Len(ds) = n + 1 /\ ds[n + 1] = x
      /\ \A c \in 1..n : ds[c] = cs[c]
  BY <1>1
<1>3. /\ more \in [0..(n + 1) -> Nat] /\ \A c \in 0..n : more[c] = ends[c]
      /\ more[n + 1] = p + x[2]
  BY <1>1
<1> HIDE DEF more, ds, n
<1>4. \A c \in 1..n : /\ ends[c] = ends[c - 1] + cs[c][2] /\ ends[c] <= p
                      /\ ends[c] \in Nat /\ c - 1 \in 0..n /\ c \in 0..n
  BY BoundsFacts DEF n
<1>5. ASSUME NEW c \in 1..(n + 1)
      PROVE  more[c] = more[c - 1] + ds[c][2] /\ more[c] <= p + x[2]
  <2>1. CASE c \in 1..n
    <3>1. more[c] = ends[c] /\ more[c - 1] = ends[c - 1] /\ ds[c] = cs[c]
      BY <1>2, <1>3, <1>4, <2>1
    <3>2. ends[c] <= p /\ ends[c] \in Nat /\ ends[c] = ends[c - 1] + cs[c][2]
      BY <1>4, <2>1
    <3> QED
      BY <1>1, <3>1, <3>2
  <2>2. CASE c = n + 1
    <3>1. c - 1 = n /\ n \in 0..n
      BY <1>1, <2>2
    <3>2. more[c - 1] = p /\ more[c] = p + x[2] /\ ds[c] = x
      BY <1>1, <1>2, <1>3, <2>2, <3>1
    <3> QED
      BY <1>1, <3>2
  <2> QED
    BY <1>1, <2>1, <2>2
<1>6. Bounds(ds, more, p + x[2])
  <2>1. 0 \in 0..n
    BY <1>1
  <2> QED
    BY <1>1, <1>2, <1>3, <1>5, <2>1 DEF Bounds
<1>7. \A c \in 1..n : /\ (<<more[c - 1], more[c]>> = <<ends[c - 1], ends[c]>>)
                      /\ ds[c] = cs[c] /\ c \in 1..(n + 1)
  BY <1>1, <1>2, <1>3, <1>4
<1>8. <<more[(n + 1) - 1], more[n + 1]>> = <<p, p + x[2]>> /\ n + 1 \in 1..(n + 1)
  <2>1. (n + 1) - 1 = n /\ n \in 0..n /\ n + 1 \in 1..(n + 1)
    BY <1>1
  <2> QED
    BY <1>1, <1>3, <2>1
<1>9. \A c \in 1..(n + 1) : c \in 1..n \/ c = n + 1
  BY <1>1
<1>10. Spans(ds, more, x[1]) = Spans(cs, ends, x[1]) \cup {<<p, p + x[2]>>}
  <2>1. \A z \in Spans(ds, more, x[1]) : z \in Spans(cs, ends, x[1]) \cup {<<p, p + x[2]>>}
    <3> SUFFICES ASSUME NEW c \in 1..(n + 1), ds[c][1] = x[1]
                 PROVE  <<more[c - 1], more[c]>> \in Spans(cs, ends, x[1]) \cup {<<p, p + x[2]>>}
      BY <1>2 DEF Spans
    <3>1. CASE c \in 1..n
      BY <1>7, <3>1 DEF Spans, n
    <3>2. CASE c = n + 1
      BY <1>8, <3>2
    <3> QED
      BY <1>9, <3>1, <3>2
  <2>2. \A z \in Spans(cs, ends, x[1]) : z \in Spans(ds, more, x[1])
    <3> SUFFICES ASSUME NEW c \in 1..n, cs[c][1] = x[1]
                 PROVE  <<ends[c - 1], ends[c]>> \in Spans(ds, more, x[1])
      BY DEF Spans, n
    <3>1. <<more[c - 1], more[c]>> = <<ends[c - 1], ends[c]>> /\ ds[c][1] = x[1] /\ c \in 1..Len(ds)
      BY <1>2, <1>7
    <3> QED
      BY <3>1 DEF Spans
  <2>3. <<p, p + x[2]>> \in Spans(ds, more, x[1])
    <3>1. n + 1 \in {d \in 1..Len(ds) : ds[d][1] = x[1]}
      BY <1>2, <1>8
    <3> QED
      BY <1>8, <3>1 DEF Spans
  <2> QED
    BY <2>1, <2>2, <2>3
<1>11. ASSUME NEW kind, kind # x[1] PROVE Spans(ds, more, kind) = Spans(cs, ends, kind)
  <2>1. \A z \in Spans(ds, more, kind) : z \in Spans(cs, ends, kind)
    <3> SUFFICES ASSUME NEW c \in 1..(n + 1), ds[c][1] = kind
                 PROVE  <<more[c - 1], more[c]>> \in Spans(cs, ends, kind)
      BY <1>2 DEF Spans
    <3>1. c \in 1..n
      BY <1>2, <1>9, <1>11
    <3> QED
      BY <1>7, <3>1 DEF Spans, n
  <2>2. \A z \in Spans(cs, ends, kind) : z \in Spans(ds, more, kind)
    <3> SUFFICES ASSUME NEW c \in 1..n, cs[c][1] = kind
                 PROVE  <<ends[c - 1], ends[c]>> \in Spans(ds, more, kind)
      BY DEF Spans, n
    <3>1. <<more[c - 1], more[c]>> = <<ends[c - 1], ends[c]>> /\ ds[c][1] = kind /\ c \in 1..Len(ds)
      BY <1>2, <1>7
    <3> QED
      BY <3>1 DEF Spans
  <2> QED
    BY <2>1, <2>2
<1> QED
  BY <1>6, <1>10, <1>11 DEF more, ds, n

--------------------------------------------------------------------------------
(* The invariant of writing and reading                                     *)

\* What has been written, to the calls that end at these bytes.
Written(ends) ==
    /\ Bounds(calls, ends, pushed)
    /\ Layout(frames, block, pushed, Spans(calls, ends, "data"), Spans(calls, ends, "header"))
    /\ mode # "write" => block = << >>

\* The stream is what has been written, up to somewhere.
Arrived ==
    /\ stream \in Seq(Seq(Nat)) /\ Len(stream) <= Len(frames)
    /\ \A k \in 1..Len(stream) :
         /\ stream[k] # << >> /\ Len(stream[k]) <= Len(frames[k])
         /\ stream[k] = Bytes(Start(frames[k]), Len(stream[k]))
         /\ k < Len(stream) => stream[k] = frames[k]

\* The reader's block is at byte pos of the stream when it is at its byte o.
AtByte(pos, o) ==
    IF cursor = 0
      THEN rblock = << >> /\ offset = 0 /\ pos = 0
      ELSE /\ rblock = stream[cursor] /\ offset \in 1..Len(rblock)
           /\ o \in 1..Len(rblock) /\ pos = Start(rblock) + o

Idle ==
    /\ next = 1 /\ cursor = 0 /\ rblock = << >> /\ offset = 0
    /\ out = << >> /\ accounted = 0 /\ got = << >>

\* Where the reader is: it has read the calls before the next one and, in the
\* loop of get_data, the first bytes of that one.
Reading(ends) ==
    /\ cursor \in 0..Len(stream) /\ next \in 1..(Len(calls) + 1)
    /\ got = Bytes(0, ends[next - 1])
    /\ mode # "loop" => AtByte(ends[next - 1], offset)
    /\ mode = "ok" => next = Len(calls) + 1
    /\ mode = "loop" =>
         /\ next <= Len(calls) /\ calls[next][1] = "data"
         /\ accounted \in 0..calls[next][2]
         /\ out = Bytes(ends[next - 1], accounted)
         /\ AtByte(ends[next - 1] + accounted, Len(rblock))
         /\ accounted = calls[next][2] => offset = Len(rblock)

Failed ==
    /\ stream # frames /\ offset <= Len(rblock)
    /\ \E n \in Nat : got = Bytes(0, n)

Read(ends) ==
    /\ mode \in {"write", "written", "read", "loop", "ok", "error"}
    /\ mode \in {"write", "written"} => Idle
    /\ mode \in {"read", "loop", "ok"} => Arrived /\ Reading(ends)
    /\ mode = "error" => Failed

Replay == \E ends : Written(ends) /\ Read(ends)

LEMMA InitReplay == Init => Replay
<1> SUFFICES ASSUME Init PROVE Replay
  OBVIOUS
<1> DEFINE ends == [c \in 0..0 |-> 0]
<1>1. /\ calls = << >> /\ pushed = 0 /\ block = << >> /\ frames = << >> /\ mode = "write" /\ Idle
  BY DEF Init, Idle
<1>2. Bounds(<< >>, ends, 0)
  <2>1. ends \in [0..0 -> Nat] /\ ends[0] = 0
    OBVIOUS
  <2> HIDE DEF ends
  <2> QED
    BY <2>1 DEF Bounds
<1>3. \A D, H : Layout(<< >>, << >>, 0, D, H)
  <2>1. Bytes(0, 0) = << >>
    BY BytesAt
  <2> QED
    BY <2>1 DEF Layout, Chain, Reach
<1> HIDE DEF ends
<1>4. Written(ends) /\ Read(ends)
  BY <1>1, <1>2, <1>3 DEF Written, Read
<1> QED
  BY <1>4 DEF Replay

\* The new call ends where the stream does now.
LEMMA PushReplay ==
    ASSUME Replay, WriterInv,
           (\E n \in Lengths : PushData(n)) \/ (\E h \in Headers : PushHeader(h))
    PROVE  Replay'
<1>1. PICK ends : Written(ends) /\ Read(ends)
  BY DEF Replay
<1>2. mode = "write" /\ mode' = "write" /\ UNCHANGED <<next, cursor, rblock, offset, out, accounted, got>>
  BY DEF PushData, PushHeader, reader
<1>3. Idle'
  BY <1>1, <1>2 DEF Read, Idle
<1> DEFINE D == Spans(calls, ends, "data")
           H == Spans(calls, ends, "header")
<1>4. /\ Bounds(calls, ends, pushed) /\ Layout(frames, block, pushed, D, H)
      /\ D \in SUBSET UpTo(pushed) /\ H \in SUBSET UpTo(pushed)
  BY <1>1, SpansUpTo DEF Written
<1> HIDE DEF D, H
<1>5. ASSUME NEW x \in CallSet, NEW f, NEW b,
             calls' = Append(calls, x), pushed' = pushed + x[2], frames' = f, block' = b,
             Layout(f, b, pushed + x[2],
                    IF x[1] = "data" THEN D \cup {<<pushed, pushed + x[2]>>} ELSE D,
                    IF x[1] = "header" THEN H \cup {<<pushed, pushed + x[2]>>} ELSE H)
      PROVE  Replay'
  <2> DEFINE more == [c \in 0..(Len(calls) + 1) |-> IF c <= Len(calls) THEN ends[c] ELSE pushed + x[2]]
             ds == Append(calls, x)
             q == pushed + x[2]
  <2>1. /\ Bounds(ds, more, q)
        /\ Spans(ds, more, x[1]) = Spans(calls, ends, x[1]) \cup {<<pushed, q>>}
        /\ \A kind : kind # x[1] => Spans(ds, more, kind) = Spans(calls, ends, kind)
    BY <1>4, CallAppend
  <2> HIDE DEF more, ds, q
  <2>2. /\ Spans(ds, more, "data") = IF x[1] = "data" THEN D \cup {<<pushed, q>>} ELSE D
        /\ Spans(ds, more, "header") = IF x[1] = "header" THEN H \cup {<<pushed, q>>} ELSE H
    BY <2>1 DEF D, H
  <2>3. Layout(f, b, q, Spans(ds, more, "data"), Spans(ds, more, "header"))
    BY <1>5, <2>2 DEF q
  <2>4. calls' = ds /\ pushed' = q
    BY <1>5 DEF ds, q
  <2>5. PICK m : m = more
    OBVIOUS
  <2>6. Written(m)'
    BY <1>2, <1>5, <2>1, <2>3, <2>4, <2>5 DEF Written
  <2>7. Read(m)'
    BY <1>2, <1>3 DEF Read
  <2> QED
    BY <2>6, <2>7 DEF Replay
<1>6. ASSUME NEW n \in Lengths, PushData(n) PROVE Replay'
  <2> DEFINE x == <<"data", n>>
  <2>1. x \in CallSet /\ x[1] = "data" /\ x[2] = n /\ n \in Nat /\ x[1] # "header"
    BY SizesAssumption DEF CallSet
  <2>2. calls' = Append(calls, x) /\ pushed' = pushed + n
    BY <1>6 DEF PushData
  <2>3. Len(block) <= MaxBlock
    BY DEF WriterInv
  <2>4. Layout(frames', block', pushed + n, D \cup {<<pushed, pushed + n>>}, H)
    <3> DEFINE start  == AfterFull(block)
               joined == Joined(start, n)
               filled == start \o Bytes(pushed, joined)
               rest   == n - joined
               whole  == rest \div MaxBlock
               left   == rest % MaxBlock
               direct == [i \in 1..whole |-> Bytes(pushed + joined + (i - 1) * MaxBlock, MaxBlock)]
    <3>1. /\ frames' = frames \o FlushFull(block) \o FlushFull(filled) \o direct
          /\ block' = IF left > 0 THEN Bytes(pushed + n - left, left) ELSE AfterFull(filled)
      BY <1>6 DEF PushData
    <3>2. Layout(frames \o FlushFull(block) \o FlushFull(filled) \o direct,
                 IF left > 0 THEN Bytes(pushed + n - left, left) ELSE AfterFull(filled),
                 pushed + n, D \cup {<<pushed, pushed + n>>}, H)
      BY <1>4, <2>1, <2>3, LayoutData
    <3> HIDE DEF start, joined, filled, rest, whole, left, direct
    <3> QED
      BY <3>1, <3>2
  <2> HIDE DEF x
  <2> QED
    BY <1>5, <2>1, <2>2, <2>4
<1>7. ASSUME NEW h \in Headers, PushHeader(h) PROVE Replay'
  <2> DEFINE x == <<"header", h>>
  <2>1. x \in CallSet /\ x[1] = "header" /\ x[2] = h /\ x[1] # "data"
    BY DEF CallSet
  <2>2. calls' = Append(calls, x) /\ pushed' = pushed + h
    BY <1>7 DEF PushHeader
  <2>3. /\ frames' = IF Crowded(block) THEN Append(frames, block) ELSE frames
        /\ block' = (IF Crowded(block) THEN << >> ELSE block) \o Bytes(pushed, h)
    BY <1>7 DEF PushHeader
  <2>4. Layout(frames', block', pushed + h, D, H \cup {<<pushed, pushed + h>>})
    BY <1>4, <2>3, LayoutHeader
  <2> HIDE DEF x
  <2> QED
    BY <1>5, <2>1, <2>2, <2>4
<1> QED
  BY <1>6, <1>7

LEMMA FinishReplay ==
    ASSUME Replay, FinishWrite
    PROVE  Replay'
<1>1. PICK ends : Written(ends) /\ Read(ends)
  BY DEF Replay
<1>2. /\ mode = "write" /\ mode' = "written" /\ block' = << >>
      /\ UNCHANGED <<calls, pushed, next, cursor, rblock, offset, out, accounted, got>>
      /\ frames' = IF block = << >> THEN frames ELSE Append(frames, block)
  BY DEF FinishWrite, reader
<1>3. Layout(frames', << >>, pushed, Spans(calls, ends, "data"), Spans(calls, ends, "header"))
  <2>1. CASE block = << >>
    BY <1>1, <1>2, <2>1 DEF Written
  <2>2. CASE block # << >>
    BY <1>1, <1>2, <2>2, LayoutStore DEF Written
  <2> QED
    BY <2>1, <2>2
<1>4. Written(ends)'
  BY <1>1, <1>2, <1>3 DEF Written
<1>5. Read(ends)'
  BY <1>1, <1>2 DEF Read, Idle
<1> QED
  BY <1>4, <1>5 DEF Replay

--------------------------------------------------------------------------------
(* The reader                                                               *)

LEMMA FrameFacts ==
    ASSUME NEW ends, Written(ends), mode # "write"
    PROVE  /\ pushed \in Nat /\ Len(frames) \in Nat
           /\ \A k \in 1..Len(frames) :
                /\ Run(frames[k]) /\ Len(frames[k]) \in 1..MaxBlock
                /\ Start(frames[k]) \in Nat /\ End(frames[k]) = Start(frames[k]) + Len(frames[k])
                /\ End(frames[k]) <= pushed
                /\ k = 1 => Start(frames[k]) = 0
                /\ k + 1 \in 1..Len(frames) => Start(frames[k + 1]) = End(frames[k])
                /\ k = Len(frames) => End(frames[k]) = pushed
           /\ Len(frames) = 0 => pushed = 0
<1>1. /\ frames \in Seq(Seq(Nat)) /\ pushed \in Nat /\ Chain(frames) /\ Reach(frames) \in Nat
      /\ Reach(frames) = pushed /\ Len(frames) \in Nat
      /\ \A k \in 1..Len(frames) : End(frames[k]) <= pushed /\ Len(frames[k]) <= MaxBlock
  BY DEF Written, Layout, Suits
<1>2. ASSUME NEW k \in 1..Len(frames)
      PROVE  /\ Run(frames[k]) /\ Len(frames[k]) \in 1..MaxBlock
             /\ Start(frames[k]) \in Nat /\ End(frames[k]) = Start(frames[k]) + Len(frames[k])
  <2>1. Run(frames[k]) /\ Len(frames[k]) <= MaxBlock
    BY <1>1 DEF Chain
  <2>2. Len(frames[k]) \in Nat /\ Len(frames[k]) > 0
    BY <2>1 DEF Run
  <2> QED
    BY <2>1, <2>2, Sizes DEF Run, End
<1>3. \A k \in 1..Len(frames) : k = 1 => Start(frames[k]) = 0
  BY <1>1 DEF Chain
<1>4. ASSUME NEW k \in 1..Len(frames), k + 1 \in 1..Len(frames)
      PROVE  Start(frames[k + 1]) = End(frames[k])
  <2>1. k + 1 # 1 /\ (k + 1) - 1 = k
    BY <1>1
  <2>2. Start(frames[k + 1]) = IF k + 1 = 1 THEN 0 ELSE End(frames[(k + 1) - 1])
    BY <1>1, <1>4 DEF Chain
  <2> QED
    BY <2>1, <2>2
<1>5. frames # << >> => End(frames[Len(frames)]) = pushed
  BY <1>1 DEF Reach
<1>6. \A k \in 1..Len(frames) : frames # << >>
  BY <1>1
<1>7. Len(frames) = 0 => pushed = 0
  BY <1>1 DEF Reach
<1> QED
  BY <1>1, <1>2, <1>3, <1>4, <1>5, <1>6, <1>7

LEMMA StreamFacts ==
    ASSUME NEW ends, Written(ends), mode # "write", Arrived
    PROVE  /\ Len(stream) \in Nat
           /\ \A k \in 1..Len(stream) :
                /\ Len(stream[k]) \in 1..MaxBlock
                /\ Start(stream[k]) = Start(frames[k]) /\ Start(stream[k]) \in Nat
                /\ stream[k] = Bytes(Start(stream[k]), Len(stream[k]))
                /\ k \in 1..Len(frames)
                /\ k + 1 \in 1..Len(stream) =>
                     Start(stream[k + 1]) = Start(stream[k]) + Len(stream[k])
<1>1. /\ stream \in Seq(Seq(Nat)) /\ Len(stream) \in Nat /\ Len(stream) <= Len(frames)
  BY DEF Arrived
<1>2. ASSUME NEW k \in 1..Len(stream)
      PROVE  /\ k \in 1..Len(frames) /\ Len(stream[k]) \in 1..MaxBlock
             /\ Start(stream[k]) = Start(frames[k]) /\ Start(stream[k]) \in Nat
             /\ stream[k] = Bytes(Start(stream[k]), Len(stream[k]))
  <2>1. k \in 1..Len(frames)
    BY <1>1, FrameFacts
  <2>2. Start(frames[k]) \in Nat /\ Len(frames[k]) \in 1..MaxBlock
    BY <2>1, FrameFacts
  <2>3. /\ stream[k] \in Seq(Nat) /\ stream[k] # << >> /\ Len(stream[k]) <= Len(frames[k])
        /\ stream[k] = Bytes(Start(frames[k]), Len(stream[k]))
    BY <1>1 DEF Arrived
  <2> DEFINE x == stream[k]
             a == Start(frames[k])
             m == Len(x)
  <2>4. m \in Nat /\ m > 0 /\ m \in 1..MaxBlock
    BY <2>2, <2>3, Sizes
  <2>5. a \in Nat /\ x = Bytes(a, m)
    BY <2>2, <2>3
  <2> HIDE DEF a, m, x
  <2>6. Start(x) = a
    BY <2>4, <2>5, RunFacts
  <2> QED
    BY <2>1, <2>4, <2>5, <2>6 DEF a, m, x
<1>3. ASSUME NEW k \in 1..Len(stream), k + 1 \in 1..Len(stream)
      PROVE  Start(stream[k + 1]) = Start(stream[k]) + Len(stream[k])
  <2>1. k < Len(stream)
    BY <1>1, <1>3
  <2>2. stream[k] = frames[k]
    BY <2>1 DEF Arrived
  <2>3. k \in 1..Len(frames) /\ k + 1 \in 1..Len(frames)
    BY <1>2, <1>3
  <2>4. Start(frames[k + 1]) = End(frames[k])
    BY <2>3, FrameFacts
  <2> QED
    BY <1>2, <1>3, <2>2, <2>4 DEF End
<1> QED
  BY <1>1, <1>2, <1>3

\* The reader's block, wherever it is in it.
LEMMA AtFacts ==
    ASSUME NEW ends, Written(ends), mode # "write", Arrived, cursor \in 0..Len(stream),
           NEW pos \in Nat, NEW o, AtByte(pos, o)
    PROVE  /\ Len(rblock) \in 0..MaxBlock /\ offset \in 0..Len(rblock)
           /\ cursor = 0 => rblock = << >> /\ offset = 0 /\ pos = 0 /\ Len(rblock) = 0
           /\ cursor # 0 =>
                /\ cursor \in 1..Len(stream) /\ rblock = stream[cursor]
                /\ Start(rblock) \in Nat /\ rblock = Bytes(Start(rblock), Len(rblock))
                /\ o \in 1..Len(rblock) /\ offset \in 1..Len(rblock) /\ pos = Start(rblock) + o
<1>1. CASE cursor = 0
  <2>1. rblock = << >> /\ offset = 0 /\ pos = 0
    BY <1>1 DEF AtByte
  <2> QED
    BY <1>1, <2>1, Sizes
<1>2. CASE cursor # 0
  <2>1. Len(stream) \in Nat
    BY StreamFacts
  <2>2. cursor \in 1..Len(stream)
    BY <1>2, <2>1
  <2>3. /\ rblock = stream[cursor] /\ offset \in 1..Len(rblock)
        /\ o \in 1..Len(rblock) /\ pos = Start(rblock) + o
    BY <1>2 DEF AtByte
  <2>4. /\ Start(rblock) \in Nat /\ rblock = Bytes(Start(rblock), Len(rblock))
        /\ Len(rblock) \in 1..MaxBlock
    BY <2>2, <2>3, StreamFacts
  <2> QED
    BY <1>2, <2>2, <2>3, <2>4, Sizes
<1> QED
  BY <1>1, <1>2

\* The bytes at data_offset.
LEMMA HereIs ==
    ASSUME NEW ends, Written(ends), mode # "write", Arrived, cursor \in 0..Len(stream),
           NEW pos \in Nat, AtByte(pos, offset), NEW n \in Nat, offset + n <= Len(rblock)
    PROVE  Here(n) = Bytes(pos, n)
<1>1. CASE cursor = 0
  <2>1. rblock = << >> /\ offset = 0 /\ pos = 0 /\ n = 0
    BY <1>1, AtFacts
  <2>2. Bytes(0, 0) = << >> /\ SubSeq(<< >>, 0 + 1, 0 + 0) = << >>
    BY BytesAt
  <2> QED
    BY <2>1, <2>2 DEF Here
<1>2. CASE cursor # 0
  <2> DEFINE a == Start(rblock)
             m == Len(rblock)
  <2>1. a \in Nat /\ m \in Nat /\ rblock = Bytes(a, m) /\ offset \in Nat /\ pos = a + offset
    BY <1>2, AtFacts
  <2>2. offset + n <= m
    OBVIOUS
  <2> HIDE DEF a, m
  <2>3. \A k \in Nat, j \in Nat :
          k + j <= m => SubSeq(Bytes(a, m), k + 1, k + j) = Bytes(a + k, j)
    BY <2>1, BytesPart
  <2>4. SubSeq(Bytes(a, m), offset + 1, offset + n) = Bytes(a + offset, n)
    BY <2>1, <2>2, <2>3
  <2> QED
    BY <2>1, <2>4 DEF Here
<1> QED
  BY <1>1, <1>2

\* The block after one that is used up begins with the next byte.
LEMMA NextBlock ==
    ASSUME NEW ends, Written(ends), mode # "write", Arrived, cursor \in 0..Len(stream),
           NEW pos \in Nat, AtByte(pos, Len(rblock)), cursor < Len(stream)
    PROVE  /\ cursor + 1 \in 1..Len(stream) /\ Len(stream[cursor + 1]) \in 1..MaxBlock
           /\ Start(stream[cursor + 1]) = pos
           /\ stream[cursor + 1] = Bytes(pos, Len(stream[cursor + 1]))
<1>1. Len(stream) \in Nat
  BY StreamFacts
<1>2. cursor + 1 \in 1..Len(stream)
  BY <1>1
<1>3. CASE cursor = 0
  <2>1. pos = 0
    BY <1>3, AtFacts
  <2>2. cursor + 1 = 1 /\ 1 \in 1..Len(frames) /\ Start(stream[1]) = Start(frames[1])
    BY <1>2, <1>3, StreamFacts
  <2>3. Start(frames[1]) = 0
    BY <2>2, FrameFacts
  <2> QED
    BY <1>2, <2>1, <2>2, <2>3, StreamFacts
<1>4. CASE cursor # 0
  <2>1. cursor \in 1..Len(stream) /\ rblock = stream[cursor] /\ pos = Start(rblock) + Len(rblock)
    BY <1>4, AtFacts
  <2>2. Start(stream[cursor + 1]) = Start(stream[cursor]) + Len(stream[cursor])
    BY <1>2, <2>1, StreamFacts
  <2> QED
    BY <1>2, <2>1, <2>2, StreamFacts
<1> QED
  BY <1>3, <1>4

\* The whole stream has a block for every byte that was pushed.
LEMMA MoreBlocks ==
    ASSUME NEW ends, Written(ends), mode # "write", Arrived, cursor \in 0..Len(stream),
           NEW pos \in Nat, AtByte(pos, Len(rblock)), stream = frames, pos < pushed
    PROVE  cursor < Len(stream)
<1>1. Len(stream) \in Nat /\ pushed \in Nat
  BY StreamFacts, FrameFacts
<1>2. CASE cursor = 0
  BY <1>1, <1>2, FrameFacts
<1>3. CASE cursor # 0
  <2>1. cursor \in 1..Len(stream) /\ rblock = stream[cursor] /\ pos = Start(rblock) + Len(rblock)
    BY <1>3, AtFacts
  <2>2. pos = End(frames[cursor])
    BY <2>1 DEF End
  <2>3. cursor # Len(frames)
    BY <1>1, <2>1, <2>2, FrameFacts
  <2> QED
    BY <1>1, <2>1, <2>3
<1> QED
  BY <1>2, <1>3

\* memcpy to the end of what is in the output.
LEMMA CopyOutIs ==
    ASSUME NEW s \in Nat, NEW m \in Nat, accounted \in Nat, out = Bytes(s, accounted)
    PROVE  CopyOut(Bytes(s + accounted, m)) = Bytes(s, accounted + m)
<1> DEFINE d == Bytes(s + accounted, m)
           size == IF accounted + Len(d) > Len(out) THEN accounted + Len(d) ELSE Len(out)
<1>1. Len(d) = m /\ \A i \in 1..m : d[i] = s + accounted + i
  <2> DEFINE a == s + accounted
  <2>1. a \in Nat
    OBVIOUS
  <2> HIDE DEF a
  <2>2. Len(Bytes(a, m)) = m /\ \A i \in 1..m : Bytes(a, m)[i] = a + i
    BY <2>1, BytesAt
  <2> QED
    BY <2>2 DEF a
<1>2. Len(out) = accounted /\ \A i \in 1..accounted : out[i] = s + i
  BY BytesAt
<1> HIDE DEF d
<1>3. size = accounted + m
  BY <1>1, <1>2
<1>4. CopyOut(d) = [i \in 1..size |-> IF i > accounted /\ i <= accounted + Len(d)
                                        THEN d[i - accounted] ELSE out[i]]
  BY DEF CopyOut
<1> HIDE DEF size
<1>5. ASSUME NEW i \in 1..(accounted + m)
      PROVE  (IF i > accounted /\ i <= accounted + Len(d) THEN d[i - accounted] ELSE out[i]) = s + i
  <2>1. CASE i > accounted
    <3>1. i - accounted \in 1..m
      BY <2>1
    <3>2. d[i - accounted] = s + accounted + (i - accounted)
      BY <1>1, <3>1
    <3> QED
      BY <1>1, <2>1, <3>2
  <2>2. CASE ~(i > accounted)
    <3>1. i \in 1..accounted
      BY <2>2
    <3> QED
      BY <1>2, <2>2, <3>1
  <2> QED
    BY <2>1, <2>2
<1>6. CopyOut(d) = [i \in 1..(accounted + m) |-> s + i]
  BY <1>3, <1>4, <1>5
<1> QED
  BY <1>6 DEF d, Bytes

\* The call that is being read.
LEMMA CallNow ==
    ASSUME NEW ends, Written(ends), Reading(ends), next <= Len(calls)
    PROVE  /\ next \in 1..Len(calls) /\ next + 1 \in 1..(Len(calls) + 1) /\ (next + 1) - 1 = next
           /\ ends[next - 1] \in Nat /\ calls[next][2] \in Nat /\ ends[next] \in Nat
           /\ ends[next] = ends[next - 1] + calls[next][2] /\ ends[next] <= pushed
           /\ pushed \in Nat /\ cursor \in Nat
           /\ calls[next][1] = "data" =>
                /\ calls[next][2] \in Lengths
                /\ <<ends[next - 1], ends[next]>> \in Spans(calls, ends, "data")
           /\ calls[next][1] = "header" =>
                /\ calls[next][2] \in Headers /\ calls[next][2] > 0
                /\ <<ends[next - 1], ends[next]>> \in Spans(calls, ends, "header")
<1>1. Bounds(calls, ends, pushed) /\ next \in 1..(Len(calls) + 1)
  BY DEF Written, Reading
<1>2. Len(calls) \in Nat
  BY <1>1 DEF Bounds
<1>3. /\ next \in 1..Len(calls) /\ next + 1 \in 1..(Len(calls) + 1) /\ (next + 1) - 1 = next
  BY <1>1, <1>2
<1>4. /\ ends[next - 1] \in Nat /\ calls[next][2] \in Nat /\ ends[next] \in Nat
      /\ ends[next] = ends[next - 1] + calls[next][2] /\ ends[next] <= pushed
      /\ pushed \in Nat /\ calls[next] \in CallSet
  BY <1>1, <1>3, BoundsFacts
<1>5. /\ calls[next][1] = "data" => calls[next][2] \in Lengths
      /\ calls[next][1] = "header" => calls[next][2] \in Headers /\ calls[next][2] > 0
  BY <1>4, CallFacts
<1>6. \A kind : calls[next][1] = kind => <<ends[next - 1], ends[next]>> \in Spans(calls, ends, kind)
  BY <1>3 DEF Spans
<1>7. cursor \in Nat
  BY DEF Reading
<1> QED
  BY <1>3, <1>4, <1>5, <1>6, <1>7

\* In a stream that is whole, the next block has what get_data asks for.
LEMMA DataThere ==
    ASSUME NEW ends, Written(ends), mode = "loop", Arrived, Reading(ends),
           accounted < calls[next][2], stream = frames
    PROVE  LET n == calls[next][2] - accounted
           IN  IF n >= MaxBlock THEN NextHas({MaxBlock}) ELSE NextHas(n..MaxBlock)
<1> DEFINE s == ends[next - 1]
           n == calls[next][2]
           pos == s + accounted
           x == stream[cursor + 1]
<1>1. /\ mode # "write" /\ next <= Len(calls) /\ calls[next][1] = "data" /\ accounted \in 0..n
      /\ cursor \in 0..Len(stream) /\ AtByte(pos, Len(rblock))
  BY DEF Reading
<1>2. /\ s \in Nat /\ n \in Nat /\ ends[next] = s + n /\ s + n <= pushed /\ pushed \in Nat
      /\ <<s, s + n>> \in Spans(calls, ends, "data")
  BY <1>1, CallNow
<1> HIDE DEF s, n
<1>3. pos \in Nat /\ accounted \in Nat /\ s <= pos /\ pos < s + n /\ pos < pushed
  BY <1>1, <1>2 DEF n
<1> HIDE DEF pos
<1>4. cursor < Len(stream)
  BY <1>1, <1>3, MoreBlocks
<1>5. /\ cursor + 1 \in 1..Len(stream) /\ Len(x) \in 1..MaxBlock /\ Start(x) = pos
  BY <1>1, <1>3, <1>4, NextBlock
<1>6. Suits(x, Spans(calls, ends, "data"), Spans(calls, ends, "header"))
  BY <1>5 DEF Written, Layout
<1> HIDE DEF x
<1>7. Len(x) = MaxBlock \/ Len(x) >= (s + n) - pos
  <2>1. <<s, s + n>>[1] <= Start(x) /\ Start(x) < <<s, s + n>>[2]
    BY <1>3, <1>5
  <2> QED
    BY <1>2, <1>5, <1>6, <2>1 DEF Suits
<1>8. (s + n) - pos = n - accounted /\ MaxBlock \in Nat
  BY <1>2, <1>3, Sizes DEF pos
<1> DEFINE m == n - accounted
<1>9. m \in Nat /\ (Len(x) = MaxBlock \/ Len(x) >= m)
  BY <1>1, <1>2, <1>3, <1>7, <1>8
<1> HIDE DEF m
<1>10. IF m >= MaxBlock THEN Len(x) \in {MaxBlock} ELSE Len(x) \in m..MaxBlock
  BY <1>5, <1>8, <1>9
<1> QED
  BY <1>4, <1>10 DEF NextHas, m, n, x

\* In a stream that is whole, a header is in one block.
LEMMA HeaderThere ==
    ASSUME NEW ends, Written(ends), mode = "read", Arrived, Reading(ends), next <= Len(calls),
           calls[next][1] = "header", stream = frames
    PROVE  LET n == calls[next][2]
           IN  IF Remaining = 0 THEN NextHas(n..MaxBlock) ELSE Remaining >= n
<1> DEFINE s == ends[next - 1]
           n == calls[next][2]
           x == stream[cursor + 1]
<1>1. /\ mode # "write" /\ cursor \in 0..Len(stream) /\ AtByte(s, offset)
  BY DEF Reading
<1>2. /\ s \in Nat /\ n \in Nat /\ n > 0 /\ s + n <= pushed /\ pushed \in Nat
      /\ <<s, s + n>> \in Spans(calls, ends, "header")
  BY CallNow
<1> HIDE DEF s, n
<1>3. \A k \in 1..Len(frames) : ~(s < End(frames[k]) /\ End(frames[k]) < s + n)
  BY <1>2 DEF Written, Layout, Suits
<1>4. Len(rblock) \in Nat /\ offset \in Nat /\ MaxBlock \in Nat
  <2>1. Len(rblock) \in 0..MaxBlock /\ offset \in 0..Len(rblock)
    BY <1>1, <1>2, AtFacts
  <2> QED
    BY <2>1, Sizes
<1>5. CASE Remaining = 0
  <2>1. offset = Len(rblock)
    BY <1>4, <1>5 DEF Remaining
  <2>2. AtByte(s, Len(rblock))
    BY <1>1, <2>1
  <2>3. cursor < Len(stream)
    BY <1>1, <1>2, <2>2, MoreBlocks
  <2>4. cursor + 1 \in 1..Len(stream) /\ Len(x) \in 1..MaxBlock /\ Start(x) = s
    BY <1>1, <1>2, <2>2, <2>3, NextBlock
  <2>5. End(x) = s + Len(x) /\ ~(s < End(x) /\ End(x) < s + n)
    BY <1>3, <2>4 DEF End
  <2> HIDE DEF x
  <2>6. Len(x) >= n
    BY <1>2, <2>4, <2>5
  <2> QED
    BY <1>2, <1>4, <1>5, <2>3, <2>4, <2>6 DEF NextHas, n, x
<1>6. CASE Remaining # 0
  <2>1. cursor # 0
    BY <1>1, <1>2, <1>6, AtFacts DEF Remaining
  <2>2. /\ cursor \in 1..Len(stream) /\ rblock = stream[cursor] /\ Start(rblock) \in Nat
        /\ offset \in 1..Len(rblock) /\ s = Start(rblock) + offset
    BY <1>1, <1>2, <2>1, AtFacts
  <2>3. End(rblock) = Start(rblock) + Len(rblock) /\ ~(s < End(rblock) /\ End(rblock) < s + n)
    BY <1>3, <2>2 DEF End
  <2>4. Remaining >= n
    BY <1>2, <1>4, <1>6, <2>2, <2>3 DEF Remaining
  <2> QED
    BY <1>6, <2>4 DEF n
<1> QED
  BY <1>5, <1>6

\* A step of the reader changes nothing of what has been written.
LEMMA StillWritten ==
    ASSUME NEW ends, Written(ends), mode # "write", mode' # "write", UNCHANGED writer
    PROVE  Written(ends)' /\ (Arrived => Arrived') /\ UNCHANGED <<calls, pushed, block, frames, stream>>
<1>1. UNCHANGED <<calls, pushed, block, frames, stream>>
  BY DEF writer
<1> QED
  BY <1>1 DEF Written, Arrived

LEMMA GetDataReplay ==
    ASSUME Replay, GetData
    PROVE  Replay'
<1>1. PICK ends : Written(ends) /\ Read(ends)
  BY DEF Replay
<1>2. /\ mode = "read" /\ next <= Len(calls) /\ calls[next][1] = "data"
      /\ UNCHANGED writer /\ cursor' = cursor /\ rblock' = rblock
  BY DEF GetData
<1>3. Arrived /\ Reading(ends) /\ cursor \in 0..Len(stream)
  BY <1>1, <1>2 DEF Read, Reading
<1> DEFINE s == ends[next - 1]
           n == calls[next][2]
<1>4. /\ s \in Nat /\ n \in Nat /\ ends[next] = s + n
      /\ next \in 1..Len(calls) /\ next + 1 \in 1..(Len(calls) + 1) /\ (next + 1) - 1 = next
  BY <1>1, <1>2, <1>3, CallNow
<1>5. got = Bytes(0, s) /\ AtByte(s, offset)
  BY <1>2, <1>3 DEF Reading
<1>6. IF Remaining >= n
        THEN /\ got' = got \o Here(n) /\ offset' = offset + n /\ next' = next + 1
             /\ UNCHANGED <<out, accounted, mode>>
        ELSE /\ out' = Here(Remaining) /\ accounted' = Remaining /\ mode' = "loop"
             /\ UNCHANGED <<got, offset, next>>
  BY DEF GetData
<1>7. mode' \in {"read", "loop"}
  BY <1>2, <1>6
<1>8. Written(ends)' /\ Arrived' /\ UNCHANGED <<calls, pushed, block, frames, stream>>
  BY <1>1, <1>2, <1>3, <1>7, StillWritten
<1>9. Len(rblock) \in Nat /\ offset \in 0..Len(rblock) /\ mode # "write"
  BY <1>1, <1>2, <1>3, <1>4, <1>5, AtFacts
<1>10. n = calls[next][2] /\ s = ends[next - 1]
  OBVIOUS
<1> HIDE DEF s, n
<1>11. CASE Remaining >= n
  <2>1. offset + n <= Len(rblock)
    BY <1>4, <1>9, <1>11 DEF Remaining
  <2>2. Here(n) = Bytes(s, n)
    BY <1>1, <1>3, <1>4, <1>5, <1>9, <2>1, HereIs
  <2>3. Bytes(0, s) \o Bytes(s, n) = Bytes(0, s + n)
    BY <1>4, NextBytes
  <2>4. got' = Bytes(0, s + n) /\ offset' = offset + n /\ next' = next + 1 /\ mode' = "read"
    BY <1>2, <1>5, <1>6, <1>11, <2>2, <2>3
  <2>5. ends[next' - 1] = s + n
    BY <1>4, <2>4
  <2>6. ASSUME cursor = 0 PROVE AtByte(ends[next - 1], offset)'
    <3>1. rblock = << >> /\ offset = 0 /\ s = 0 /\ Len(rblock) = 0
      BY <1>1, <1>3, <1>4, <1>5, <1>9, <2>6, AtFacts
    <3>2. n = 0
      BY <1>4, <2>1, <3>1
    <3> QED
      BY <1>2, <2>4, <2>5, <2>6, <3>1, <3>2 DEF AtByte
  <2>7. ASSUME cursor # 0 PROVE AtByte(ends[next - 1], offset)'
    <3>1. /\ rblock = stream[cursor] /\ Start(rblock) \in Nat
          /\ offset \in 1..Len(rblock) /\ s = Start(rblock) + offset
      BY <1>1, <1>3, <1>4, <1>5, <1>9, <2>7, AtFacts
    <3>2. offset + n \in 1..Len(rblock) /\ s + n = Start(rblock) + (offset + n)
      BY <1>4, <1>9, <2>1, <3>1
    <3> QED
      BY <1>2, <1>8, <2>4, <2>5, <2>7, <3>1, <3>2 DEF AtByte
  <2>8. AtByte(ends[next - 1], offset)'
    BY <2>6, <2>7
  <2>9. Reading(ends)'
    BY <1>2, <1>3, <1>4, <1>8, <2>4, <2>5, <2>8 DEF Reading
  <2> QED
    BY <1>8, <2>4, <2>9 DEF Replay, Read
<1>12. CASE ~(Remaining >= n)
  <2> DEFINE r == Remaining
  <2>1. r \in Nat /\ r < n /\ offset + r = Len(rblock)
    BY <1>4, <1>9, <1>12 DEF Remaining
  <2>2. Here(r) = Bytes(s, r)
    <3> HIDE DEF r
    <3>1. offset + r <= Len(rblock)
      BY <1>9, <2>1
    <3> QED
      BY <1>1, <1>3, <1>4, <1>5, <1>9, <2>1, <3>1, HereIs
  <2>3. /\ out' = Bytes(s, r) /\ accounted' = r /\ mode' = "loop"
        /\ got' = got /\ offset' = offset /\ next' = next
    BY <1>6, <1>12, <2>2
  <2> HIDE DEF r
  <2>4. AtByte(s + r, Len(rblock))
    <3>1. CASE cursor = 0
      BY <1>1, <1>3, <1>4, <1>5, <1>9, <2>1, <3>1, AtFacts DEF AtByte
    <3>2. CASE cursor # 0
      <4>1. /\ rblock = stream[cursor] /\ Start(rblock) \in Nat
            /\ offset \in 1..Len(rblock) /\ s = Start(rblock) + offset
        BY <1>1, <1>3, <1>4, <1>5, <1>9, <3>2, AtFacts
      <4>2. s + r = Start(rblock) + Len(rblock) /\ Len(rblock) \in 1..Len(rblock)
        BY <1>4, <1>9, <2>1, <4>1
      <4> QED
        BY <3>2, <4>1, <4>2 DEF AtByte
    <3> QED
      BY <3>1, <3>2
  <2>5. AtByte(ends[next - 1] + accounted, Len(rblock))'
    BY <1>2, <1>8, <1>10, <2>3, <2>4 DEF AtByte
  <2>6. Reading(ends)'
    BY <1>2, <1>3, <1>4, <1>5, <1>8, <1>10, <2>1, <2>3, <2>5 DEF Reading
  <2> QED
    BY <1>8, <2>3, <2>6 DEF Replay, Read
<1> QED
  BY <1>11, <1>12

\* Where the loop of get_data is.
LEMMA LoopFacts ==
    ASSUME NEW ends, Written(ends), Read(ends), mode = "loop"
    PROVE  LET s == ends[next - 1]
               n == calls[next][2]
           IN  /\ mode # "write" /\ Arrived /\ Reading(ends) /\ cursor \in 0..Len(stream)
               /\ next \in 1..Len(calls) /\ next + 1 \in 1..(Len(calls) + 1) /\ (next + 1) - 1 = next
               /\ s \in Nat /\ n \in Nat /\ n \in Lengths /\ ends[next] = s + n
               /\ accounted \in 0..n /\ s + accounted \in Nat
               /\ got = Bytes(0, s) /\ out = Bytes(s, accounted)
               /\ AtByte(s + accounted, Len(rblock)) /\ MaxBlock \in Nat /\ MaxBlock > 0
<1>1. Arrived /\ Reading(ends)
  BY DEF Read
<1>2. /\ next <= Len(calls) /\ calls[next][1] = "data" /\ accounted \in 0..calls[next][2]
      /\ out = Bytes(ends[next - 1], accounted) /\ got = Bytes(0, ends[next - 1])
      /\ AtByte(ends[next - 1] + accounted, Len(rblock)) /\ cursor \in 0..Len(stream)
  BY <1>1 DEF Reading
<1>3. /\ next \in 1..Len(calls) /\ next + 1 \in 1..(Len(calls) + 1) /\ (next + 1) - 1 = next
      /\ ends[next - 1] \in Nat /\ calls[next][2] \in Nat
      /\ ends[next] = ends[next - 1] + calls[next][2] /\ calls[next][2] \in Lengths
  BY <1>1, <1>2, CallNow
<1>4. MaxBlock \in Nat /\ MaxBlock > 0
  BY Sizes
<1>5. ends[next - 1] + accounted \in Nat
  BY <1>2, <1>3
<1> QED
  BY <1>1, <1>2, <1>3, <1>4, <1>5

\* No length that get_data is called with reaches the range of bytes_accounted.
NoWrap == \A n \in Lengths : n < U32

LEMMA GetWholeReplay ==
    ASSUME Replay, GetWhole, NoWrap
    PROVE  Replay'
<1>1. PICK ends : Written(ends) /\ Read(ends)
  BY DEF Replay
<1> DEFINE s == ends[next - 1]
           n == calls[next][2]
           x == stream[cursor + 1]
           pos == s + accounted
<1>2. /\ mode = "loop" /\ mode' = "loop" /\ n - accounted >= MaxBlock
      /\ cursor < Len(stream) /\ Len(x) = MaxBlock
      /\ out' = CopyOut(x) /\ accounted' = Account(MaxBlock)
      /\ cursor' = cursor + 1 /\ rblock' = x /\ offset' = MaxBlock
      /\ UNCHANGED writer /\ next' = next /\ got' = got
  BY DEF GetWhole, NextHas
<1>3. /\ mode # "write" /\ Arrived /\ Reading(ends) /\ cursor \in 0..Len(stream)
      /\ next \in 1..Len(calls)
      /\ s \in Nat /\ n \in Nat /\ n \in Lengths /\ accounted \in 0..n /\ pos \in Nat
      /\ got = Bytes(0, s) /\ out = Bytes(s, accounted) /\ AtByte(pos, Len(rblock))
      /\ MaxBlock \in Nat /\ MaxBlock > 0
  BY <1>1, <1>2, LoopFacts
<1>4. Written(ends)' /\ Arrived' /\ UNCHANGED <<calls, pushed, block, frames, stream>>
  BY <1>1, <1>2, <1>3, StillWritten
<1>5. pos = s + accounted
  OBVIOUS
<1> HIDE DEF s, n, pos
<1>6. cursor + 1 \in 1..Len(stream) /\ Start(x) = pos /\ x = Bytes(pos, MaxBlock)
  BY <1>1, <1>2, <1>3, NextBlock
<1>7. accounted' = accounted + MaxBlock /\ accounted + MaxBlock \in 0..n
  <2>1. n < U32 /\ U32 \in Nat
    BY <1>3, SizesAssumption DEF NoWrap
  <2>2. accounted + MaxBlock \in 0..n /\ accounted + MaxBlock < U32
    BY <1>2, <1>3, <2>1
  <2>3. (accounted + MaxBlock) % U32 = accounted + MaxBlock
    BY <1>3, <2>1, <2>2
  <2> QED
    BY <1>2, <2>2, <2>3 DEF Account
<1>8. out' = Bytes(s, accounted + MaxBlock)
  <2>1. CopyOut(Bytes(s + accounted, MaxBlock)) = Bytes(s, accounted + MaxBlock)
    BY <1>3, CopyOutIs
  <2> QED
    BY <1>2, <1>5, <1>6, <2>1
<1>9. AtByte(ends[next - 1] + accounted, Len(rblock))'
  <2>1. cursor' # 0 /\ rblock' = stream'[cursor'] /\ Len(rblock') = MaxBlock
    BY <1>2, <1>3, <1>4
  <2>2. ends[next' - 1] + accounted' = Start(rblock') + Len(rblock')
    <3>1. ends[next' - 1] = s
      BY <1>2 DEF s
    <3>2. s + (accounted + MaxBlock) = pos + MaxBlock
      BY <1>3, <1>5
    <3> QED
      BY <1>2, <1>6, <1>7, <2>1, <3>1, <3>2
  <2>3. offset' \in 1..Len(rblock') /\ Len(rblock') \in 1..Len(rblock')
    BY <1>2, <1>3, <2>1
  <2> QED
    BY <2>1, <2>2, <2>3 DEF AtByte
<1>10. Reading(ends)'
  <2>1. cursor' \in 0..Len(stream')
    BY <1>2, <1>3, <1>4, <1>6
  <2>2. ends[next' - 1] = s /\ calls'[next'][2] = n /\ calls'[next'][1] = "data"
        /\ next' <= Len(calls') /\ next' \in 1..(Len(calls') + 1)
    BY <1>2, <1>3, <1>4 DEF Reading, s, n
  <2>3. offset' = Len(rblock')
    BY <1>2
  <2> QED
    BY <1>2, <1>3, <1>7, <1>8, <1>9, <2>1, <2>2, <2>3 DEF Reading
<1> QED
  BY <1>2, <1>4, <1>10 DEF Replay, Read

LEMMA GetRestReplay ==
    ASSUME Replay, GetRest
    PROVE  Replay'
<1>1. PICK ends : Written(ends) /\ Read(ends)
  BY DEF Replay
<1> DEFINE s == ends[next - 1]
           n == calls[next][2]
           x == stream[cursor + 1]
           pos == s + accounted
           r == n - accounted
<1>2. /\ mode = "loop" /\ mode' = "read" /\ r \in 1..(MaxBlock - 1)
      /\ cursor < Len(stream) /\ Len(x) \in r..MaxBlock
      /\ got' = got \o CopyOut(SubSeq(x, 1, r))
      /\ cursor' = cursor + 1 /\ rblock' = x /\ offset' = r
      /\ UNCHANGED writer /\ next' = next + 1
  BY DEF GetRest, NextHas
<1>3. /\ mode # "write" /\ Arrived /\ Reading(ends) /\ cursor \in 0..Len(stream)
      /\ next \in 1..Len(calls) /\ next + 1 \in 1..(Len(calls) + 1) /\ (next + 1) - 1 = next
      /\ s \in Nat /\ n \in Nat /\ accounted \in 0..n /\ pos \in Nat /\ ends[next] = s + n
      /\ got = Bytes(0, s) /\ out = Bytes(s, accounted) /\ AtByte(pos, Len(rblock))
      /\ MaxBlock \in Nat /\ MaxBlock > 0
  BY <1>1, <1>2, LoopFacts
<1>4. Written(ends)' /\ Arrived' /\ UNCHANGED <<calls, pushed, block, frames, stream>>
  BY <1>1, <1>2, <1>3, StillWritten
<1>5. pos = s + accounted /\ r = n - accounted
  OBVIOUS
<1> HIDE DEF s, n, pos, r
<1>6. accounted + r = n /\ r \in Nat /\ accounted \in Nat
  BY <1>2, <1>3, <1>5
<1>7. /\ cursor + 1 \in 1..Len(stream) /\ Start(x) = pos /\ x = Bytes(pos, Len(x))
      /\ Len(x) \in 1..MaxBlock
  BY <1>1, <1>2, <1>3, NextBlock
<1>8. SubSeq(x, 1, r) = Bytes(pos, r)
  <2> DEFINE m == Len(x)
  <2>1. m \in Nat /\ r <= m
    BY <1>2, <1>3, <1>7
  <2> HIDE DEF m
  <2>2. \A k \in Nat, j \in Nat :
          k + j <= m => SubSeq(Bytes(pos, m), k + 1, k + j) = Bytes(pos + k, j)
    BY <1>3, <2>1, BytesPart
  <2>3. 0 + r <= m /\ 0 + 1 = 1 /\ 0 + r = r /\ pos + 0 = pos
    BY <1>3, <1>6, <2>1
  <2>4. SubSeq(Bytes(pos, m), 0 + 1, 0 + r) = Bytes(pos + 0, r)
    BY <1>6, <2>2, <2>3
  <2>5. SubSeq(Bytes(pos, m), 1, r) = Bytes(pos, r)
    BY <2>3, <2>4
  <2> QED
    BY <1>7, <2>5 DEF m
<1>9. got' = Bytes(0, s + n)
  <2>1. CopyOut(Bytes(s + accounted, r)) = Bytes(s, accounted + r)
    BY <1>3, <1>6, CopyOutIs
  <2>2. Bytes(0, s) \o Bytes(s, n) = Bytes(0, s + n)
    BY <1>3, NextBytes
  <2> QED
    BY <1>2, <1>3, <1>5, <1>6, <1>8, <2>1, <2>2
<1>10. ends[next' - 1] = s + n
  BY <1>2, <1>3
<1>11. AtByte(ends[next - 1], offset)'
  <2>1. cursor' # 0 /\ rblock' = stream'[cursor'] /\ offset' \in 1..Len(rblock')
    BY <1>2, <1>3, <1>4, <1>7
  <2>2. s + n = Start(rblock') + offset'
    BY <1>2, <1>3, <1>5, <1>6, <1>7
  <2> QED
    BY <1>10, <2>1, <2>2 DEF AtByte
<1>12. Reading(ends)'
  <2>1. cursor' \in 0..Len(stream') /\ next' \in 1..(Len(calls') + 1)
    BY <1>2, <1>3, <1>4, <1>7
  <2> QED
    BY <1>2, <1>9, <1>10, <1>11, <2>1 DEF Reading
<1> QED
  BY <1>2, <1>4, <1>12 DEF Replay, Read

LEMMA GetDoneReplay ==
    ASSUME Replay, GetDone
    PROVE  Replay'
<1>1. PICK ends : Written(ends) /\ Read(ends)
  BY DEF Replay
<1> DEFINE s == ends[next - 1]
           n == calls[next][2]
<1>2. /\ mode = "loop" /\ mode' = "read" /\ n = accounted /\ got' = got \o out /\ next' = next + 1
      /\ UNCHANGED writer /\ cursor' = cursor /\ rblock' = rblock /\ offset' = offset
  BY DEF GetDone
<1>3. /\ mode # "write" /\ Arrived /\ Reading(ends) /\ cursor \in 0..Len(stream)
      /\ next + 1 \in 1..(Len(calls) + 1) /\ (next + 1) - 1 = next
      /\ s \in Nat /\ n \in Nat /\ ends[next] = s + n
      /\ got = Bytes(0, s) /\ out = Bytes(s, accounted) /\ AtByte(s + accounted, Len(rblock))
  BY <1>1, <1>2, LoopFacts
<1>4. Written(ends)' /\ Arrived' /\ UNCHANGED <<calls, pushed, block, frames, stream>>
  BY <1>1, <1>2, <1>3, StillWritten
<1>5. offset = Len(rblock)
  BY <1>2, <1>3 DEF Reading
<1> HIDE DEF s, n
<1>6. Bytes(0, s) \o Bytes(s, n) = Bytes(0, s + n)
  BY <1>3, NextBytes
<1>7. got' = Bytes(0, s + n) /\ ends[next' - 1] = s + n
  BY <1>2, <1>3, <1>6
<1>8. AtByte(ends[next - 1], offset)'
  BY <1>2, <1>3, <1>4, <1>5, <1>7 DEF AtByte
<1>9. Reading(ends)'
  BY <1>2, <1>3, <1>4, <1>7, <1>8 DEF Reading
<1> QED
  BY <1>2, <1>4, <1>9 DEF Replay, Read

\* A stream that is whole gives no reason to fail.
LEMMA FailReplay ==
    ASSUME Replay, GetDataFails \/ GetHeaderFails
    PROVE  Replay'
<1>1. PICK ends : Written(ends) /\ Read(ends)
  BY DEF Replay
<1>2. /\ mode \in {"read", "loop"} /\ mode' = "error" /\ next <= Len(calls)
      /\ UNCHANGED writer /\ UNCHANGED reader
  BY <1>1 DEF GetDataFails, GetHeaderFails, Throw, Read, Reading
<1>3. Arrived /\ Reading(ends) /\ cursor \in 0..Len(stream) /\ mode # "write"
  BY <1>1, <1>2 DEF Read, Reading
<1>4. Written(ends)' /\ UNCHANGED <<calls, pushed, block, frames, stream>>
  BY <1>1, <1>2, <1>3, StillWritten
<1>5. ends[next - 1] \in Nat /\ MaxBlock \in Nat /\ calls[next][2] \in Nat
  BY <1>1, <1>2, <1>3, CallNow, Sizes
<1>6. offset <= Len(rblock)
  <2>1. CASE mode = "read"
    <3>1. AtByte(ends[next - 1], offset)
      BY <1>3, <2>1 DEF Reading
    <3>2. Len(rblock) \in 0..MaxBlock /\ offset \in 0..Len(rblock)
      BY <1>1, <1>3, <1>5, <3>1, AtFacts
    <3> QED
      BY <1>5, <3>2
  <2>2. CASE mode = "loop"
    <3> DEFINE pos == ends[next - 1] + accounted
    <3>1. pos \in Nat /\ AtByte(pos, Len(rblock))
      BY <1>1, <2>2, LoopFacts
    <3> HIDE DEF pos
    <3>2. Len(rblock) \in 0..MaxBlock /\ offset \in 0..Len(rblock)
      BY <1>1, <1>3, <3>1, AtFacts
    <3> QED
      BY <1>5, <3>2
  <2> QED
    BY <1>2, <2>1, <2>2
<1>7. stream # frames
  <2> SUFFICES ASSUME stream = frames PROVE FALSE
    OBVIOUS
  <2>1. CASE GetDataFails
    <3>1. /\ mode = "loop" /\ calls[next][2] > accounted
          /\ LET n == calls[next][2] - accounted
             IN  IF n >= MaxBlock THEN ~NextHas({MaxBlock}) ELSE ~NextHas(n..MaxBlock)
      BY <2>1 DEF GetDataFails
    <3>2. accounted < calls[next][2]
      BY <1>1, <3>1, LoopFacts
    <3>3. LET n == calls[next][2] - accounted
          IN  IF n >= MaxBlock THEN NextHas({MaxBlock}) ELSE NextHas(n..MaxBlock)
      BY <1>1, <1>3, <3>1, <3>2, DataThere
    <3> QED
      BY <3>1, <3>3
  <2>2. CASE GetHeaderFails
    <3>1. /\ mode = "read" /\ calls[next][1] = "header"
          /\ LET n == calls[next][2]
             IN  IF Remaining = 0 THEN ~NextHas(n..MaxBlock) ELSE Remaining < n
      BY <2>2 DEF GetHeaderFails
    <3>2. LET n == calls[next][2]
          IN  IF Remaining = 0 THEN NextHas(n..MaxBlock) ELSE Remaining >= n
      BY <1>1, <1>2, <1>3, <3>1, HeaderThere
    <3>3. Remaining \in Int
      <4>1. AtByte(ends[next - 1], offset)
        BY <1>3, <3>1 DEF Reading
      <4>2. Len(rblock) \in 0..MaxBlock /\ offset \in 0..Len(rblock)
        BY <1>1, <1>3, <1>5, <4>1, AtFacts
      <4> QED
        BY <1>5, <4>2 DEF Remaining
    <3> QED
      BY <1>5, <3>1, <3>2, <3>3
  <2> QED
    BY <2>1, <2>2
<1>8. \E n \in Nat : got = Bytes(0, n)
  BY <1>3, <1>5 DEF Reading
<1>9. Failed'
  BY <1>2, <1>4, <1>6, <1>7, <1>8 DEF Failed, reader
<1> QED
  BY <1>2, <1>4, <1>9 DEF Replay, Read

LEMMA GetHeaderReplay ==
    ASSUME Replay, GetHeader
    PROVE  Replay'
<1>1. PICK ends : Written(ends) /\ Read(ends)
  BY DEF Replay
<1> DEFINE s == ends[next - 1]
           n == calls[next][2]
           fresh == Remaining = 0
           b == IF fresh THEN stream[cursor + 1] ELSE rblock
           o == IF fresh THEN 0 ELSE offset
<1>2. /\ mode = "read" /\ mode' = "read" /\ next <= Len(calls) /\ calls[next][1] = "header"
      /\ fresh => cursor < Len(stream)
      /\ Len(b) - o >= n
      /\ got' = got \o SubSeq(b, o + 1, o + n) /\ rblock' = b /\ offset' = o + n
      /\ cursor' = IF fresh THEN cursor + 1 ELSE cursor
      /\ next' = next + 1 /\ UNCHANGED writer
  BY DEF GetHeader
<1>3. Arrived /\ Reading(ends) /\ cursor \in 0..Len(stream) /\ mode # "write"
      /\ got = Bytes(0, s) /\ AtByte(s, offset)
  BY <1>1, <1>2 DEF Read, Reading
<1>4. /\ s \in Nat /\ n \in Nat /\ n > 0 /\ ends[next] = s + n
      /\ next + 1 \in 1..(Len(calls) + 1) /\ (next + 1) - 1 = next
  BY <1>1, <1>2, <1>3, CallNow
<1>5. Written(ends)' /\ Arrived' /\ UNCHANGED <<calls, pushed, block, frames, stream>>
  BY <1>1, <1>2, <1>3, StillWritten
<1> HIDE DEF s, n
<1>6. Len(rblock) \in Nat /\ offset \in 0..Len(rblock)
  <2>1. Len(rblock) \in 0..MaxBlock /\ offset \in 0..Len(rblock)
    BY <1>1, <1>3, <1>4, AtFacts
  <2> QED
    BY <2>1, Sizes
<1>7. /\ cursor' \in 1..Len(stream) /\ b = stream[cursor'] /\ Len(b) \in Nat
      /\ o \in Nat /\ Start(b) \in Nat /\ b = Bytes(Start(b), Len(b)) /\ s = Start(b) + o
  <2>1. CASE fresh
    <3>1. offset = Len(rblock) /\ cursor < Len(stream)
      BY <1>2, <1>6, <2>1 DEF Remaining
    <3>2. AtByte(s, Len(rblock))
      BY <1>3, <3>1
    <3>3. /\ cursor + 1 \in 1..Len(stream) /\ Len(stream[cursor + 1]) \in 1..MaxBlock
          /\ Start(stream[cursor + 1]) = s
          /\ stream[cursor + 1] = Bytes(s, Len(stream[cursor + 1]))
      BY <1>1, <1>3, <1>4, <3>1, <3>2, NextBlock
    <3>4. Len(stream[cursor + 1]) \in Nat
      BY <3>3, Sizes
    <3> QED
      BY <1>2, <1>4, <2>1, <3>3, <3>4
  <2>2. CASE ~fresh
    <3>1. cursor # 0
      BY <1>1, <1>3, <1>4, <1>6, <2>2, AtFacts DEF Remaining
    <3>2. /\ cursor \in 1..Len(stream) /\ rblock = stream[cursor] /\ Start(rblock) \in Nat
          /\ rblock = Bytes(Start(rblock), Len(rblock)) /\ s = Start(rblock) + offset
      BY <1>1, <1>3, <1>4, <3>1, AtFacts
    <3> QED
      BY <1>2, <1>6, <2>2, <3>2
  <2> QED
    BY <2>1, <2>2
<1> HIDE DEF b, o, fresh
<1>8. SubSeq(b, o + 1, o + n) = Bytes(s, n)
  <2> DEFINE a == Start(b)
             m == Len(b)
  <2>1. a \in Nat /\ m \in Nat /\ o + n <= m /\ b = Bytes(a, m) /\ s = a + o
    BY <1>2, <1>4, <1>7
  <2> HIDE DEF a, m
  <2>2. \A k \in Nat, j \in Nat :
          k + j <= m => SubSeq(Bytes(a, m), k + 1, k + j) = Bytes(a + k, j)
    BY <2>1, BytesPart
  <2> QED
    BY <1>4, <1>7, <2>1, <2>2
<1>9. got' = Bytes(0, s + n) /\ ends[next' - 1] = s + n
  <2>1. Bytes(0, s) \o Bytes(s, n) = Bytes(0, s + n)
    BY <1>4, NextBytes
  <2> QED
    BY <1>2, <1>3, <1>4, <1>8, <2>1
<1>10. AtByte(ends[next - 1], offset)'
  <2>1. cursor' # 0 /\ rblock' = stream'[cursor'] /\ offset' \in 1..Len(rblock')
    BY <1>2, <1>4, <1>5, <1>7
  <2>2. s + n = Start(rblock') + offset'
    BY <1>2, <1>4, <1>7
  <2> QED
    BY <1>9, <2>1, <2>2 DEF AtByte
<1>11. Reading(ends)'
  <2>1. cursor' \in 0..Len(stream')
    <3>1. Len(stream) \in Nat
      BY <1>1, <1>3, StreamFacts
    <3> QED
      BY <1>5, <1>7, <3>1
  <2>2. next' \in 1..(Len(calls') + 1)
    BY <1>2, <1>4, <1>5
  <2> QED
    BY <1>2, <1>9, <1>10, <2>1, <2>2 DEF Reading
<1> QED
  BY <1>2, <1>5, <1>11 DEF Replay, Read

LEMMA FinishReadReplay ==
    ASSUME Replay, FinishRead
    PROVE  Replay'
<1>1. PICK ends : Written(ends) /\ Read(ends)
  BY DEF Replay
<1>2. /\ mode = "read" /\ next > Len(calls) /\ mode' = "ok" /\ UNCHANGED writer
      /\ UNCHANGED <<next, cursor, rblock, offset, out, accounted, got>>
  BY DEF FinishRead, reader
<1>3. Arrived /\ Reading(ends) /\ mode # "write" /\ mode' # "write"
  BY <1>1, <1>2 DEF Read
<1>4. Written(ends)' /\ Arrived' /\ UNCHANGED <<calls, pushed, block, frames, stream>>
  BY <1>1, <1>2, <1>3, StillWritten
<1>5. next = Len(calls) + 1
  <2>1. Len(calls) \in Nat /\ next \in 1..(Len(calls) + 1)
    BY <1>1, <1>3 DEF Written, Bounds, Reading
  <2> QED
    BY <1>2, <2>1
<1>6. Reading(ends)'
  BY <1>2, <1>3, <1>4, <1>5 DEF Reading, AtByte
<1> QED
  BY <1>2, <1>4, <1>6 DEF Replay, Read

\* However the stream is cut short, what is left of it is what was written.
LEMMA ArriveReplay ==
    ASSUME Replay, Arrive
    PROVE  Replay'
<1>1. PICK ends : Written(ends) /\ Read(ends)
  BY DEF Replay
<1>2. /\ mode = "written" /\ mode' = "read" /\ stream' \in {frames} \cup CutShort(frames)
      /\ UNCHANGED <<calls, pushed, block, frames, next, cursor, rblock, offset, out, accounted, got>>
  BY DEF Arrive, reader
<1>3. /\ frames \in Seq(Seq(Nat)) /\ Len(frames) \in Nat
      /\ \A k \in 1..Len(frames) : Run(frames[k]) /\ Len(frames[k]) \in Nat /\ Len(frames[k]) > 0
  <2>1. \A k \in 1..Len(frames) : Run(frames[k]) /\ Len(frames[k]) \in 1..MaxBlock
    BY <1>1, <1>2, FrameFacts
  <2> QED
    BY <1>1, <2>1, Sizes DEF Written, Layout
<1> DEFINE Good(s) ==
      /\ s \in Seq(Seq(Nat)) /\ Len(s) <= Len(frames)
      /\ \A k \in 1..Len(s) :
           /\ s[k] # << >> /\ Len(s[k]) <= Len(frames[k])
           /\ s[k] = Bytes(Start(frames[k]), Len(s[k]))
           /\ k < Len(s) => s[k] = frames[k]
<1>4. \A k \in 1..Len(frames) :
        /\ frames[k] \in Seq(Nat) /\ frames[k] # << >> /\ Start(frames[k]) \in Nat
        /\ frames[k] = Bytes(Start(frames[k]), Len(frames[k]))
  BY <1>3 DEF Run
<1> DEFINE Whole(k) ==
      /\ frames[k] # << >> /\ Len(frames[k]) <= Len(frames[k])
      /\ frames[k] = Bytes(Start(frames[k]), Len(frames[k]))
<1>5. \A k \in 1..Len(frames) : Whole(k)
  BY <1>3, <1>4
<1>6. ASSUME NEW m \in 0..Len(frames)
      PROVE  /\ SubSeq(frames, 1, m) \in Seq(Seq(Nat)) /\ Len(SubSeq(frames, 1, m)) = m
             /\ \A k \in 1..m : SubSeq(frames, 1, m)[k] = frames[k] /\ k \in 1..Len(frames)
  BY <1>3
<1>7. Good(frames)
  BY <1>3, <1>4
<1>8. ASSUME NEW m \in 1..Len(frames) PROVE Good(SubSeq(frames, 1, m - 1))
  <2> DEFINE s == SubSeq(frames, 1, m - 1)
  <2>1. m - 1 \in 0..Len(frames)
    BY <1>3
  <2>2. s \in Seq(Seq(Nat)) /\ Len(s) = m - 1 /\ \A k \in 1..(m - 1) : s[k] = frames[k] /\ k \in 1..Len(frames)
    BY <1>6, <2>1
  <2> HIDE DEF s
  <2>3. \A k \in 1..(m - 1) : /\ s[k] # << >> /\ Len(s[k]) <= Len(frames[k])
                              /\ s[k] = Bytes(Start(frames[k]), Len(s[k]))
    BY <1>5, <2>2
  <2>4. Len(s) <= Len(frames)
    BY <1>3, <2>1, <2>2
  <2>5. Good(s)
    BY <2>2, <2>3, <2>4
  <2> QED
    BY <2>5 DEF s
<1>9. ASSUME NEW m \in 1..Len(frames), NEW j \in 1..(Len(frames[m]) - 1)
      PROVE  Good(Append(SubSeq(frames, 1, m - 1), SubSeq(frames[m], 1, j)))
  <2> DEFINE t == SubSeq(frames, 1, m - 1)
             x == SubSeq(frames[m], 1, j)
             s == Append(t, x)
             a == Start(frames[m])
             n == Len(frames[m])
  <2>1. m - 1 \in 0..Len(frames) /\ m \in Nat
    BY <1>3
  <2>2. t \in Seq(Seq(Nat)) /\ Len(t) = m - 1 /\ \A k \in 1..(m - 1) : t[k] = frames[k] /\ k \in 1..Len(frames)
    BY <1>6, <2>1
  <2>3. a \in Nat /\ n \in Nat /\ j \in Nat /\ j <= n /\ j > 0 /\ frames[m] = Bytes(a, n)
    BY <1>3, <1>4
  <2> HIDE DEF t, a, n
  <2>4. x = Bytes(a, j)
    <3>1. \A k \in Nat, i \in Nat :
            k + i <= n => SubSeq(Bytes(a, n), k + 1, k + i) = Bytes(a + k, i)
      BY <2>3, BytesPart
    <3>2. SubSeq(Bytes(a, n), 0 + 1, 0 + j) = Bytes(a + 0, j)
      BY <2>3, <3>1
    <3>3. 0 + 1 = 1 /\ 0 + j = j /\ a + 0 = a
      BY <2>3
    <3> QED
      BY <2>3, <3>2, <3>3
  <2> HIDE DEF x
  <2>5. x \in Seq(Nat) /\ Len(x) = j /\ x # << >>
    <3>1. Bytes(a, j) \in Seq(Nat) /\ Len(Bytes(a, j)) = j
      BY <2>3, BytesAt
    <3>2. j # 0
      BY <2>3
    <3> QED
      BY <2>3, <2>4, <3>1, <3>2
  <2>6. /\ s \in Seq(Seq(Nat)) /\ Len(s) = m /\ s[m] = x
        /\ \A k \in 1..(m - 1) : s[k] = t[k]
    BY <2>1, <2>2, <2>5
  <2> HIDE DEF s
  <2>7. ASSUME NEW k \in 1..m
        PROVE  /\ s[k] # << >> /\ Len(s[k]) <= Len(frames[k])
               /\ s[k] = Bytes(Start(frames[k]), Len(s[k]))
               /\ k < m => s[k] = frames[k]
    <3>1. CASE k = m
      BY <2>1, <2>3, <2>4, <2>5, <2>6, <3>1 DEF a, n
    <3>2. CASE k \in 1..(m - 1)
      BY <1>5, <2>2, <2>6, <3>2
    <3> QED
      BY <2>1, <3>1, <3>2
  <2>8. Good(s)
    BY <2>1, <2>6, <2>7
  <2> QED
    BY <2>8 DEF s, t, x
<1>10. Good(stream')
  <2> HIDE DEF Good
  <2>1. \A s \in CutShort(frames) : Good(s)
    BY <1>8, <1>9 DEF CutShort
  <2> QED
    BY <1>2, <1>7, <2>1
<1>11. Arrived'
  BY <1>2, <1>10 DEF Arrived
<1>12. Written(ends)'
  BY <1>1, <1>2 DEF Written
<1>13. Idle /\ ends[0] = 0 /\ Len(calls) \in Nat
  BY <1>1, <1>2 DEF Read, Written, Bounds
<1>14. Reading(ends)'
  <2>1. got' = Bytes(0, ends[next' - 1]) /\ ends[next' - 1] = 0
    <3>1. next' - 1 = 0 /\ got' = << >>
      BY <1>2, <1>13 DEF Idle
    <3>2. Bytes(0, 0) = << >>
      BY BytesAt
    <3> QED
      BY <1>13, <3>1, <3>2
  <2>2. cursor' = 0 /\ next' = 1 /\ rblock' = << >> /\ offset' = 0
    BY <1>2, <1>13 DEF Idle
  <2>3. AtByte(ends[next - 1], offset)'
    BY <2>1, <2>2 DEF AtByte
  <2>4. cursor' \in 0..Len(stream') /\ next' \in 1..(Len(calls') + 1)
    BY <1>2, <1>10, <1>13, <2>2
  <2> QED
    BY <1>2, <2>1, <2>3, <2>4 DEF Reading
<1> QED
  BY <1>2, <1>11, <1>12, <1>14 DEF Replay, Read

LEMMA NextReplay ==
    ASSUME NoWrap, Replay, WriterInv, [Next]_vars
    PROVE  Replay'
<1>1. CASE WriterStep
  BY <1>1, PushReplay, FinishReplay, ArriveReplay DEF WriterStep
<1>2. CASE ReaderStep
  BY <1>2, GetDataReplay, GetWholeReplay, GetRestReplay, GetDoneReplay, FailReplay,
     GetHeaderReplay, FinishReadReplay DEF ReaderStep
<1>3. CASE UNCHANGED vars
  BY <1>3 DEF vars, writer, reader, Replay, Written, Read, Idle, Arrived, Reading, AtByte, Failed
<1> QED
  BY <1>1, <1>2, <1>3 DEF Next, Terminated

--------------------------------------------------------------------------------
(* What the reader returns                                                  *)

\* A reader that has read every call has used up the whole stream.
LEMMA ReadWhole ==
    ASSUME NEW ends, Written(ends), Read(ends), mode = "ok"
    PROVE  stream = frames /\ Len(got) = pushed /\ cursor = Len(stream) /\ Remaining = 0
<1>1. /\ mode # "write" /\ Arrived /\ cursor \in 0..Len(stream) /\ next = Len(calls) + 1
      /\ got = Bytes(0, ends[next - 1]) /\ AtByte(ends[next - 1], offset)
  BY DEF Read, Reading
<1>2. Len(calls) \in Nat /\ ends[Len(calls)] = pushed /\ pushed \in Nat /\ next - 1 = Len(calls)
  BY <1>1 DEF Written, Bounds
<1>3. got = Bytes(0, pushed) /\ AtByte(pushed, offset)
  BY <1>1, <1>2
<1>4. Len(got) = pushed
  BY <1>2, <1>3, BytesAt
<1>5. Len(stream) \in Nat /\ Len(frames) \in Nat /\ Len(stream) <= Len(frames)
  BY <1>1, StreamFacts, FrameFacts DEF Arrived
<1>6. CASE cursor = 0
  <2>1. pushed = 0 /\ offset = 0 /\ Len(rblock) = 0
    BY <1>1, <1>2, <1>3, <1>6, AtFacts
  <2>2. Len(frames) = 0
    <3> SUFFICES ASSUME Len(frames) # 0 PROVE FALSE
      OBVIOUS
    <3>1. 1 \in 1..Len(frames)
      BY <1>5
    <3>2. /\ End(frames[1]) = Start(frames[1]) + Len(frames[1]) /\ End(frames[1]) <= pushed
          /\ Start(frames[1]) \in Nat /\ Len(frames[1]) \in 1..MaxBlock
      BY <1>1, <3>1, FrameFacts
    <3> QED
      BY <2>1, <3>2, Sizes
  <2>3. stream = << >> /\ frames = << >> /\ Len(stream) = 0
    BY <1>1, <1>5, <2>2 DEF Written, Layout, Arrived
  <2> QED
    BY <1>4, <1>6, <2>1, <2>3 DEF Remaining
<1>7. CASE cursor # 0
  <2>1. /\ cursor \in 1..Len(stream) /\ rblock = stream[cursor] /\ Start(rblock) \in Nat
        /\ offset \in 1..Len(rblock) /\ pushed = Start(rblock) + offset
        /\ Len(rblock) \in 0..MaxBlock
    BY <1>1, <1>2, <1>3, <1>7, AtFacts
  <2>2. cursor \in 1..Len(frames) /\ Start(rblock) = Start(frames[cursor])
    BY <1>1, <2>1, StreamFacts
  <2>3. /\ End(frames[cursor]) = Start(frames[cursor]) + Len(frames[cursor])
        /\ Len(frames[cursor]) \in Nat /\ End(frames[cursor]) <= pushed
    BY <1>1, <2>2, Sizes, FrameFacts
  <2>4. Len(rblock) <= Len(frames[cursor])
    BY <1>1, <2>1 DEF Arrived
  <2>5. /\ offset = Len(rblock) /\ Len(rblock) = Len(frames[cursor]) /\ End(frames[cursor]) = pushed
    BY <1>2, <2>1, <2>2, <2>3, <2>4, Sizes
  <2>6. cursor = Len(frames)
    <3> SUFFICES ASSUME cursor # Len(frames) PROVE FALSE
      OBVIOUS
    <3>1. cursor + 1 \in 1..Len(frames)
      BY <1>5, <2>2
    <3>2. Start(frames[cursor + 1]) = pushed
      BY <1>1, <2>2, <2>5, <3>1, FrameFacts
    <3>3. /\ End(frames[cursor + 1]) = Start(frames[cursor + 1]) + Len(frames[cursor + 1])
          /\ Len(frames[cursor + 1]) \in 1..MaxBlock /\ End(frames[cursor + 1]) <= pushed
      BY <1>1, <3>1, FrameFacts
    <3> QED
      BY <1>2, <3>2, <3>3, Sizes
  <2>7. Len(stream) = Len(frames) /\ cursor = Len(stream)
    BY <1>5, <2>1, <2>6
  <2>8. ASSUME NEW k \in 1..Len(stream) PROVE stream[k] = frames[k]
    <3>1. CASE k < Len(stream)
      BY <1>1, <3>1 DEF Arrived
    <3>2. CASE k = cursor
      <4>1. stream[k] = Bytes(Start(frames[k]), Len(stream[k]))
        BY <1>1 DEF Arrived
      <4>2. frames[k] = Bytes(Start(frames[k]), Len(frames[k]))
        BY <1>1, <2>2, <3>2, FrameFacts DEF Run
      <4> QED
        BY <2>1, <2>5, <3>2, <4>1, <4>2
    <3> QED
      BY <1>5, <2>7, <3>1, <3>2
  <2>9. stream = frames
    <3>1. stream \in Seq(Seq(Nat)) /\ frames \in Seq(Seq(Nat))
      BY <1>1 DEF Arrived, Written, Layout
    <3> QED
      BY <2>7, <2>8, <3>1, SeqEqual
  <2>10. Remaining = 0
    BY <2>1, <2>5, Sizes DEF Remaining
  <2> QED
    BY <1>4, <2>7, <2>9, <2>10
<1> QED
  BY <1>6, <1>7

LEMMA ReplayReadsBack == Replay => ReadsBack
<1> SUFFICES ASSUME NEW ends, Written(ends), Read(ends) PROVE ReadsBack
  BY DEF Replay
<1>1. mode \in {"write", "written", "read", "loop", "ok", "error"}
  BY DEF Read
<1>2. \E n \in Nat : got = Bytes(0, n)
  <2>1. Bytes(0, 0) = << >>
    BY BytesAt
  <2>2. CASE mode \in {"write", "written"}
    BY <2>1, <2>2 DEF Read, Idle
  <2>3. CASE mode \in {"read", "loop", "ok"}
    <3>1. /\ Bounds(calls, ends, pushed) /\ next \in 1..(Len(calls) + 1)
          /\ got = Bytes(0, ends[next - 1])
      BY <2>3 DEF Read, Reading, Written
    <3>2. Len(calls) \in Nat
      BY <3>1 DEF Bounds
    <3>3. next - 1 \in 0..Len(calls)
      BY <3>1, <3>2
    <3> QED
      BY <3>1, <3>3 DEF Bounds
  <2>4. CASE mode = "error"
    BY <2>4 DEF Read, Failed
  <2> QED
    BY <1>1, <2>2, <2>3, <2>4
<1>3. \A i \in 1..Len(got) : got[i] = i
  <2>1. PICK n \in Nat : got = Bytes(0, n)
    BY <1>2
  <2>2. Len(Bytes(0, n)) = n /\ \A i \in 1..n : Bytes(0, n)[i] = 0 + i
    BY BytesAt
  <2> QED
    BY <2>1, <2>2
<1>4. offset <= Len(rblock)
  <2>1. CASE mode \in {"write", "written"}
    BY <2>1 DEF Read, Idle
  <2>2. CASE mode \in {"read", "ok"}
    <3> DEFINE pos == ends[next - 1]
    <3>1. /\ mode # "write" /\ Arrived /\ cursor \in 0..Len(stream) /\ AtByte(pos, offset)
          /\ Bounds(calls, ends, pushed) /\ next \in 1..(Len(calls) + 1)
      BY <2>2 DEF Read, Reading, Written
    <3>2. Len(calls) \in Nat
      BY <3>1 DEF Bounds
    <3>3. pos \in Nat
      BY <3>1, <3>2 DEF Bounds
    <3> HIDE DEF pos
    <3>4. Len(rblock) \in 0..MaxBlock /\ offset \in 0..Len(rblock)
      BY <3>1, <3>3, AtFacts
    <3> QED
      BY <3>4, Sizes
  <2>3. CASE mode = "loop"
    <3> DEFINE pos == ends[next - 1] + accounted
    <3>1. /\ mode # "write" /\ Arrived /\ cursor \in 0..Len(stream)
          /\ pos \in Nat /\ AtByte(pos, Len(rblock))
      BY <2>3, LoopFacts
    <3> HIDE DEF pos
    <3>2. Len(rblock) \in 0..MaxBlock /\ offset \in 0..Len(rblock)
      BY <3>1, AtFacts
    <3> QED
      BY <3>2, Sizes
  <2>4. CASE mode = "error"
    BY <2>4 DEF Read, Failed
  <2> QED
    BY <1>1, <2>1, <2>2, <2>3, <2>4
<1>5. mode = "error" => stream # frames
  BY DEF Read, Failed
<1>6. mode = "ok" => stream = frames /\ Len(got) = pushed /\ cursor = Len(stream) /\ Remaining = 0
  BY ReadWhole
<1> QED
  BY <1>3, <1>4, <1>5, <1>6 DEF ReadsBack

\* The deserializer gets back the bytes the serializer pushed, from a stream
\* that arrives whole, and no others from one that does not, whatever the calls
\* and the sizes.  A length of 2^32 or more breaks it: bytes_accounted wraps.
THEOREM StreamReadsBack ==
    ASSUME NoWrap
    PROVE  Spec => []ReadsBack
<1>1. Init => Replay
  BY InitReplay
<1>2. Replay /\ WriterInv /\ [Next]_vars => Replay'
  BY NextReplay
<1>3. Replay => ReadsBack
  BY ReplayReadsBack
<1> QED
  BY <1>1, <1>2, <1>3, WriterInvariance, PTL DEF Spec

================================================================================
