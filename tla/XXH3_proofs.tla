------------------------------ MODULE XXH3_proofs ------------------------------
(***************************************************************************)
(* The checksum, checked by TLAPS.                                         *)
(*                                                                         *)
(* The digest of a stream is the hash of the whole stream, whatever the    *)
(* chunks, the sizes of stripes, blocks and buffer and the number of       *)
(* digests in between.  The accumulators come to the same values whichever *)
(* instruction set computes them, for words of any width.                  *)
(***************************************************************************)
EXTENDS XXH3Digest, SequenceTheorems, WellFoundedInduction, TLAPS

\* The position at which stripe n, counted from 0, begins.
Pos(n) == n * StripeLen

\* What the accumulators of a contiguous input are made of: n stripes in
\* order, and a scramble after each of q blocks.
Entry(i) ==
  [bytes |-> [k \in 1..StripeLen |-> Pos(i - 1) + k - 1], key |-> (i - 1) % StripesPerBlock]
Entries(n) == [i \in 1..n |-> Entry(i)]
Marks(q) == [b \in 1..q |-> b * StripesPerBlock]

Consumed(s, m, soFar) ==
  /\ Len(s) \in Nat /\ s = Entries(Len(s))
  /\ soFar \in 0..(StripesPerBlock - 1)
  /\ \E q \in Nat : Len(s) = q * StripesPerBlock + soFar /\ m = Marks(q)

\* The bytes of v from "at" on are those of k stripes from stripe n on.
Continues(v, at, n, k) == \A x \in 0..(Pos(k) - 1) : v[at + x] = Pos(n) + x

-----------------------------------------------------------------------------
(* Arithmetic                                                              *)

LEMMA Sizes ==
  /\ StripeLen \in Nat /\ StripeLen > 0 /\ StripesPerBlock \in Nat /\ StripesPerBlock > 0
  /\ BufferSize \in Nat /\ StripeLen <= BufferSize /\ BufferSize = Pos(BufferStripes)
  /\ MidSizeMax \in Nat /\ StripeLen <= MidSizeMax /\ MidSizeMax <= BufferSize
  /\ BufferStripes \in Nat /\ BufferStripes > 0
BY XXH3Assumption, StreamAssumption DEF BufferSize, Pos

LEMMA PosFacts ==
  /\ \A n \in Nat : Pos(n) \in Nat /\ (n > 0 => Pos(n) >= StripeLen)
  /\ Pos(0) = 0
  /\ \A m, n \in Nat : Pos(m + n) = Pos(m) + Pos(n)
<1> USE Sizes DEF Pos
<1>1. \A n \in Nat : Pos(n) \in Nat
  OBVIOUS
<1>2. \A n \in Nat : n > 0 => Pos(n) >= StripeLen
  OBVIOUS
<1>3. Pos(0) = 0 /\ \A m, n \in Nat : Pos(m + n) = Pos(m) + Pos(n)
  OBVIOUS
<1> QED
  BY <1>1, <1>2, <1>3

\* The whole stripes of n bytes.
LEMMA StripesIn ==
  ASSUME NEW n \in Nat
  PROVE  /\ n \div StripeLen \in Nat
         /\ Pos(n \div StripeLen) <= n /\ n < Pos(n \div StripeLen) + StripeLen
BY Sizes DEF Pos

\* Quotient and remainder are determined by n, q * n + r and the bounds of r.
LEMMA DivisionUnique ==
  ASSUME NEW n \in Nat, n > 0, NEW q \in Nat, NEW r \in 0..(n - 1)
  PROVE  (q * n + r) \div n = q /\ (q * n + r) % n = r
<1> DEFINE x == q * n + r
           d == x \div n
           e == x % n
<1>1. x \in Nat /\ d \in Nat /\ e \in 0..(n - 1) /\ x = d * n + e
  OBVIOUS
<1> HIDE DEF d, e
<1>2. (q - d) * n = e - r
  BY <1>1
<1>3. CASE q > d
  <2>1. (q - d) * n >= n
    BY <1>1, <1>3
  <2> QED
    BY <1>1, <1>2, <2>1
<1>4. CASE q < d
  <2>1. (d - q) * n >= n
    BY <1>1, <1>4
  <2>2. (d - q) * n = r - e
    BY <1>1
  <2> QED
    BY <1>1, <2>1, <2>2
<1>5. CASE q = d
  BY <1>1, <1>2, <1>5 DEF d, e
<1> QED
  BY <1>1, <1>3, <1>4, <1>5

LEMMA Below ==
  ASSUME NEW x \in 0..(StripesPerBlock - 1)
  PROVE  /\ x \in Nat /\ x < StripesPerBlock /\ StripesPerBlock - x \in 0..StripesPerBlock
         /\ \A n \in Nat : n < StripesPerBlock - x =>
              x + n < StripesPerBlock /\ x + n \in 0..(StripesPerBlock - 1)
         /\ \A n \in Nat : ~(n >= StripesPerBlock - x) => n < StripesPerBlock - x
<1>1. StripesPerBlock \in Nat
  BY Sizes
<1> QED
  BY <1>1

-----------------------------------------------------------------------------
(* Accumulating                                                            *)

KeyedStripes == [bytes : [1..StripeLen -> Int], key : Int]

LEMMA EntriesSeq ==
  ASSUME NEW n \in Nat
  PROVE  Entries(n) \in Seq(KeyedStripes) /\ Len(Entries(n)) = n
<1>1. \A i \in 1..n : Entry(i) \in KeyedStripes
  <2> SUFFICES ASSUME NEW i \in 1..n PROVE Entry(i) \in KeyedStripes
    OBVIOUS
  <2>1. Pos(i - 1) \in Nat
    BY PosFacts
  <2>2. [k \in 1..StripeLen |-> Pos(i - 1) + k - 1] \in [1..StripeLen -> Int]
    BY <2>1, Sizes
  <2>3. (i - 1) % StripesPerBlock \in Int
    BY Sizes
  <2> QED
    BY <2>2, <2>3 DEF Entry, KeyedStripes
<1> QED
  BY <1>1 DEF Entries

\* Stripes that continue the input and do not cross the end of a block.
LEMMA AccumulateNext ==
  ASSUME NEW n \in Nat, NEW q \in Nat, NEW soFar \in 0..(StripesPerBlock - 1),
         n = q * StripesPerBlock + soFar,
         NEW v, NEW at \in Nat, NEW m \in Nat, soFar + m <= StripesPerBlock,
         Continues(v, at, n, m)
  PROVE  Accumulate(Entries(n), v, at, soFar, m) = Entries(n + m)
<1> DEFINE t == [i \in 1..m |-> [bytes |-> Stripe(v, at + (i - 1) * StripeLen),
                                 key |-> soFar + i - 1]]
<1>1. \A i \in 1..m : t[i] = Entry(n + i)
  <2> SUFFICES ASSUME NEW i \in 1..m PROVE t[i] = Entry(n + i)
    OBVIOUS
  <2>1. (n + i - 1) % StripesPerBlock = soFar + i - 1
    <3>1. n + i - 1 = q * StripesPerBlock + (soFar + i - 1)
      BY Sizes
    <3>2. soFar + i - 1 \in 0..(StripesPerBlock - 1)
      BY Sizes
    <3> QED
      BY <3>1, <3>2, DivisionUnique, Sizes
  <2>2. Pos(n + i - 1) = Pos(n) + Pos(i - 1)
    BY PosFacts
  <2>3. \A k \in 1..StripeLen : Pos(i - 1) + k - 1 \in 0..(Pos(m) - 1)
    <3> DEFINE a == i - 1
               b == m - (i - 1)
    <3>1. a \in Nat /\ b \in Nat /\ b > 0 /\ a + b = m
      OBVIOUS
    <3> HIDE DEF a, b
    <3>2. Pos(m) = Pos(a) + Pos(b) /\ Pos(b) >= StripeLen
      BY <3>1, PosFacts
    <3>3. Pos(a) \in Nat /\ Pos(m) \in Nat /\ Pos(b) \in Nat
      BY <3>1, PosFacts
    <3>4. \A k \in 1..StripeLen : Pos(a) + k - 1 \in 0..(Pos(m) - 1)
      BY <3>2, <3>3, Sizes
    <3> QED
      BY <3>4 DEF a
  <2>4. \A k \in 1..StripeLen : v[at + Pos(i - 1) + k - 1] = Pos(n + i - 1) + k - 1
    <3> SUFFICES ASSUME NEW k \in 1..StripeLen
                 PROVE v[at + Pos(i - 1) + k - 1] = Pos(n + i - 1) + k - 1
      OBVIOUS
    <3> DEFINE x == Pos(i - 1) + k - 1
    <3>1. x \in 0..(Pos(m) - 1)
      BY <2>3
    <3>2. v[at + x] = Pos(n) + x
      BY <3>1 DEF Continues
    <3>3. Pos(n) \in Nat /\ Pos(i - 1) \in Nat
      <4>1. i - 1 \in Nat
        OBVIOUS
      <4> HIDE DEF x
      <4> QED
        BY <4>1, PosFacts
    <3>4. at + x = at + Pos(i - 1) + k - 1
      BY <3>3
    <3> QED
      BY <3>2, <3>3, <3>4, <2>2
  <2>5. Stripe(v, at + (i - 1) * StripeLen)
          = [k \in 1..StripeLen |-> Pos((n + i) - 1) + k - 1]
    BY <2>4 DEF Stripe, Word, Pos
  <2>6. t[i] = [bytes |-> Stripe(v, at + (i - 1) * StripeLen), key |-> soFar + i - 1]
    OBVIOUS
  <2>7. Entry(n + i) = [bytes |-> [k \in 1..StripeLen |-> Pos((n + i) - 1) + k - 1],
                        key |-> ((n + i) - 1) % StripesPerBlock]
    BY DEF Entry
  <2>8. ((n + i) - 1) % StripesPerBlock = soFar + i - 1
    BY <2>1
  <2> HIDE DEF t
  <2> QED
    BY <2>5, <2>6, <2>7, <2>8
<1> HIDE DEF t
<1>2. t \in Seq(KeyedStripes) /\ Len(t) = m
  <2>1. \A i \in 1..m : Entry(n + i) \in KeyedStripes
    <3>1. Entries(n + m) \in Seq(KeyedStripes) /\ Len(Entries(n + m)) = n + m
      BY EntriesSeq
    <3> QED
      BY <3>1 DEF Entries
  <2>2. t = [i \in 1..m |-> Entry(n + i)]
    BY <1>1 DEF t
  <2> QED
    BY <2>1, <2>2
<1>3. Entries(n) \in Seq(KeyedStripes) /\ Len(Entries(n)) = n
  BY EntriesSeq
<1>4. Entries(n + m) \in Seq(KeyedStripes) /\ Len(Entries(n + m)) = n + m
  BY EntriesSeq
<1> DEFINE u == Entries(n) \o t
<1>5. u \in Seq(KeyedStripes) /\ Len(u) = n + m
  BY <1>2, <1>3
<1>9. u = Entries(n) \o t
  OBVIOUS
<1> HIDE DEF u
<1>6. \A i \in 1..(n + m) : u[i] = Entries(n + m)[i]
  <2> SUFFICES ASSUME NEW i \in 1..(n + m) PROVE u[i] = Entry(i)
    BY DEF Entries
  <2>1. CASE i <= n
    <3>1. u[i] = Entries(n)[i]
      BY <1>2, <1>3, <1>9, <2>1
    <3> QED
      BY <3>1, <2>1 DEF Entries
  <2>2. CASE i > n
    <3>1. u[i] = t[i - n]
      <4>1. PICK e \in Seq(KeyedStripes), s \in Seq(KeyedStripes) :
              e = Entries(n) /\ s = t /\ Len(e) = n /\ Len(s) = m
        BY <1>2, <1>3
      <4>2. \A j \in 1..(Len(e) + Len(s)) :
              (e \o s)[j] = IF j <= Len(e) THEN e[j] ELSE s[j - Len(e)]
        BY ConcatProperties
      <4>3. PICK j \in 1..(n + m) : j = i /\ j > n
        BY <2>2
      <4>4. j \in 1..(Len(e) + Len(s)) /\ ~(j <= Len(e))
        BY <4>1, <4>3
      <4>5. (e \o s)[j] = s[j - Len(e)]
        BY <4>2, <4>4, Zenon
      <4> QED
        BY <1>9, <4>1, <4>3, <4>5, Zenon
    <3>2. i - n \in 1..m /\ n + (i - n) = i
      BY <2>2
    <3> QED
      BY <1>1, <3>1, <3>2
  <2> QED
    BY <2>1, <2>2
<1>7. u = Entries(n + m)
  BY <1>4, <1>5, <1>6
<1> QED
  BY <1>7 DEF Accumulate, u, t

LEMMA MarkNext ==
  ASSUME NEW q \in Nat
  PROVE  Append(Marks(q), (q + 1) * StripesPerBlock) = Marks(q + 1)
<1>1. Marks(q) \in Seq(Nat) /\ Len(Marks(q)) = q
  BY Sizes DEF Marks
<1> DEFINE u == Append(Marks(q), (q + 1) * StripesPerBlock)
<1>2. u \in Seq(Nat) /\ Len(u) = q + 1
  BY <1>1, Sizes
<1>3. Marks(q + 1) \in Seq(Nat) /\ Len(Marks(q + 1)) = q + 1
  BY Sizes DEF Marks
<1>4. \A b \in 1..(q + 1) : u[b] = Marks(q + 1)[b]
  BY <1>1, Sizes DEF Marks
<1> HIDE DEF u
<1>5. u = Marks(q + 1)
  BY <1>2, <1>3, <1>4
<1> QED
  BY <1>5 DEF u

-----------------------------------------------------------------------------
(* The invariant                                                           *)

\* Between calls: everything before the buffered bytes has been consumed, and
\* the bytes that a digest of less than a stripe needs are at the buffer's end.
StateOK ==
  /\ Consumed(stripes, scrambles, nbStripesSoFar)
  /\ Pos(Len(stripes)) + bufferedSize = totalLen
  /\ \A o \in 0..(bufferedSize - 1) : buffer[o] = Pos(Len(stripes)) + o
  /\ Len(stripes) > 0 =>
       /\ bufferedSize > 0 /\ totalLen > BufferSize
       /\ \A o \in (BufferSize - StripeLen + bufferedSize)..(BufferSize - 1) :
            buffer[o] = Pos(Len(stripes)) - BufferSize + o

\* The last stripe of the buffer is the one that ends at position "end".
EndsAt(end) ==
  \A o \in (BufferSize - StripeLen)..(BufferSize - 1) : buffer[o] = end - BufferSize + o

\* An update past the point where the state is consistent.
Updating == bEnd = totalLen /\ totalLen > BufferSize /\ hash = NoHash

Consuming == pc \in {"blocks", "partial"}

\* A digest of a long stream, which leaves the state alone.
Digesting == pc = "last" \/ (Consuming /\ job.back = "last")

InvState ==
  /\ pc = "idle" \/ Digesting => StateOK
  /\ Digesting => totalLen > MidSizeMax /\ hash = NoHash

InvWork ==
  /\ Consuming => Consumed(wStripes, wScrambles, job.key)
  /\ pc \in {"bulk", "tail", "remainder", "last"} => Consumed(wStripes, wScrambles, wSoFar)

InvBulk ==
  pc = "bulk" =>
    /\ Updating
    /\ input = Pos(Len(wStripes)) /\ input < bEnd
    /\ Len(wStripes) > 0 => EndsAt(input)
    /\ Len(wStripes) = 0 => bEnd - input > BufferSize

InvTail ==
  pc \in {"tail", "remainder"} =>
    /\ Updating
    /\ input = Pos(Len(wStripes)) /\ Len(wStripes) > 0
    /\ input < bEnd /\ bEnd - input <= BufferSize

InvRemainder == pc = "remainder" => EndsAt(input)

InvLast ==
  pc = "last" => /\ Pos(Len(wStripes)) < totalLen
                 /\ totalLen <= Pos(Len(wStripes)) + StripeLen

\* The stripes still to be consumed are those that continue the accumulators.
InvJob ==
  Consuming =>
    /\ Continues(Source(job.from), job.at, Len(wStripes), job.left)
    /\ pc = "blocks" => job.left >= job.thisIter /\ job.thisIter = StripesPerBlock - job.key
    /\ pc = "partial" => job.left < StripesPerBlock - job.key /\ wSoFar = job.key

JobEnd == Pos(Len(wStripes) + job.left)

InvBack ==
  Consuming =>
    \/ /\ job.back = "bulk" /\ Updating
       /\ JobEnd = input /\ input < bEnd /\ Len(wStripes) + job.left > 0
       /\ job.from = "buffer" /\ EndsAt(input)
    \/ /\ job.back = "tail" /\ Updating
       /\ JobEnd < bEnd /\ bEnd - JobEnd <= StripeLen /\ Len(wStripes) + job.left > 0
       /\ job.from = "input" /\ job.at = Pos(Len(wStripes))
    \/ /\ job.back = "last"
       /\ JobEnd < totalLen /\ totalLen <= JobEnd + StripeLen
       /\ job.from = "buffer"

InvHash == hash # NoHash => pc = "idle" /\ hash = Hash64(Whole, totalLen)

Inv ==
  /\ TypeOK /\ InvState /\ InvWork /\ InvBulk /\ InvTail /\ InvRemainder
  /\ InvLast /\ InvJob /\ InvBack /\ InvHash

-----------------------------------------------------------------------------
(* The steps                                                               *)

LEMMA ConsumedNext ==
  ASSUME NEW s, NEW m, NEW key, Consumed(s, m, key),
         NEW v, NEW at \in Nat, NEW k \in Nat, key + k <= StripesPerBlock,
         Continues(v, at, Len(s), k)
  PROVE  /\ Len(Accumulate(s, v, at, key, k)) = Len(s) + k
         /\ key + k < StripesPerBlock => Consumed(Accumulate(s, v, at, key, k), m, key + k)
         /\ key + k = StripesPerBlock =>
              Consumed(Accumulate(s, v, at, key, k),
                       ScrambleAcc(m, Accumulate(s, v, at, key, k)), 0)
<1> DEFINE n == Len(s)
           t == Accumulate(s, v, at, key, k)
<1>1. n \in Nat /\ s = Entries(n) /\ key \in 0..(StripesPerBlock - 1)
  BY DEF Consumed
<1>2. PICK q \in Nat : n = q * StripesPerBlock + key /\ m = Marks(q)
  BY DEF Consumed
<1>3. t = Entries(n + k)
  <2>1. Continues(v, at, n, k)
    OBVIOUS
  <2> HIDE DEF n, t
  <2>2. Accumulate(Entries(n), v, at, key, k) = Entries(n + k)
    BY <1>1, <1>2, <2>1, AccumulateNext
  <2> QED
    BY <1>1, <2>2 DEF t
<1> HIDE DEF t, n
<1>4. n + k \in Nat /\ Len(t) = n + k
  BY <1>1, <1>3, EntriesSeq
<1>5. ASSUME key + k < StripesPerBlock PROVE Consumed(t, m, key + k)
  <2>1. n + k = q * StripesPerBlock + (key + k)
    BY <1>1, <1>2, Sizes
  <2>2. key + k \in 0..(StripesPerBlock - 1)
    BY <1>1, <1>5, Sizes
  <2> QED
    BY <1>2, <1>3, <1>4, <2>1, <2>2 DEF Consumed
<1>6. ASSUME key + k = StripesPerBlock PROVE Consumed(t, ScrambleAcc(m, t), 0)
  <2>1. n + k = (q + 1) * StripesPerBlock
    BY <1>1, <1>2, <1>6, Sizes
  <2>2. ScrambleAcc(m, t) = Marks(q + 1)
    BY <1>2, <1>4, <2>1, MarkNext DEF ScrambleAcc
  <2>3. 0 \in 0..(StripesPerBlock - 1) /\ q + 1 \in Nat
        /\ n + k = (q + 1) * StripesPerBlock + 0
    BY <2>1, <1>4, Sizes
  <2> QED
    BY <1>3, <1>4, <2>2, <2>3 DEF Consumed
<1> QED
  BY <1>4, <1>5, <1>6 DEF t, n

LEMMA InitInv == Init => Inv
<1> SUFFICES ASSUME Init PROVE Inv
  OBVIOUS
<1> USE DEF Init, Fresh
<1>1. TypeOK
  BY Sizes DEF TypeOK, NoJob
<1>2. Len(stripes) = 0 /\ Pos(0) = 0
  BY PosFacts
<1>3. Consumed(stripes, scrambles, nbStripesSoFar)
  <2>1. stripes = Entries(0) /\ scrambles = Marks(0)
    BY DEF Entries, Marks
  <2>2. 0 = 0 * StripesPerBlock + 0 /\ 0 \in 0..(StripesPerBlock - 1)
    BY Sizes
  <2> QED
    BY <1>2, <2>1, <2>2 DEF Consumed
<1>4. InvState
  BY <1>2, <1>3 DEF InvState, StateOK, Digesting, Consuming
<1> QED
  BY <1>1, <1>4 DEF Inv, InvWork, InvBulk, InvTail, InvRemainder, InvLast, InvJob, InvBack,
     InvHash, Consuming

LEMMA BlockKeeps ==
  ASSUME Inv, ConsumeBlock
  PROVE  Inv'
<1> DEFINE k == job.thisIter
           left == job.left - k
<1>1. /\ Consuming /\ pc = "blocks" /\ TypeOK
      /\ Consumed(wStripes, wScrambles, job.key)
      /\ k = StripesPerBlock - job.key /\ job.left >= k
      /\ Continues(Source(job.from), job.at, Len(wStripes), job.left)
      /\ InvBack /\ InvState /\ InvHash
  BY DEF Inv, ConsumeBlock, InvWork, InvJob, Consuming
<1>2. /\ job.at \in Nat /\ job.left \in Nat /\ k \in Nat /\ left \in Nat
      /\ job.key \in 0..(StripesPerBlock - 1) /\ job.key + k = StripesPerBlock
      /\ Len(wStripes) \in Nat
  <2>1. /\ job.at \in Nat /\ job.left \in Nat /\ job.key \in 0..(StripesPerBlock - 1)
        /\ Len(wStripes) \in Nat
    BY <1>1 DEF TypeOK, Consumed
  <2>2. /\ StripesPerBlock \in Nat /\ job.key \in Nat /\ job.key < StripesPerBlock
    BY <2>1, Sizes
  <2>3. PICK h \in Nat, p \in Nat : h = job.key /\ p = StripesPerBlock /\ h < p
    BY <2>2, Zenon
  <2>4. PICK z \in Nat : z = job.left /\ z >= p - h
    BY <1>1, <2>1, <2>3, Zenon
  <2>5. p - h \in Nat /\ h + (p - h) = p /\ z - (p - h) \in Nat
    BY <2>3, <2>4
  <2> QED
    BY <1>1, <2>1, <2>3, <2>4, <2>5, Zenon
<1>3. /\ job'.at = job.at + k * StripeLen /\ job'.left = left
      /\ job'.thisIter = StripesPerBlock /\ job'.key = 0
      /\ job'.from = job.from /\ job'.back = job.back
  BY <1>1 DEF ConsumeBlock, TypeOK
<1>4. /\ wStripes' = Accumulate(wStripes, Source(job.from), job.at, job.key, k)
      /\ wScrambles' = ScrambleAcc(wScrambles, wStripes')
      /\ IF left >= StripesPerBlock THEN pc' = pc /\ wSoFar' = wSoFar
         ELSE pc' = "partial" /\ wSoFar' = 0
      /\ UNCHANGED <<totalLen, bufferedSize, buffer, stripes, scrambles, nbStripesSoFar,
                     input, bEnd, hash, updates>>
  BY DEF ConsumeBlock, state
<1> HIDE DEF k, left
<1>5. Pos(job.left) = Pos(k) + Pos(left) /\ Pos(k) \in Nat /\ Pos(left) \in Nat
  <2>1. job.left = k + left
    BY <1>2 DEF left
  <2> QED
    BY <1>2, <2>1, PosFacts
<1>6. Continues(Source(job.from), job.at, Len(wStripes), k)
  BY <1>1, <1>5 DEF Continues
<1>7. Consumed(wStripes', wScrambles', 0) /\ Len(wStripes') = Len(wStripes) + k
  <2> DEFINE v == Source(job.from)
             key == job.key
             at == job.at
  <2>1. /\ Consumed(wStripes, wScrambles, key) /\ at \in Nat /\ key + k = StripesPerBlock
        /\ Continues(v, at, Len(wStripes), k)
        /\ wStripes' = Accumulate(wStripes, v, at, key, k)
        /\ wScrambles' = ScrambleAcc(wScrambles, wStripes')
    BY <1>1, <1>2, <1>4, <1>6
  <2> HIDE DEF v, key, at
  <2>2. key + k <= StripesPerBlock
    BY <2>1, Sizes
  <2> QED
    BY <1>2, <2>1, <2>2, ConsumedNext
<1>8. Source(job.from)' = Source(job.from)
  BY <1>3, <1>4 DEF Source
<1>9. Pos(Len(wStripes')) = Pos(Len(wStripes)) + Pos(k) /\ Pos(Len(wStripes)) \in Nat
  BY <1>2, <1>7, PosFacts
<1>10. Continues(Source(job.from), job'.at, Len(wStripes'), left)
  <2> SUFFICES ASSUME NEW x \in 0..(Pos(left) - 1)
               PROVE  Source(job.from)[job'.at + x] = Pos(Len(wStripes')) + x
    BY DEF Continues
  <2>1. Pos(k) + x \in 0..(Pos(job.left) - 1)
    BY <1>5
  <2>2. Source(job.from)[job.at + (Pos(k) + x)] = Pos(Len(wStripes)) + (Pos(k) + x)
    BY <1>1, <2>1 DEF Continues
  <2>3. job.at + (Pos(k) + x) = job'.at + x
    BY <1>2, <1>3, <1>5 DEF Pos
  <2> QED
    BY <2>2, <2>3, <1>5, <1>9
<1>11. Consuming'
  BY <1>1, <1>4 DEF Consuming
<1>12. JobEnd' = JobEnd /\ Len(wStripes') + job'.left = Len(wStripes) + job.left
  <2> DEFINE fed == Len(wStripes)
             fedAfter == Len(wStripes')
  <2>1. fedAfter = fed + k /\ fed \in Nat
    BY <1>2, <1>7
  <2>2. job'.left = job.left - k
    BY <1>3 DEF left
  <2> HIDE DEF fed, fedAfter
  <2>3. fedAfter + job'.left = fed + job.left
    BY <1>2, <2>1, <2>2
  <2>4. Len(wStripes') + job'.left = Len(wStripes) + job.left
    BY <2>3 DEF fed, fedAfter
  <2> QED
    BY <2>4, Zenon DEF JobEnd
<1>13. job'.at = job.at + Pos(k)
  BY <1>3 DEF Pos
<1>14. TypeOK'
  <2>1. job' \in [from : {"none", "buffer", "input"}, at : Nat, left : Nat,
              thisIter : 0..StripesPerBlock, key : 0..(StripesPerBlock - 1),
              back : {"idle", "bulk", "tail", "last"}]
    <3>1. job' = [from |-> job.from, at |-> job'.at, left |-> job'.left,
                  thisIter |-> StripesPerBlock, key |-> 0, back |-> job.back]
      BY <1>1, <1>3 DEF ConsumeBlock, TypeOK
    <3>2. job'.at \in Nat /\ job'.left \in Nat
      BY <1>2, <1>3, <1>5, <1>13
    <3>3. job.from \in {"none", "buffer", "input"} /\ job.back \in {"idle", "bulk", "tail", "last"}
      BY <1>1 DEF TypeOK
    <3>4. StripesPerBlock \in 0..StripesPerBlock /\ 0 \in 0..(StripesPerBlock - 1)
      BY Sizes
    <3> QED
      BY <3>1, <3>2, <3>3, <3>4
  <2>2. 0 \in 0..(StripesPerBlock - 1) /\ wSoFar \in 0..(StripesPerBlock - 1)
    BY <1>1, Sizes DEF TypeOK
  <2>3. wSoFar' \in 0..(StripesPerBlock - 1)
    BY <1>4, <2>2
  <2>4. pc' \in {"idle", "blocks", "partial", "bulk", "tail", "remainder", "last"}
    BY <1>1, <1>4
  <2> QED
    BY <1>1, <1>4, <2>1, <2>3, <2>4 DEF TypeOK
<1>15. InvJob'
  <2>1. pc' = "blocks" => job'.left >= job'.thisIter /\ job'.thisIter = StripesPerBlock - job'.key
    BY <1>1, <1>3, <1>4, Sizes
  <2>2. pc' = "partial" => job'.left < StripesPerBlock - job'.key /\ wSoFar' = job'.key
    BY <1>1, <1>2, <1>3, <1>4, Sizes
  <2>3. Continues(Source(job.from), job.at, Len(wStripes), job.left)'
    BY <1>3, <1>8, <1>10 DEF Continues, Pos
  <2> QED
    BY <2>1, <2>2, <2>3 DEF InvJob
<1>16. InvBack'
  BY <1>1, <1>3, <1>4, <1>9, <1>12, <1>13 DEF InvBack, Updating, EndsAt
<1>17. InvState'
  BY <1>1, <1>3, <1>4, <1>11 DEF InvState, StateOK, Digesting, Consuming
<1>18. InvWork' /\ InvBulk' /\ InvTail' /\ InvRemainder' /\ InvLast'
  BY <1>1, <1>3, <1>4, <1>7, <1>11 DEF InvWork, InvBulk, InvTail, InvRemainder, InvLast
<1>19. InvHash'
  BY <1>1, <1>4 DEF InvHash
<1> QED
  BY <1>14, <1>15, <1>16, <1>17, <1>18, <1>19 DEF Inv

LEMMA PartialKeeps ==
  ASSUME Inv, ConsumePartial
  PROVE  Inv'
<1> DEFINE k == job.left
<1>1. /\ Consuming /\ pc = "partial" /\ TypeOK
      /\ Consumed(wStripes, wScrambles, job.key)
      /\ k < StripesPerBlock - job.key /\ wSoFar = job.key
      /\ Continues(Source(job.from), job.at, Len(wStripes), k)
      /\ InvBack /\ InvState /\ InvHash
  BY DEF Inv, ConsumePartial, InvWork, InvJob, Consuming
<1>2. /\ job.at \in Nat /\ k \in Nat /\ job.key \in 0..(StripesPerBlock - 1)
      /\ job.key + k < StripesPerBlock /\ job.key + k <= StripesPerBlock
      /\ job.key + k \in 0..(StripesPerBlock - 1)
      /\ Len(wStripes) \in Nat
  <2>1. job.at \in Nat /\ k \in Nat /\ job.key \in 0..(StripesPerBlock - 1)
    BY <1>1 DEF TypeOK
  <2>2. Len(wStripes) \in Nat
    BY <1>1 DEF Consumed
  <2> HIDE DEF k
  <2>3. job.key + k < StripesPerBlock /\ job.key + k \in 0..(StripesPerBlock - 1)
    BY <1>1, <2>1, Below
  <2>4. job.key + k <= StripesPerBlock
    BY <2>1, <2>3, Sizes
  <2> QED
    BY <1>1, <2>1, <2>2, <2>3, <2>4
<1>3. /\ wStripes' = Accumulate(wStripes, Source(job.from), job.at, job.key, k)
      /\ wSoFar' = job.key + k
      /\ pc' = job.back
      /\ input' = IF job.back = "tail" THEN job.at + Pos(k) ELSE input
      /\ bufferedSize' = IF job.back = "bulk" THEN 0 ELSE bufferedSize
      /\ job' = NoJob
      /\ UNCHANGED <<totalLen, buffer, stripes, scrambles, nbStripesSoFar, bEnd,
                     wScrambles, hash, updates>>
  BY <1>1 DEF ConsumePartial, Pos
<1> HIDE DEF k
<1>4. Consumed(wStripes', wScrambles', wSoFar') /\ Len(wStripes') = Len(wStripes) + k
  <2> DEFINE v == Source(job.from)
             key == job.key
             at == job.at
  <2>1. /\ Consumed(wStripes, wScrambles, key) /\ at \in Nat
        /\ key + k < StripesPerBlock /\ key + k <= StripesPerBlock
        /\ Continues(v, at, Len(wStripes), k)
        /\ wStripes' = Accumulate(wStripes, v, at, key, k)
        /\ wScrambles' = wScrambles /\ wSoFar' = key + k
    BY <1>1, <1>2, <1>3
  <2> HIDE DEF v, key, at
  <2> QED
    BY <1>2, <2>1, ConsumedNext
<1>5. /\ Pos(Len(wStripes')) = JobEnd /\ Pos(Len(wStripes')) = Pos(Len(wStripes)) + Pos(k)
      /\ Pos(Len(wStripes)) \in Nat /\ Pos(k) \in Nat
  BY <1>2, <1>4, PosFacts DEF JobEnd, k
<1>6. ~Consuming' /\ pc' \in {"bulk", "tail", "last"}
  BY <1>1, <1>3 DEF Consuming, InvBack
<1>7. TypeOK'
  <2>1. NoJob \in [from : {"none", "buffer", "input"}, at : Nat, left : Nat,
              thisIter : 0..StripesPerBlock, key : 0..(StripesPerBlock - 1),
              back : {"idle", "bulk", "tail", "last"}]
    BY Sizes DEF NoJob
  <2>2. input' \in Nat /\ bufferedSize' \in 0..BufferSize
    <3>1. input \in Nat /\ bufferedSize \in 0..BufferSize /\ 0 \in 0..BufferSize
      BY <1>1, Sizes DEF TypeOK
    <3>2. job.at + Pos(k) \in Nat
      BY <1>2, <1>5
    <3> QED
      BY <1>3, <3>1, <3>2
  <2>3. wSoFar' \in 0..(StripesPerBlock - 1)
    BY <1>2, <1>3
  <2> QED
    BY <1>1, <1>3, <1>6, <2>1, <2>2, <2>3 DEF TypeOK
<1>8. InvBulk'
  BY <1>1, <1>2, <1>3, <1>4, <1>5, <1>6 DEF InvBulk, InvBack, Updating, EndsAt, k
<1>9. InvTail'
  <2> SUFFICES ASSUME pc' = "tail" PROVE InvTail'
    BY <1>6 DEF InvTail
  <2>1. /\ job.back = "tail" /\ Updating /\ JobEnd < bEnd /\ bEnd - JobEnd <= StripeLen
        /\ Len(wStripes) + k > 0 /\ job.at = Pos(Len(wStripes))
    BY <1>1, <1>3 DEF InvBack, k
  <2>2. input' = Pos(Len(wStripes'))
    BY <1>3, <1>5, <2>1
  <2>3. Updating'
    BY <1>3, <2>1 DEF Updating
  <2>4. input' < bEnd' /\ bEnd' - input' <= BufferSize
    <3>1. input' = JobEnd /\ JobEnd \in Nat /\ bEnd \in Nat /\ bEnd' = bEnd
      BY <1>1, <1>3, <1>5, <2>2 DEF TypeOK
    <3>2. StripeLen \in Nat /\ BufferSize \in Nat /\ StripeLen <= BufferSize
      BY Sizes
    <3> QED
      BY <2>1, <3>1, <3>2
  <2> QED
    BY <1>4, <2>1, <2>2, <2>3, <2>4 DEF InvTail
<1>10. InvRemainder'
  BY <1>6 DEF InvRemainder
<1>11. InvLast'
  BY <1>1, <1>3, <1>5, <1>6 DEF InvLast, InvBack
<1>12. InvState'
  BY <1>1, <1>3, <1>6 DEF InvState, StateOK, Digesting, Consuming
<1>13. InvWork' /\ InvJob' /\ InvBack' /\ InvHash'
  BY <1>1, <1>3, <1>4, <1>6 DEF InvWork, InvJob, InvBack, InvHash, Consuming
<1> QED
  BY <1>7, <1>8, <1>9, <1>10, <1>11, <1>12, <1>13 DEF Inv

\* The entry of XXH3_consumeStripes, for stripes that continue the accumulators.
LEMMA ConsumeStarts ==
  ASSUME NEW from \in {"buffer", "input"}, NEW at \in Nat, NEW n \in Nat,
         NEW back \in {"bulk", "tail", "last"},
         Consume(from, at, n, back), Consumed(wStripes', wScrambles', wSoFar'),
         Continues(Source(from)', at, Len(wStripes'), n)
  PROVE  /\ Consuming' /\ InvWork' /\ InvJob'
         /\ job'.from = from /\ job'.at = at /\ job'.left = n /\ job'.back = back
         /\ job' \in [from : {"none", "buffer", "input"}, at : Nat, left : Nat,
                       thisIter : 0..StripesPerBlock, key : 0..(StripesPerBlock - 1),
                       back : {"idle", "bulk", "tail", "last"}]
<1>1. wSoFar' \in 0..(StripesPerBlock - 1)
  BY DEF Consumed
<1>2. job' = [from |-> from, at |-> at, left |-> n,
              thisIter |-> StripesPerBlock - wSoFar', key |-> wSoFar', back |-> back]
  BY DEF Consume
<1>3. pc' = IF n >= StripesPerBlock - wSoFar' THEN "blocks" ELSE "partial"
  BY DEF Consume
<1>4. StripesPerBlock - wSoFar' \in 0..StripesPerBlock
  BY <1>1, Below
<1>5. /\ job'.from = from /\ job'.at = at /\ job'.left = n /\ job'.back = back
      /\ job'.thisIter = StripesPerBlock - wSoFar' /\ job'.key = wSoFar'
  BY <1>2
<1>6. job' \in [from : {"none", "buffer", "input"}, at : Nat, left : Nat,
                       thisIter : 0..StripesPerBlock, key : 0..(StripesPerBlock - 1),
                       back : {"idle", "bulk", "tail", "last"}]
  BY <1>1, <1>2, <1>4
<1>7. Consuming'
  BY <1>3 DEF Consuming
<1>8. InvWork'
  BY <1>3, <1>5, <1>7 DEF InvWork
<1>9. InvJob'
  <2>1. Continues(Source(job.from), job.at, Len(wStripes), job.left)'
    BY <1>5 DEF Source
  <2>2. pc' = "blocks" => job'.left >= job'.thisIter
                          /\ job'.thisIter = StripesPerBlock - job'.key
    BY <1>3, <1>5
  <2>3. pc' = "partial" => job'.left < StripesPerBlock - job'.key /\ wSoFar' = job'.key
    BY <1>1, <1>3, <1>5, Below
  <2> QED
    BY <2>1, <2>2, <2>3 DEF InvJob
<1> QED
  BY <1>5, <1>6, <1>7, <1>8, <1>9

LEMMA ResetKeeps ==
  ASSUME Inv, Reset
  PROVE  Inv'
<1> USE DEF Reset, Fresh, work
<1>1. TypeOK'
  <2>1. 0 \in 0..BufferSize /\ 0 \in 0..(StripesPerBlock - 1)
    BY Sizes
  <2> QED
    BY <2>1 DEF Inv, TypeOK
<1>2. Len(stripes') = 0 /\ Pos(0) = 0
  BY PosFacts
<1>3. Consumed(stripes', scrambles', nbStripesSoFar')
  <2>1. stripes' = Entries(0) /\ scrambles' = Marks(0)
    BY DEF Entries, Marks
  <2>2. 0 = 0 * StripesPerBlock + 0 /\ 0 \in 0..(StripesPerBlock - 1)
    BY Sizes
  <2> QED
    BY <1>2, <2>1, <2>2 DEF Consumed
<1>4. InvState'
  BY <1>2, <1>3 DEF InvState, StateOK, Digesting, Consuming
<1> QED
  BY <1>1, <1>4 DEF Inv, InvWork, InvBulk, InvTail, InvRemainder, InvLast, InvJob, InvBack,
     InvHash, Consuming

\* What CopyTo leaves in the buffer.
LEMMA Copied ==
  ASSUME TypeOK, NEW offset \in Nat, NEW from \in Nat, NEW len \in Nat,
         buffer' = CopyTo(offset, from, len)
  PROVE  /\ buffer' \in [0..(BufferSize - 1) -> Nat \cup {Stale}]
         /\ \A o \in 0..(BufferSize - 1) :
              /\ offset <= o /\ o < offset + len => buffer'[o] = from + o - offset
              /\ o < offset \/ offset + len <= o => buffer'[o] = buffer[o]
<1>1. BufferSize \in Nat /\ buffer \in [0..(BufferSize - 1) -> Nat \cup {Stale}]
  BY Sizes DEF TypeOK
<1>2. \A o \in 0..(BufferSize - 1) : offset <= o /\ o < offset + len => from + o - offset \in Nat
  BY <1>1
<1> QED
  BY <1>1, <1>2 DEF CopyTo

\* What the invariant says of the state at the beginning of a call.
LEMMA AtCall ==
  ASSUME Inv, pc = "idle"
  PROVE  /\ TypeOK /\ StateOK
         /\ totalLen \in Nat /\ bufferedSize \in 0..BufferSize /\ Len(stripes) \in Nat
         /\ Pos(Len(stripes)) \in Nat
         /\ BufferSize \in Nat /\ StripeLen \in Nat /\ StripeLen > 0
         /\ StripeLen <= BufferSize
<1>1. TypeOK /\ StateOK
  BY DEF Inv, InvState
<1>2. Len(stripes) \in Nat
  BY <1>1 DEF StateOK, Consumed
<1> QED
  BY <1>1, <1>2, PosFacts, Sizes DEF TypeOK

LEMMA SmallKeeps ==
  ASSUME Inv, NEW len \in Chunks, UpdateSmall(len)
  PROVE  Inv'
<1> DEFINE c == Len(stripes)
<1>1. pc = "idle" /\ len \in Nat
  BY StreamAssumption DEF UpdateSmall
<1>2. /\ TypeOK /\ StateOK
      /\ totalLen \in Nat /\ bufferedSize \in 0..BufferSize /\ c \in Nat /\ Pos(c) \in Nat
      /\ BufferSize \in Nat /\ StripeLen \in Nat /\ StripeLen > 0 /\ StripeLen <= BufferSize
  BY <1>1, AtCall
<1>3. /\ len <= BufferSize - bufferedSize
      /\ totalLen' = totalLen + len
      /\ buffer' = CopyTo(bufferedSize, totalLen, len)
      /\ bufferedSize' = bufferedSize + len
      /\ hash' = NoHash /\ pc' = pc
      /\ UNCHANGED <<stripes, scrambles, nbStripesSoFar, input, bEnd, wStripes, wScrambles,
                     wSoFar, job>>
  BY DEF UpdateSmall, work
<1>4. /\ buffer' \in [0..(BufferSize - 1) -> Nat \cup {Stale}]
      /\ \A o \in 0..(BufferSize - 1) :
           /\ bufferedSize <= o /\ o < bufferedSize + len =>
                buffer'[o] = totalLen + o - bufferedSize
           /\ o < bufferedSize \/ bufferedSize + len <= o => buffer'[o] = buffer[o]
  BY <1>1, <1>2, <1>3, Copied
<1> HIDE DEF c
<1>5. TypeOK'
  <2>1. totalLen' \in Nat /\ bufferedSize' \in 0..BufferSize
    BY <1>1, <1>2, <1>3
  <2> QED
    BY <1>2, <1>3, <1>4, <2>1 DEF TypeOK
<1>6. StateOK'
  <2>1. c' = c /\ Consumed(stripes', scrambles', nbStripesSoFar')
    BY <1>2, <1>3 DEF StateOK, c
  <2>2. Pos(c) + bufferedSize = totalLen
        /\ \A o \in 0..(bufferedSize - 1) : buffer[o] = Pos(c) + o
    BY <1>2 DEF StateOK, c
  <2>3. Pos(c) + bufferedSize' = totalLen'
    BY <1>1, <1>2, <1>3, <2>2
  <2>4. \A o \in 0..(bufferedSize' - 1) : buffer'[o] = Pos(c) + o
    <3> SUFFICES ASSUME NEW o \in 0..(bufferedSize' - 1) PROVE buffer'[o] = Pos(c) + o
      OBVIOUS
    <3>1. o \in 0..(BufferSize - 1) /\ o < bufferedSize + len
      BY <1>1, <1>2, <1>3
    <3>2. CASE o < bufferedSize
      <4>1. o \in 0..(bufferedSize - 1)
        BY <1>2, <3>1, <3>2
      <4> QED
        BY <1>4, <2>2, <3>1, <3>2, <4>1
    <3>3. CASE bufferedSize <= o
      <4>1. buffer'[o] = totalLen + o - bufferedSize
        BY <1>4, <3>1, <3>3
      <4>2. Pos(c) + bufferedSize = totalLen
        BY <2>2
      <4>3. totalLen + o - bufferedSize = Pos(c) + o
        BY <1>2, <3>1, <4>2
      <4> QED
        BY <4>1, <4>3
    <3> QED
      BY <1>2, <3>1, <3>2, <3>3
  <2>5. ASSUME c > 0
        PROVE  /\ bufferedSize' > 0 /\ totalLen' > BufferSize
               /\ \A o \in (BufferSize - StripeLen + bufferedSize')..(BufferSize - 1) :
                    buffer'[o] = Pos(c) - BufferSize + o
    <3>1. /\ bufferedSize > 0 /\ totalLen > BufferSize
          /\ \A o \in (BufferSize - StripeLen + bufferedSize)..(BufferSize - 1) :
               buffer[o] = Pos(c) - BufferSize + o
      BY <1>2, <2>5 DEF StateOK, c
    <3>2. bufferedSize' > 0 /\ totalLen' > BufferSize
      BY <1>1, <1>2, <1>3, <3>1
    <3>3. ASSUME NEW o \in (BufferSize - StripeLen + bufferedSize')..(BufferSize - 1)
          PROVE  buffer'[o] = Pos(c) - BufferSize + o
      <4>1. /\ o \in (BufferSize - StripeLen + bufferedSize)..(BufferSize - 1)
            /\ o \in 0..(BufferSize - 1) /\ bufferedSize + len <= o
        BY <1>1, <1>2, <1>3
      <4> QED
        BY <1>4, <3>1, <4>1
    <3> QED
      BY <3>2, <3>3
  <2> QED
    BY <2>1, <2>3, <2>4, <2>5 DEF StateOK, c
<1> QED
  BY <1>1, <1>3, <1>5, <1>6 DEF Inv, InvState, InvWork, InvBulk, InvTail, InvRemainder, InvLast,
     InvJob, InvBack, InvHash, Consuming, Digesting

LEMMA LargeKeeps ==
  ASSUME Inv, NEW len \in Chunks, UpdateLarge(len)
  PROVE  Inv'
<1> DEFINE c == Len(stripes)
           loadSize == BufferSize - bufferedSize
<1>1. pc = "idle" /\ len \in Nat
  BY StreamAssumption DEF UpdateLarge
<1>2. /\ TypeOK /\ StateOK
      /\ totalLen \in Nat /\ bufferedSize \in 0..BufferSize /\ c \in Nat /\ Pos(c) \in Nat
      /\ BufferSize \in Nat /\ StripeLen \in Nat /\ StripeLen > 0 /\ StripeLen <= BufferSize
  BY <1>1, AtCall
<1>3. /\ len > loadSize
      /\ totalLen' = totalLen + len /\ bEnd' = totalLen + len
      /\ wStripes' = stripes /\ wScrambles' = scrambles /\ wSoFar' = nbStripesSoFar
      /\ hash' = NoHash
      /\ UNCHANGED <<bufferedSize, stripes, scrambles, nbStripesSoFar>>
  BY DEF UpdateLarge
<1>4. /\ Consumed(stripes, scrambles, nbStripesSoFar)
      /\ Pos(c) + bufferedSize = totalLen
      /\ \A o \in 0..(bufferedSize - 1) : buffer[o] = Pos(c) + o
      /\ c > 0 => bufferedSize > 0
  BY <1>2 DEF StateOK, c
<1> HIDE DEF c
<1>5. Consumed(wStripes', wScrambles', wSoFar') /\ Len(wStripes') = c
  BY <1>3, <1>4 DEF c
<1>6. loadSize \in Nat
  BY <1>2
<1> HIDE DEF loadSize
<1>7. loadSize = BufferSize - bufferedSize
  BY DEF loadSize
<1>8. Updating'
  <2>1. totalLen + len > BufferSize /\ bEnd' = totalLen'
    BY <1>1, <1>2, <1>3, <1>4, <1>6, <1>7
  <2> QED
    BY <1>3, <2>1 DEF Updating
<1>9. CASE bufferedSize > 0
  <2>1. /\ buffer' = CopyTo(bufferedSize, totalLen, loadSize)
        /\ input' = totalLen + loadSize
        /\ Consume("buffer", 0, BufferStripes, "bulk")
    BY <1>9 DEF UpdateLarge, loadSize
  <2>2. /\ buffer' \in [0..(BufferSize - 1) -> Nat \cup {Stale}]
        /\ \A o \in 0..(BufferSize - 1) :
             /\ bufferedSize <= o /\ o < bufferedSize + loadSize =>
                  buffer'[o] = totalLen + o - bufferedSize
             /\ o < bufferedSize \/ bufferedSize + loadSize <= o => buffer'[o] = buffer[o]
    BY <1>2, <1>6, <2>1, Copied
  <2>3. \A o \in 0..(BufferSize - 1) : buffer'[o] = Pos(c) + o
    <3> SUFFICES ASSUME NEW o \in 0..(BufferSize - 1) PROVE buffer'[o] = Pos(c) + o
      OBVIOUS
    <3>1. CASE o < bufferedSize
      <4>1. o \in 0..(bufferedSize - 1)
        BY <1>2, <3>1
      <4> QED
        BY <1>4, <2>2, <3>1, <4>1
    <3>2. CASE bufferedSize <= o
      <4>1. o < bufferedSize + loadSize
        BY <1>2, <1>7
      <4>2. buffer'[o] = totalLen + o - bufferedSize
        BY <2>2, <3>2, <4>1
      <4>3. totalLen + o - bufferedSize = Pos(c) + o
        BY <1>2, <1>4
      <4> QED
        BY <4>2, <4>3
    <3> QED
      BY <1>2, <3>1, <3>2
  <2>4. Continues(Source("buffer")', 0, Len(wStripes'), BufferStripes)
    <3>1. Source("buffer")' = buffer'
      BY DEF Source
    <3>2. Pos(BufferStripes) = BufferSize
      BY Sizes
    <3>3. \A x \in 0..(BufferSize - 1) : buffer'[0 + x] = Pos(c) + x
      BY <1>2, <2>3
    <3> QED
      BY <1>5, <3>1, <3>2, <3>3 DEF Continues
  <2>5. /\ Consuming' /\ InvWork' /\ InvJob'
        /\ job'.from = "buffer" /\ job'.left = BufferStripes /\ job'.back = "bulk"
        /\ job' \in [from : {"none", "buffer", "input"}, at : Nat, left : Nat,
                       thisIter : 0..StripesPerBlock, key : 0..(StripesPerBlock - 1),
                       back : {"idle", "bulk", "tail", "last"}]
    <3>1. 0 \in Nat /\ BufferStripes \in Nat
      BY Sizes
    <3> QED
      BY <1>5, <2>1, <2>4, <3>1, ConsumeStarts
  <2>6. input' = Pos(c) + BufferSize /\ input' \in Nat /\ input' < bEnd'
    BY <1>1, <1>2, <1>3, <1>4, <1>6, <1>7, <2>1
  <2>7. JobEnd' = input' /\ Len(wStripes') + job'.left > 0
    <3>1. Pos(c + BufferStripes) = Pos(c) + Pos(BufferStripes)
      BY <1>2, Sizes, PosFacts
    <3>2. Len(wStripes') + job'.left = c + BufferStripes
      BY <1>5, <2>5
    <3>3. c + BufferStripes > 0
      BY <1>2, Sizes
    <3>4. JobEnd' = Pos(c + BufferStripes)
      BY <3>2 DEF JobEnd, Pos
    <3> QED
      BY <2>6, <3>1, <3>2, <3>3, <3>4, Sizes
  <2>8. EndsAt(input)'
    <3>1. \A o \in (BufferSize - StripeLen)..(BufferSize - 1) : o \in 0..(BufferSize - 1)
      BY <1>2
    <3>2. \A o \in (BufferSize - StripeLen)..(BufferSize - 1) :
             buffer'[o] = input' - BufferSize + o
      BY <1>2, <2>3, <2>6, <3>1
    <3> QED
      BY <3>2 DEF EndsAt
  <2>9. TypeOK'
    <3>1. totalLen' \in Nat /\ bEnd' \in Nat
      BY <1>1, <1>2, <1>3
    <3>2. pc' \in {"blocks", "partial"}
      BY <2>5 DEF Consuming
    <3> QED
      BY <1>2, <1>3, <2>2, <2>5, <2>6, <3>1, <3>2 DEF TypeOK
  <2>10. InvBack'
    BY <1>8, <2>5, <2>6, <2>7, <2>8 DEF InvBack
  <2> QED
    BY <1>3, <2>5, <2>9, <2>10 DEF Inv, InvState, InvBulk, InvTail, InvRemainder, InvLast,
       InvHash, Digesting, Consuming
<1>10. CASE ~(bufferedSize > 0)
  <2>1. input' = totalLen /\ pc' = "bulk" /\ UNCHANGED <<buffer, job>>
    BY <1>10 DEF UpdateLarge
  <2>2. c = 0 /\ bufferedSize = 0 /\ Pos(0) = 0
    BY <1>2, <1>4, <1>10, PosFacts
  <2>3. totalLen = 0 /\ input' = 0
    BY <1>2, <1>4, <2>1, <2>2
  <2>4. TypeOK'
    <3>1. totalLen' \in Nat /\ bEnd' \in Nat /\ input' \in Nat
      BY <1>1, <1>2, <1>3, <2>3
    <3> QED
      BY <1>2, <1>3, <2>1, <3>1 DEF TypeOK
  <2>5. bEnd' - input' > BufferSize /\ input' < bEnd'
    BY <1>1, <1>2, <1>3, <1>7, <2>2, <2>3
  <2>6. InvBulk'
    BY <1>5, <1>8, <2>2, <2>3, <2>5 DEF InvBulk
  <2>7. InvWork'
    BY <1>5, <2>1 DEF InvWork, Consuming
  <2> QED
    BY <1>3, <2>1, <2>4, <2>6, <2>7 DEF Inv, InvState, InvTail, InvRemainder, InvLast,
       InvJob, InvBack, InvHash, Digesting, Consuming
<1> QED
  BY <1>2, <1>9, <1>10

LEMMA BulkKeeps ==
  ASSUME Inv, UpdateBulk
  PROVE  Inv'
<1> DEFINE c == Len(wStripes)
           m == bEnd - 1 - input
           n == m \div StripeLen
<1>1. /\ TypeOK /\ pc = "bulk" /\ Updating
      /\ Consumed(wStripes, wScrambles, wSoFar)
      /\ input = Pos(c) /\ bEnd - input > BufferSize
      /\ input \in Nat /\ bEnd \in Nat
  BY DEF Inv, UpdateBulk, InvBulk, InvWork, TypeOK
<1>2. /\ UNCHANGED <<totalLen, bufferedSize, buffer, stripes, scrambles, nbStripesSoFar,
                     input, bEnd, wStripes, wScrambles, wSoFar, hash, updates>>
      /\ Consume("input", input, n, "tail")
  BY DEF UpdateBulk, state, work
<1>3. BufferSize \in Nat /\ StripeLen \in Nat /\ StripeLen > 0 /\ StripeLen <= BufferSize
  BY Sizes
<1>4. c \in Nat /\ m \in Nat /\ m >= StripeLen
  BY <1>1, <1>3 DEF Consumed
<1> HIDE DEF c, m
<1>5. n \in Nat /\ Pos(n) <= m /\ m < Pos(n) + StripeLen
  BY <1>4, StripesIn
<1> HIDE DEF n
<1>6. m = bEnd - 1 - input /\ c = Len(wStripes)
  BY DEF m, c
<1>7. n > 0 /\ Pos(n) \in Nat
  <2>1. n = 0 => Pos(n) = 0
    BY PosFacts
  <2> QED
    BY <1>3, <1>4, <1>5, <2>1, PosFacts
<1>8. Continues(Source("input")', input, Len(wStripes'), n)
  <2>1. Source("input")' = [p \in 0..(bEnd - 1) |-> p]
    BY <1>2 DEF Source
  <2> SUFFICES ASSUME NEW x \in 0..(Pos(n) - 1) PROVE Source("input")'[input + x] = Pos(c) + x
    BY <1>2, <1>6 DEF Continues
  <2>2. input + x \in 0..(bEnd - 1)
    BY <1>1, <1>4, <1>5, <1>6, <1>7
  <2> QED
    BY <1>1, <2>1, <2>2
<1>9. /\ Consuming' /\ InvWork' /\ InvJob'
      /\ job'.from = "input" /\ job'.at = input /\ job'.left = n /\ job'.back = "tail"
      /\ job' \in [from : {"none", "buffer", "input"}, at : Nat, left : Nat,
                     thisIter : 0..StripesPerBlock, key : 0..(StripesPerBlock - 1),
                     back : {"idle", "bulk", "tail", "last"}]
  <2>1. Consumed(wStripes', wScrambles', wSoFar')
    BY <1>1, <1>2
  <2> QED
    BY <1>1, <1>2, <1>5, <1>8, <2>1, ConsumeStarts
<1>10. /\ JobEnd' < bEnd /\ bEnd - JobEnd' <= StripeLen
       /\ Len(wStripes') + job'.left > 0 /\ job'.at = Pos(Len(wStripes'))
  <2>1. Len(wStripes') + job'.left = c + n
    BY <1>2, <1>6, <1>9
  <2>2. Pos(c + n) = Pos(c) + Pos(n)
    BY <1>4, <1>5, PosFacts
  <2>3. JobEnd' = Pos(c + n)
    BY <2>1 DEF JobEnd, Pos
  <2>4. JobEnd' = input + Pos(n)
    BY <1>1, <2>2, <2>3
  <2>5. c + n > 0
    BY <1>4, <1>5, <1>7
  <2>6. job'.at = Pos(Len(wStripes'))
    BY <1>1, <1>2, <1>6, <1>9
  <2>7. JobEnd' < bEnd /\ bEnd - JobEnd' <= StripeLen
    BY <1>1, <1>3, <1>4, <1>5, <1>6, <1>7, <2>4
  <2> QED
    BY <2>1, <2>5, <2>6, <2>7
<1>11. InvBack'
  BY <1>1, <1>2, <1>9, <1>10 DEF InvBack, Updating
<1>12. TypeOK'
  BY <1>1, <1>2, <1>9 DEF TypeOK, Consuming
<1> QED
  BY <1>1, <1>2, <1>9, <1>11, <1>12 DEF Inv, InvState, InvBulk, InvTail, InvRemainder, InvLast,
     InvHash, Digesting, Consuming, Updating

LEMMA TailKeeps ==
  ASSUME Inv, UpdateTail
  PROVE  Inv'
<1> DEFINE c == Len(wStripes)
<1>1. /\ TypeOK /\ pc = "tail"
      /\ Consumed(wStripes, wScrambles, wSoFar)
      /\ Updating /\ input = Pos(c) /\ c > 0 /\ input < bEnd /\ bEnd - input <= BufferSize
      /\ input \in Nat
  BY DEF Inv, UpdateTail, InvTail, InvWork, TypeOK
<1>2. /\ buffer' = CopyTo(BufferSize - StripeLen, input - StripeLen, StripeLen)
      /\ pc' = "remainder"
      /\ UNCHANGED <<totalLen, bufferedSize, stripes, scrambles, nbStripesSoFar,
                     input, bEnd, wStripes, wScrambles, wSoFar, job, hash, updates>>
  BY DEF UpdateTail, work
<1>3. BufferSize \in Nat /\ StripeLen \in Nat /\ StripeLen > 0 /\ StripeLen <= BufferSize
  BY Sizes
<1>4. c \in Nat
  BY <1>1 DEF Consumed
<1> HIDE DEF c
<1>5. input >= StripeLen
  BY <1>1, <1>4, PosFacts
<1> DEFINE offset == BufferSize - StripeLen
           from == input - StripeLen
<1>6. offset \in Nat /\ from \in Nat /\ buffer' = CopyTo(offset, from, StripeLen)
  BY <1>1, <1>2, <1>3, <1>5
<1> HIDE DEF offset, from
<1>7. /\ buffer' \in [0..(BufferSize - 1) -> Nat \cup {Stale}]
      /\ \A o \in 0..(BufferSize - 1) :
           offset <= o /\ o < offset + StripeLen => buffer'[o] = from + o - offset
  BY <1>1, <1>3, <1>6, Copied
<1>8. EndsAt(input)'
  <2> SUFFICES ASSUME NEW o \in (BufferSize - StripeLen)..(BufferSize - 1)
               PROVE  buffer'[o] = input - BufferSize + o
    BY <1>2 DEF EndsAt
  <2>1. o \in 0..(BufferSize - 1) /\ offset <= o /\ o < offset + StripeLen
    BY <1>3 DEF offset
  <2>2. from + o - offset = input - BufferSize + o
    BY <1>1, <1>3 DEF offset, from
  <2> QED
    BY <1>7, <2>1, <2>2
<1>9. TypeOK'
  BY <1>1, <1>2, <1>7 DEF TypeOK
<1>10. InvTail' /\ InvRemainder' /\ InvWork'
  BY <1>1, <1>2, <1>8 DEF InvTail, InvRemainder, InvWork, Updating, Consuming, c
<1> QED
  BY <1>1, <1>2, <1>9, <1>10 DEF Inv, InvState, InvBulk, InvLast, InvJob, InvBack,
     InvHash, Digesting, Consuming

LEMMA RemainderKeeps ==
  ASSUME Inv, UpdateRemainder
  PROVE  Inv'
<1> DEFINE c == Len(wStripes)
           rest == bEnd - input
<1>1. /\ TypeOK /\ pc \in {"remainder", "bulk"}
      /\ Consumed(wStripes, wScrambles, wSoFar)
      /\ Updating /\ input = Pos(c) /\ c > 0 /\ input < bEnd /\ rest <= BufferSize
      /\ EndsAt(input)
  <2>1. TypeOK /\ InvWork /\ InvBulk /\ InvTail /\ InvRemainder
    BY DEF Inv
  <2>2. input \in Nat /\ bEnd \in Nat /\ BufferSize \in Nat
    BY <2>1, Sizes DEF TypeOK
  <2>3. CASE pc = "remainder"
    BY <2>1, <2>3 DEF InvWork, InvTail, InvRemainder
  <2>4. CASE pc = "bulk" /\ rest <= BufferSize
    <3>1. /\ Consumed(wStripes, wScrambles, wSoFar) /\ Updating /\ input = Pos(c)
          /\ input < bEnd /\ (c > 0 => EndsAt(input)) /\ (c = 0 => rest > BufferSize)
      BY <2>1, <2>4 DEF InvWork, InvBulk
    <3>2. c \in Nat
      BY <3>1 DEF Consumed
    <3>3. c > 0
      BY <2>2, <2>4, <3>1, <3>2
    <3> QED
      BY <2>1, <2>4, <3>1, <3>3
  <2> QED
    BY <2>3, <2>4 DEF UpdateRemainder
<1>2. /\ buffer' = CopyTo(0, input, rest)
      /\ bufferedSize' = rest
      /\ stripes' = wStripes /\ scrambles' = wScrambles /\ nbStripesSoFar' = wSoFar
      /\ pc' = "idle" /\ input' = 0 /\ bEnd' = 0
      /\ wStripes' = <<>> /\ wScrambles' = <<>> /\ wSoFar' = 0
      /\ UNCHANGED <<totalLen, job, hash, updates>>
  BY DEF UpdateRemainder
<1>3. /\ BufferSize \in Nat /\ StripeLen \in Nat /\ StripeLen > 0 /\ StripeLen <= BufferSize
      /\ 0 \in 0..(StripesPerBlock - 1)
  BY Sizes
<1>4. /\ c \in Nat /\ rest \in Nat /\ input \in Nat /\ rest > 0
      /\ totalLen = input + rest /\ totalLen > BufferSize
  BY <1>1 DEF Consumed, TypeOK, Updating
<1>5. c = Len(stripes')
  BY <1>2
<1> HIDE DEF c, rest
<1>6. /\ buffer' \in [0..(BufferSize - 1) -> Nat \cup {Stale}]
      /\ \A o \in 0..(BufferSize - 1) :
           /\ 0 <= o /\ o < 0 + rest => buffer'[o] = input + o - 0
           /\ o < 0 \/ 0 + rest <= o => buffer'[o] = buffer[o]
  <2>1. 0 \in Nat
    OBVIOUS
  <2> QED
    BY <1>1, <1>2, <1>4, <2>1, Copied
<1>7. \A o \in 0..(rest - 1) : buffer'[o] = Pos(c) + o
  <2> SUFFICES ASSUME NEW o \in 0..(rest - 1) PROVE buffer'[o] = Pos(c) + o
    OBVIOUS
  <2>1. o \in 0..(BufferSize - 1) /\ 0 <= o /\ o < 0 + rest
    BY <1>1, <1>3, <1>4
  <2>2. buffer'[o] = input + o - 0
    BY <1>6, <2>1
  <2> QED
    BY <1>1, <1>4, <2>2
<1>8. \A o \in (BufferSize - StripeLen + rest)..(BufferSize - 1) :
        buffer'[o] = Pos(c) - BufferSize + o
  <2> SUFFICES ASSUME NEW o \in (BufferSize - StripeLen + rest)..(BufferSize - 1)
               PROVE  buffer'[o] = Pos(c) - BufferSize + o
    OBVIOUS
  <2>1. /\ o \in 0..(BufferSize - 1) /\ 0 + rest <= o
        /\ o \in (BufferSize - StripeLen)..(BufferSize - 1)
    BY <1>1, <1>3, <1>4
  <2>2. buffer'[o] = buffer[o]
    BY <1>6, <2>1
  <2>3. buffer[o] = input - BufferSize + o
    BY <1>1, <2>1 DEF EndsAt
  <2> QED
    BY <1>1, <2>2, <2>3
<1>9. StateOK'
  <2>1. Consumed(stripes', scrambles', nbStripesSoFar')
    BY <1>1, <1>2
  <2>2. Pos(c) + bufferedSize' = totalLen'
    BY <1>1, <1>2, <1>4
  <2>3. Pos(Len(stripes')) = Pos(c) /\ bufferedSize' = rest /\ totalLen' > BufferSize
    BY <1>2, <1>4, <1>5
  <2>4. Pos(Len(stripes))' = Pos(c)
    BY <1>5 DEF Pos
  <2> QED
    BY <1>4, <1>5, <1>7, <1>8, <2>1, <2>2, <2>3, <2>4 DEF StateOK
<1>10. TypeOK'
  <2>1. nbStripesSoFar' \in 0..(StripesPerBlock - 1)
    BY <1>1, <1>2 DEF TypeOK
  <2>2. bufferedSize' \in 0..BufferSize
    BY <1>1, <1>2, <1>3, <1>4
  <2> QED
    BY <1>1, <1>2, <1>3, <1>6, <2>1, <2>2 DEF TypeOK
<1>11. InvState'
  BY <1>2, <1>9 DEF InvState, Digesting, Consuming
<1>12. InvHash'
  BY <1>1, <1>2 DEF InvHash, Updating
<1> QED
  BY <1>2, <1>10, <1>11, <1>12 DEF Inv, InvWork, InvBulk, InvTail, InvRemainder, InvLast,
     InvJob, InvBack, Consuming

LEMMA DigestShortKeeps ==
  ASSUME Inv, DigestShort
  PROVE  Inv'
<1> DEFINE c == Len(stripes)
<1>1. /\ pc = "idle" /\ totalLen <= MidSizeMax
      /\ hash' = ShortHash(Slice(buffer, totalLen), totalLen)
      /\ UNCHANGED <<totalLen, bufferedSize, buffer, stripes, scrambles, nbStripesSoFar, pc,
                     input, bEnd, wStripes, wScrambles, wSoFar, job, updates>>
  BY DEF DigestShort, state, work
<1>2. /\ TypeOK /\ StateOK
      /\ totalLen \in Nat /\ bufferedSize \in 0..BufferSize /\ c \in Nat
  BY <1>1, AtCall
<1>3. c = 0
  BY <1>1, <1>2, Sizes DEF StateOK
<1>4. bufferedSize = totalLen /\ \A o \in 0..(totalLen - 1) : buffer[o] = o
  <2>1. Pos(0) = 0
    BY PosFacts
  <2> QED
    BY <1>2, <1>3, <2>1 DEF StateOK
<1>5. Slice(buffer, totalLen) = Whole
  BY <1>4 DEF Slice, Whole
<1>6. hash' = Hash64(Whole, totalLen)
  BY <1>1, <1>5 DEF Hash64
<1>7. InvHash'
  BY <1>1, <1>6 DEF InvHash, Whole
<1>8. TypeOK'
  BY <1>1, <1>2 DEF TypeOK
<1>9. InvState'
  BY <1>1, <1>2 DEF InvState, StateOK, Digesting, Consuming
<1> QED
  BY <1>1, <1>7, <1>8, <1>9 DEF Inv, InvWork, InvBulk, InvTail, InvRemainder, InvLast,
     InvJob, InvBack, Consuming

LEMMA DigestLongKeeps ==
  ASSUME Inv, DigestLong
  PROVE  Inv'
<1> DEFINE c == Len(stripes)
           m == bufferedSize - 1
           n == m \div StripeLen
<1>1. /\ pc = "idle" /\ totalLen > MidSizeMax /\ hash = NoHash
      /\ wStripes' = stripes /\ wScrambles' = scrambles /\ wSoFar' = nbStripesSoFar
      /\ UNCHANGED <<totalLen, bufferedSize, buffer, stripes, scrambles, nbStripesSoFar,
                     input, bEnd, hash, updates>>
  BY DEF DigestLong, state
<1>2. /\ TypeOK /\ StateOK
      /\ totalLen \in Nat /\ bufferedSize \in 0..BufferSize /\ c \in Nat /\ Pos(c) \in Nat
      /\ BufferSize \in Nat /\ StripeLen \in Nat /\ StripeLen > 0
  BY <1>1, AtCall
<1>3. /\ Consumed(stripes, scrambles, nbStripesSoFar)
      /\ Pos(c) + bufferedSize = totalLen
      /\ \A o \in 0..(bufferedSize - 1) : buffer[o] = Pos(c) + o
      /\ c > 0 => bufferedSize > 0
  BY <1>2 DEF StateOK, c
<1>4. Consumed(wStripes', wScrambles', wSoFar') /\ Len(wStripes') = c
  BY <1>1, <1>3 DEF c
<1>5. StateOK' /\ totalLen' > MidSizeMax /\ hash' = NoHash
  BY <1>1, <1>2 DEF StateOK
<1> HIDE DEF c
<1>6. CASE bufferedSize >= StripeLen
  <2>1. Consume("buffer", 0, n, "last")
    BY <1>6 DEF DigestLong
  <2>2. m \in Nat
    BY <1>2, <1>6
  <2> HIDE DEF m
  <2>3. n \in Nat /\ Pos(n) <= m /\ m < Pos(n) + StripeLen /\ Pos(n) \in Nat
    BY <2>2, StripesIn, PosFacts
  <2> HIDE DEF n
  <2>4. m = bufferedSize - 1
    BY DEF m
  <2>5. Continues(Source("buffer")', 0, Len(wStripes'), n)
    <3>1. Source("buffer")' = buffer
      BY <1>1 DEF Source
    <3>2. \A x \in 0..(Pos(n) - 1) : x \in 0..(bufferedSize - 1) /\ 0 + x = x
      BY <1>2, <2>2, <2>3, <2>4
    <3>3. \A x \in 0..(Pos(n) - 1) : buffer[0 + x] = Pos(c) + x
      BY <1>3, <3>2
    <3> QED
      BY <1>4, <3>1, <3>3 DEF Continues
  <2>6. /\ Consuming' /\ InvWork' /\ InvJob'
        /\ job'.from = "buffer" /\ job'.left = n /\ job'.back = "last"
        /\ job' \in [from : {"none", "buffer", "input"}, at : Nat, left : Nat,
                       thisIter : 0..StripesPerBlock, key : 0..(StripesPerBlock - 1),
                       back : {"idle", "bulk", "tail", "last"}]
    <3>1. 0 \in Nat
      OBVIOUS
    <3> QED
      BY <1>4, <2>1, <2>3, <2>5, <3>1, ConsumeStarts
  <2>7. JobEnd' = Pos(c) + Pos(n)
    <3>1. Len(wStripes') + job'.left = c + n
      BY <1>4, <2>6
    <3>2. Pos(c + n) = Pos(c) + Pos(n)
      BY <1>2, <2>3, PosFacts
    <3>3. JobEnd' = Pos(c + n)
      BY <3>1 DEF JobEnd, Pos
    <3> QED
      BY <3>2, <3>3
  <2>8. JobEnd' < totalLen /\ totalLen <= JobEnd' + StripeLen
    BY <1>2, <1>3, <2>2, <2>3, <2>4, <2>7
  <2>9. InvBack'
    BY <1>1, <2>6, <2>8 DEF InvBack
  <2>10. TypeOK'
    BY <1>1, <1>2, <2>6 DEF TypeOK, Consuming
  <2> QED
    BY <1>5, <2>6, <2>9, <2>10 DEF Inv, InvState, InvBulk, InvTail, InvRemainder, InvLast,
       InvHash, Digesting, Consuming
<1>7. CASE ~(bufferedSize >= StripeLen)
  <2>1. pc' = "last" /\ UNCHANGED job
    BY <1>7 DEF DigestLong
  <2>2. Pos(c) < totalLen /\ totalLen <= Pos(c) + StripeLen
    <3>1. c = 0 => Pos(c) = 0
      BY PosFacts
    <3> QED
      BY <1>1, <1>2, <1>3, <1>7, <3>1, Sizes
  <2>3. InvLast'
    <3>1. Pos(Len(wStripes))' = Pos(c)
      BY <1>4 DEF Pos
    <3> QED
      BY <1>1, <2>2, <3>1 DEF InvLast, Pos
  <2>4. TypeOK'
    BY <1>1, <1>2, <2>1 DEF TypeOK
  <2>5. InvWork'
    BY <1>4, <2>1 DEF InvWork, Consuming
  <2> QED
    BY <1>5, <2>1, <2>3, <2>4, <2>5 DEF Inv, InvState, InvBulk, InvTail, InvRemainder,
       InvJob, InvBack, InvHash, Digesting, Consuming
<1> QED
  BY <1>6, <1>7

\* The hash of a contiguous input whose last stripe comes after stripe q *
\* StripesPerBlock + f, in the terms of the invariant.
LEMMA LongHash ==
  ASSUME NEW v, NEW len \in Nat, NEW q \in Nat, NEW f \in 0..(StripesPerBlock - 1),
         NEW r \in 0..(StripeLen - 1), len - 1 = Pos(q * StripesPerBlock + f) + r
  PROVE  HashLong(v, len) =
           [len       |-> len,
            stripes   |-> [i \in 1..(q * StripesPerBlock + f) |->
                             [bytes |-> Stripe(v, Pos(i - 1)), key |-> (i - 1) % StripesPerBlock]],
            scrambles |-> Marks(q),
            last      |-> Stripe(v, len - StripeLen)]
<1>1. /\ StripeLen \in Nat /\ StripeLen > 0 /\ StripesPerBlock \in Nat /\ StripesPerBlock > 0
  BY Sizes
<1> DEFINE z == f * StripeLen + r
<1>2. z \in 0..(BlockLen - 1) /\ BlockLen \in Nat /\ BlockLen > 0
  <2>1. f * StripeLen \in Nat /\ f * StripeLen <= (StripesPerBlock - 1) * StripeLen
    BY <1>1
  <2>2. (StripesPerBlock - 1) * StripeLen = BlockLen - StripeLen /\ BlockLen \in Nat
        /\ BlockLen > 0
    BY <1>1 DEF BlockLen
  <2> QED
    BY <1>1, <2>1, <2>2
<1>3. len - 1 = q * BlockLen + z
  BY <1>1 DEF Pos, BlockLen
<1> HIDE DEF z
<1>4. (len - 1) \div BlockLen = q
  BY <1>2, <1>3, DivisionUnique
<1>5. (len - 1) - BlockLen * q = z
  BY <1>2, <1>3
<1>6. z \div StripeLen = f
  <2>1. (f * StripeLen + r) \div StripeLen = f
    BY <1>1, DivisionUnique
  <2> QED
    BY <2>1 DEF z
<1>7. \A x \in Nat : (x \div StripesPerBlock) * BlockLen + (x % StripesPerBlock) * StripeLen = Pos(x)
  <2> SUFFICES ASSUME NEW x \in Nat
               PROVE  (x \div StripesPerBlock) * BlockLen + (x % StripesPerBlock) * StripeLen = Pos(x)
    OBVIOUS
  <2> DEFINE d == x \div StripesPerBlock
             e == x % StripesPerBlock
  <2>1. d \in Nat /\ e \in Nat /\ x = d * StripesPerBlock + e
    BY <1>1
  <2> HIDE DEF d, e
  <2>2. d * BlockLen + e * StripeLen = (d * StripesPerBlock + e) * StripeLen
    BY <1>1, <2>1 DEF BlockLen
  <2>3. d * BlockLen + e * StripeLen = Pos(x)
    BY <2>1, <2>2 DEF Pos
  <2> QED
    BY <2>3 DEF d, e
<1> DEFINE spread == [i \in 1..(q * StripesPerBlock + f) |->
               [bytes |-> Stripe(v, ((i - 1) \div StripesPerBlock) * BlockLen
                                    + ((i - 1) % StripesPerBlock) * StripeLen),
                key |-> (i - 1) % StripesPerBlock]]
<1>8. HashLong(v, len) = [len |-> len, stripes |-> spread, scrambles |-> Marks(q),
                          last |-> Stripe(v, len - StripeLen)]
  BY <1>4, <1>5, <1>6 DEF HashLong, Marks
<1>9. spread = [i \in 1..(q * StripesPerBlock + f) |->
                  [bytes |-> Stripe(v, Pos(i - 1)), key |-> (i - 1) % StripesPerBlock]]
  <2>1. \A i \in 1..(q * StripesPerBlock + f) : i - 1 \in Nat
    BY <1>1
  <2> QED
    BY <1>7, <2>1
<1> QED
  BY <1>8, <1>9

LEMMA DigestLastKeeps ==
  ASSUME Inv, DigestLast
  PROVE  Inv'
<1> DEFINE c == Len(stripes)
           w == Len(wStripes)
<1>1. /\ TypeOK /\ pc = "last" /\ StateOK /\ totalLen > MidSizeMax
      /\ Consumed(wStripes, wScrambles, wSoFar)
      /\ Pos(w) < totalLen /\ totalLen <= Pos(w) + StripeLen
  BY DEF Inv, DigestLast, InvState, Digesting, InvWork, InvLast
<1>2. /\ hash' = [len |-> totalLen, stripes |-> wStripes, scrambles |-> wScrambles,
                  last |-> LastStripe]
      /\ pc' = "idle"
      /\ wStripes' = <<>> /\ wScrambles' = <<>> /\ wSoFar' = 0
      /\ UNCHANGED <<totalLen, bufferedSize, buffer, stripes, scrambles, nbStripesSoFar,
                     input, bEnd, job, updates>>
  BY DEF DigestLast, state
<1>3. /\ totalLen \in Nat /\ bufferedSize \in 0..BufferSize
      /\ Pos(c) + bufferedSize = totalLen
      /\ \A o \in 0..(bufferedSize - 1) : buffer[o] = Pos(c) + o
      /\ c > 0 => \A o \in (BufferSize - StripeLen + bufferedSize)..(BufferSize - 1) :
                    buffer[o] = Pos(c) - BufferSize + o
  BY <1>1 DEF TypeOK, StateOK
<1>4. /\ c \in Nat /\ Pos(c) \in Nat /\ w \in Nat /\ Pos(w) \in Nat
      /\ StripeLen \in Nat /\ StripeLen > 0 /\ BufferSize \in Nat /\ StripeLen <= BufferSize
      /\ totalLen > StripeLen
  <2>1. c \in Nat /\ w \in Nat
    BY <1>1 DEF StateOK, Consumed
  <2> QED
    BY <1>1, <1>3, <2>1, PosFacts, Sizes
<1>5. PICK q \in Nat : w = q * StripesPerBlock + wSoFar /\ wScrambles = Marks(q)
  BY <1>1 DEF Consumed
<1>6. wStripes = Entries(w) /\ wSoFar \in 0..(StripesPerBlock - 1)
  BY <1>1 DEF Consumed
<1> HIDE DEF c, w
<1>7. LastStripe = Stripe(Whole, totalLen - StripeLen)
  <2>1. Stripe(Whole, totalLen - StripeLen)
          = [k \in 1..StripeLen |-> totalLen - StripeLen + k - 1]
    BY <1>3, <1>4 DEF Stripe, Word, Whole
  <2>2. CASE bufferedSize >= StripeLen
    <3>1. \A k \in 1..StripeLen :
             buffer[bufferedSize - StripeLen + k - 1] = totalLen - StripeLen + k - 1
      <4> SUFFICES ASSUME NEW k \in 1..StripeLen
                   PROVE buffer[bufferedSize - StripeLen + k - 1] = totalLen - StripeLen + k - 1
        OBVIOUS
      <4> DEFINE o == bufferedSize - StripeLen + k - 1
      <4>1. o \in 0..(bufferedSize - 1) /\ Pos(c) + o = totalLen - StripeLen + k - 1
        BY <1>3, <1>4, <2>2
      <4> HIDE DEF o
      <4>2. buffer[o] = totalLen - StripeLen + k - 1
        BY <1>3, <4>1
      <4> QED
        BY <4>2 DEF o
    <3> QED
      BY <2>1, <2>2, <3>1 DEF LastStripe, Stripe, Word
  <2>3. CASE ~(bufferedSize >= StripeLen)
    <3>1. c > 0
      <4>1. c = 0 => Pos(c) = 0
        BY PosFacts
      <4> QED
        BY <1>3, <1>4, <2>3, <4>1
    <3> DEFINE catchupSize == StripeLen - bufferedSize
    <3>2. ASSUME NEW k \in 1..StripeLen
          PROVE  (IF k <= catchupSize THEN buffer[BufferSize - catchupSize + k - 1]
                  ELSE buffer[k - catchupSize - 1]) = totalLen - StripeLen + k - 1
      <4>1. CASE k <= catchupSize
        <5> DEFINE o == BufferSize - catchupSize + k - 1
        <5>1. o \in (BufferSize - StripeLen + bufferedSize)..(BufferSize - 1)
          BY <1>3, <1>4, <4>1
        <5>2. Pos(c) - BufferSize + o = totalLen - StripeLen + k - 1
          BY <1>3, <1>4
        <5> HIDE DEF o
        <5>3. buffer[o] = totalLen - StripeLen + k - 1
          BY <1>3, <3>1, <5>1, <5>2
        <5> QED
          BY <4>1, <5>3 DEF o
      <4>2. CASE ~(k <= catchupSize)
        <5> DEFINE o == k - catchupSize - 1
        <5>1. o \in 0..(bufferedSize - 1)
          BY <1>3, <1>4, <4>2
        <5>2. Pos(c) + o = totalLen - StripeLen + k - 1
          BY <1>3, <1>4
        <5> HIDE DEF o
        <5>3. buffer[o] = totalLen - StripeLen + k - 1
          BY <1>3, <5>1, <5>2
        <5> QED
          BY <4>2, <5>3 DEF o
      <4> QED
        BY <4>1, <4>2
    <3>3. LastStripe = [k \in 1..StripeLen |->
             IF k <= catchupSize THEN buffer[BufferSize - catchupSize + k - 1]
             ELSE buffer[k - catchupSize - 1]]
      BY <2>3 DEF LastStripe
    <3> HIDE DEF catchupSize
    <3> QED
      BY <2>1, <3>2, <3>3
  <2> QED
    BY <2>2, <2>3
<1>8. [i \in 1..w |-> [bytes |-> Stripe(Whole, Pos(i - 1)), key |-> (i - 1) % StripesPerBlock]]
        = wStripes
  <2>1. ASSUME NEW i \in 1..w
        PROVE  Stripe(Whole, Pos(i - 1)) = [k \in 1..StripeLen |-> Pos(i - 1) + k - 1]
    <3> DEFINE a == i - 1
               b == w - i
    <3>1. a \in Nat /\ b \in Nat /\ w = a + (1 + b) /\ 1 + b \in Nat /\ 1 + b > 0
      BY <1>4
    <3> HIDE DEF a, b
    <3>2. Pos(w) = Pos(a) + Pos(1 + b) /\ Pos(1 + b) >= StripeLen /\ Pos(a) \in Nat
          /\ Pos(1 + b) \in Nat
      BY <3>1, PosFacts
    <3>3. \A k \in 1..StripeLen : Pos(a) + k - 1 \in 0..(totalLen - 1)
      BY <1>1, <1>3, <1>4, <3>2
    <3>4. Stripe(Whole, Pos(a)) = [k \in 1..StripeLen |-> Pos(a) + k - 1]
      BY <3>3 DEF Stripe, Word, Whole
    <3> QED
      BY <3>4 DEF a
  <2>2. wStripes = [i \in 1..w |-> [bytes |-> [k \in 1..StripeLen |-> Pos(i - 1) + k - 1],
                                   key |-> (i - 1) % StripesPerBlock]]
    BY <1>6 DEF Entries, Entry
  <2> QED
    BY <2>1, <2>2
<1>9. hash' = Hash64(Whole, totalLen)
  <2> DEFINE r == totalLen - 1 - Pos(w)
  <2>1. r \in 0..(StripeLen - 1) /\ totalLen - 1 = Pos(w) + r
    BY <1>1, <1>3, <1>4
  <2> HIDE DEF r
  <2>2. HashLong(Whole, totalLen) =
           [len       |-> totalLen,
            stripes   |-> [i \in 1..w |->
                             [bytes |-> Stripe(Whole, Pos(i - 1)), key |-> (i - 1) % StripesPerBlock]],
            scrambles |-> Marks(q),
            last      |-> Stripe(Whole, totalLen - StripeLen)]
    BY <1>3, <1>5, <1>6, <2>1, LongHash
  <2>3. HashLong(Whole, totalLen) = hash'
    BY <1>2, <1>5, <1>7, <1>8, <2>2
  <2>4. Hash64(Whole, totalLen) = HashLong(Whole, totalLen)
    BY <1>1, <1>3, Sizes DEF Hash64
  <2> QED
    BY <2>3, <2>4
<1>10. InvHash'
  BY <1>2, <1>9 DEF InvHash, Whole
<1>11. TypeOK'
  <2>1. 0 \in 0..(StripesPerBlock - 1)
    BY Sizes
  <2> QED
    BY <1>1, <1>2, <2>1 DEF TypeOK
<1>12. InvState'
  BY <1>1, <1>2 DEF InvState, StateOK, Digesting, Consuming
<1> QED
  BY <1>2, <1>10, <1>11, <1>12 DEF Inv, InvWork, InvBulk, InvTail, InvRemainder, InvLast,
     InvJob, InvBack, Consuming

-----------------------------------------------------------------------------
(* The theorems                                                            *)

LEMMA StepKeeps == Inv /\ [Next]_vars => Inv'
<1> SUFFICES ASSUME Inv, [Next]_vars PROVE Inv'
  OBVIOUS
<1>1. CASE Reset
  BY <1>1, ResetKeeps
<1>2. ASSUME NEW len \in Chunks, UpdateSmall(len) PROVE Inv'
  BY <1>2, SmallKeeps
<1>3. ASSUME NEW len \in Chunks, UpdateLarge(len) PROVE Inv'
  BY <1>3, LargeKeeps
<1>4. CASE ConsumeBlock
  BY <1>4, BlockKeeps
<1>5. CASE ConsumePartial
  BY <1>5, PartialKeeps
<1>6. CASE UpdateBulk
  BY <1>6, BulkKeeps
<1>7. CASE UpdateTail
  BY <1>7, TailKeeps
<1>8. CASE UpdateRemainder
  BY <1>8, RemainderKeeps
<1>9. CASE DigestShort
  BY <1>9, DigestShortKeeps
<1>10. CASE DigestLong
  BY <1>10, DigestLongKeeps
<1>11. CASE DigestLast
  BY <1>11, DigestLastKeeps
<1>12. CASE UNCHANGED vars
  <2>1. /\ UNCHANGED <<totalLen, bufferedSize, buffer, stripes, scrambles, nbStripesSoFar>>
        /\ UNCHANGED <<pc, input, bEnd, wStripes, wScrambles, wSoFar, job, hash, updates>>
    BY <1>12 DEF vars
  <2>2. TypeOK' /\ InvState'
    BY <2>1 DEF Inv, TypeOK, InvState, StateOK, Consuming, Digesting
  <2>3. InvWork' /\ InvBulk' /\ InvTail' /\ InvRemainder' /\ InvLast'
    BY <2>1 DEF Inv, InvWork, InvBulk, InvTail, InvRemainder, InvLast, Updating, Consuming, EndsAt
  <2>4. InvJob'
    <3>1. Source(job.from)' = Source(job.from)
      BY <2>1 DEF Source
    <3> QED
      BY <2>1, <3>1 DEF Inv, InvJob, Consuming, Continues
  <2>5. InvBack'
    BY <2>1 DEF Inv, InvBack, Updating, Consuming, EndsAt, JobEnd
  <2>6. InvHash'
    BY <2>1 DEF Inv, InvHash, Whole
  <2> QED
    BY <2>2, <2>3, <2>4, <2>5, <2>6 DEF Inv
<1> QED
  BY <1>1, <1>2, <1>3, <1>4, <1>5, <1>6, <1>7, <1>8, <1>9, <1>10, <1>11, <1>12 DEF Next

\* The counters of the streaming interface stay in range in every build: no
\* stripe count goes below zero, and no more is buffered than fits.
THEOREM TypeCorrect == Spec => []TypeOK
<1>1. Inv => TypeOK
  BY DEF Inv
<1> QED
  BY <1>1, InitInv, StepKeeps, PTL DEF Spec

\* Whatever the chunks, and whatever was digested in between, a digest is
\* the hash of the whole stream.
THEOREM StreamHash == Spec => []DigestIsOneShot
<1>1. Inv => DigestIsOneShot
  BY DEF Inv, InvHash, DigestIsOneShot
<1> QED
  BY <1>1, InitInv, StepKeeps, PTL DEF Spec

-----------------------------------------------------------------------------
(* What a hash of a contiguous input reads                                 *)

\* The first n bytes, each named by its position.
Positions(n) == [p \in 0..(n - 1) |-> p]

ReadBy(r) == Values(r.lo) \cup Values(r.hi)

\* The reads touch the bytes of the input and all of them.
Covers(reads, n) == UNION {ReadBy(r) : r \in reads} = 0..(n - 1)

LEMMA CoversBy ==
  ASSUME NEW reads, NEW n \in Nat,
         \A r \in reads : ReadBy(r) \subseteq 0..(n - 1),
         \A x \in 0..(n - 1) : \E r \in reads : x \in ReadBy(r)
  PROVE  Covers(reads, n)
BY DEF Covers

LEMMA WordValues ==
  ASSUME NEW n \in Nat, NEW at \in Nat, NEW size \in Nat, at + size <= n
  PROVE  Values(Word(Positions(n), at, size)) = at..(at + size - 1)
<1> DEFINE w == Word(Positions(n), at, size)
<1>1. DOMAIN w = 1..size /\ \A k \in 1..size : w[k] = at + k - 1
  <2>1. \A k \in 1..size : Positions(n)[at + k - 1] = at + k - 1
    BY DEF Positions
  <2> QED
    BY <2>1 DEF Word
<1> HIDE DEF w
<1>2. \A x \in at..(at + size - 1) : x \in Values(w)
  <2> SUFFICES ASSUME NEW x \in at..(at + size - 1) PROVE x \in Values(w)
    OBVIOUS
  <2>1. x - at + 1 \in 1..size /\ w[x - at + 1] = x
    <3>1. x - at + 1 \in 1..size
      OBVIOUS
    <3> QED
      BY <1>1, <3>1
  <2> QED
    BY <1>1, <2>1 DEF Values
<1>3. \A x \in Values(w) : x \in at..(at + size - 1)
  BY <1>1 DEF Values
<1>4. Values(w) = at..(at + size - 1)
  BY <1>2, <1>3
<1> QED
  BY <1>4 DEF w

LEMMA NoWord == Values(<<>>) = {}
BY DEF Values

LEMMA MixReads ==
  ASSUME NEW n \in Nat, NEW at \in Nat, at + 16 <= n, NEW key
  PROVE  ReadBy(Mix16B(Positions(n), at, key)) = at..(at + 15)
<1>1. /\ Values(Word(Positions(n), at, 8)) = at..(at + 8 - 1)
      /\ Values(Word(Positions(n), at + 8, 8)) = (at + 8)..(at + 8 + 8 - 1)
  BY WordValues
<1>2. at..(at + 8 - 1) \cup (at + 8)..(at + 8 + 8 - 1) = at..(at + 15)
  OBVIOUS
<1> QED
  BY <1>1, <1>2 DEF ReadBy, Mix16B

LEMMA Short16 ==
  ASSUME NEW n \in 0..16
  PROVE  Covers(Len0to16(Positions(n), n), n)
<1> DEFINE v == Positions(n)
<1>1. CASE n > 8
  <2> DEFINE a == [lo |-> Word(v, 0, 8), hi |-> <<>>, key |-> 24]
             b == [lo |-> <<>>, hi |-> Word(v, n - 8, 8), key |-> 40]
  <2>1. Len0to16(v, n) = {a, b}
    BY <1>1 DEF Len0to16, Len9to16
  <2>2. ReadBy(a) = 0..7
    <3>1. n \in Nat /\ 0 + 8 <= n
      BY <1>1
    <3>2. \A at \in Nat : at + 8 <= n => Values(Word(v, at, 8)) = at..(at + 8 - 1)
      BY <3>1, WordValues
    <3>3. Values(Word(v, 0, 8)) = 0..7
      BY <3>1, <3>2
    <3> QED
      BY <3>3, NoWord DEF ReadBy
  <2>3. ReadBy(b) = (n - 8)..(n - 1)
    <3>1. Values(Word(v, n - 8, 8)) = (n - 8)..(n - 8 + 8 - 1)
      BY <1>1, WordValues
    <3>2. n - 8 + 8 - 1 = n - 1
      OBVIOUS
    <3> QED
      BY <3>1, <3>2, NoWord DEF ReadBy
  <2> HIDE DEF a, b, v
  <2>4. UNION {ReadBy(r) : r \in {a, b}} = ReadBy(a) \cup ReadBy(b)
    OBVIOUS
  <2>5. 0..7 \cup (n - 8)..(n - 1) = 0..(n - 1)
    BY <1>1
  <2>6. Covers(Len0to16(v, n), n)
    BY <2>1, <2>2, <2>3, <2>4, <2>5 DEF Covers
  <2> QED
    BY <2>6 DEF v
<1>2. CASE n \in 4..8
  <2> DEFINE a == [lo |-> Word(v, n - 4, 4), hi |-> Word(v, 0, 4), key |-> 8]
  <2>1. Len0to16(v, n) = {a}
    BY <1>2 DEF Len0to16, Len4to8
  <2>2. Values(Word(v, n - 4, 4)) = (n - 4)..(n - 1) /\ Values(Word(v, 0, 4)) = 0..3
    <3>1. n \in Nat /\ 0 + 4 <= n /\ n - 4 \in Nat /\ (n - 4) + 4 <= n
      BY <1>2
    <3>2. \A at \in Nat : at + 4 <= n => Values(Word(v, at, 4)) = at..(at + 4 - 1)
      BY <3>1, WordValues
    <3> QED
      BY <3>1, <3>2
  <2>3. (n - 4)..(n - 1) \cup 0..3 = 0..(n - 1)
    BY <1>2
  <2>4. ReadBy(a) = 0..(n - 1)
    BY <2>2, <2>3 DEF ReadBy
  <2> HIDE DEF a, v
  <2>5. UNION {ReadBy(r) : r \in {a}} = ReadBy(a)
    OBVIOUS
  <2>6. Covers(Len0to16(v, n), n)
    BY <2>1, <2>4, <2>5 DEF Covers
  <2> QED
    BY <2>6 DEF v
<1>3. CASE n \in 1..3
  <2> DEFINE w == <<v[n - 1], v[0], v[n \div 2]>>
             a == [lo |-> w, hi |-> <<>>, key |-> 0]
  <2>1. Len0to16(v, n) = {a}
    BY <1>3 DEF Len0to16, Len1to3
  <2>2. v[n - 1] = n - 1 /\ v[0] = 0 /\ v[n \div 2] = n \div 2
    BY <1>3 DEF Positions
  <2>3. Values(w) = {n - 1, 0, n \div 2}
    <3>1. DOMAIN w = 1..3
      OBVIOUS
    <3> HIDE DEF v
    <3>2. w[1] = n - 1 /\ w[2] = 0 /\ w[3] = n \div 2
      BY <2>2
    <3> HIDE DEF w
    <3>3. 1..3 = {1, 2, 3}
      OBVIOUS
    <3> QED
      BY <3>1, <3>2, <3>3 DEF Values
  <2>4. {n - 1, 0, n \div 2} = 0..(n - 1)
    <3>1. n = 1 \/ n = 2 \/ n = 3
      BY <1>3
    <3> QED
      BY <3>1
  <2>5. ReadBy(a) = 0..(n - 1)
    <3> HIDE DEF w, v
    <3> QED
      BY <2>3, <2>4, NoWord DEF ReadBy
  <2> HIDE DEF a, v
  <2>6. UNION {ReadBy(r) : r \in {a}} = ReadBy(a)
    OBVIOUS
  <2>7. Covers(Len0to16(v, n), n)
    BY <2>1, <2>5, <2>6 DEF Covers
  <2> QED
    BY <2>7 DEF v
<1>4. CASE n = 0
  BY <1>4 DEF Len0to16, Covers
<1> QED
  BY <1>1, <1>2, <1>3, <1>4

\* The nested tests meet in the middle.
LEMMA Short128 ==
  ASSUME NEW n \in 17..128
  PROVE  Covers(Len17to128(Positions(n), n), n)
<1> DEFINE mix(at, key) == Mix16B(Positions(n), at, key)
           reads == Len17to128(Positions(n), n)
<1>1. \A at \in 0..(n - 16), key \in Int : ReadBy(mix(at, key)) = at..(at + 15)
  BY MixReads
<1>2. \A r \in reads : \E at \in 0..(n - 16), key \in Int : r = mix(at, key)
  <2> SUFFICES ASSUME NEW r \in reads
               PROVE  \E at \in 0..(n - 16), key \in Int : r = mix(at, key)
    OBVIOUS
  <2>1. \/ r = mix(0, 0) \/ r = mix(n - 16, 16)
        \/ n > 32 /\ (r = mix(16, 32) \/ r = mix(n - 32, 48))
        \/ n > 64 /\ (r = mix(32, 64) \/ r = mix(n - 48, 80))
        \/ n > 96 /\ (r = mix(48, 96) \/ r = mix(n - 64, 112))
    BY DEF Len17to128
  <2> HIDE DEF mix
  <2> QED
    BY <2>1
<1>3. /\ mix(0, 0) \in reads /\ mix(n - 16, 16) \in reads
      /\ n > 32 => mix(16, 32) \in reads /\ mix(n - 32, 48) \in reads
      /\ n > 64 => mix(32, 64) \in reads /\ mix(n - 48, 80) \in reads
      /\ n > 96 => mix(48, 96) \in reads /\ mix(n - 64, 112) \in reads
  BY DEF Len17to128
<1> HIDE DEF mix, reads
<1>4. \A r \in reads : ReadBy(r) \subseteq 0..(n - 1)
  BY <1>1, <1>2
<1>5. \A at \in 0..(n - 16), key \in Int :
        mix(at, key) \in reads => \A x \in at..(at + 15) : \E r \in reads : x \in ReadBy(r)
  BY <1>1
<1>6. ASSUME NEW x \in 0..(n - 1) PROVE \E r \in reads : x \in ReadBy(r)
  <2>1. CASE x \in 0..15 \cup (n - 16)..(n - 1)
    BY <1>3, <1>5, <2>1
  <2>2. CASE n > 32 /\ x \in 16..31 \cup (n - 32)..(n - 17)
    BY <1>3, <1>5, <2>2
  <2>3. CASE n > 64 /\ x \in 32..47 \cup (n - 48)..(n - 33)
    BY <1>3, <1>5, <2>3
  <2>4. CASE n > 96 /\ x \in 48..63 \cup (n - 64)..(n - 49)
    BY <1>3, <1>5, <2>4
  <2> QED
    BY <2>1, <2>2, <2>3, <2>4
<1>7. Covers(reads, n)
  BY <1>4, <1>6, CoversBy
<1> QED
  BY <1>7 DEF reads

LEMMA Short240 ==
  ASSUME NEW n \in Nat, n > 128
  PROVE  Covers(Len129to240(Positions(n), n), n)
<1> DEFINE mix(at, key) == Mix16B(Positions(n), at, key)
           reads == Len129to240(Positions(n), n)
           d == n \div 16
<1>1. \A at \in 0..(n - 16), key \in Int : ReadBy(mix(at, key)) = at..(at + 15)
  BY MixReads
<1>2. d \in Nat /\ d >= 8 /\ 16 * d <= n /\ n < 16 * d + 16
  OBVIOUS
<1>3. \A r \in reads :
        \/ r = mix(n - 16, 136 - 17)
        \/ \E i \in 0..(d - 1), key \in Int : r = mix(16 * i, key)
  <2> SUFFICES ASSUME NEW r \in reads
               PROVE  \/ r = mix(n - 16, 136 - 17)
                      \/ \E i \in 0..(d - 1), key \in Int : r = mix(16 * i, key)
    OBVIOUS
  <2>1. \/ \E i \in 0..7 : r = mix(16 * i, 16 * i)
        \/ \E i \in 8..(d - 1) : r = mix(16 * i, 16 * (i - 8) + 3)
        \/ r = mix(n - 16, 136 - 17)
    BY DEF Len129to240
  <2> HIDE DEF mix, d
  <2>2. ASSUME NEW i \in 0..7, r = mix(16 * i, 16 * i)
        PROVE  \E k \in 0..(d - 1), key \in Int : r = mix(16 * k, key)
    BY <1>2, <2>2
  <2>3. ASSUME NEW i \in 8..(d - 1), r = mix(16 * i, 16 * (i - 8) + 3)
        PROVE  \E k \in 0..(d - 1), key \in Int : r = mix(16 * k, key)
    BY <1>2, <2>3
  <2> QED
    BY <2>1, <2>2, <2>3
<1>4. /\ mix(n - 16, 136 - 17) \in reads
      /\ \A i \in 0..7 : mix(16 * i, 16 * i) \in reads
      /\ \A i \in 8..(d - 1) : mix(16 * i, 16 * (i - 8) + 3) \in reads
  BY DEF Len129to240
<1> HIDE DEF mix, reads, d
<1>5. \A r \in reads : ReadBy(r) \subseteq 0..(n - 1)
  <2> SUFFICES ASSUME NEW r \in reads PROVE ReadBy(r) \subseteq 0..(n - 1)
    OBVIOUS
  <2>1. CASE r = mix(n - 16, 136 - 17)
    BY <1>1, <2>1
  <2>2. ASSUME NEW i \in 0..(d - 1), NEW key \in Int, r = mix(16 * i, key)
        PROVE  ReadBy(r) \subseteq 0..(n - 1)
    <3>1. 16 * i \in 0..(n - 16)
      BY <1>2
    <3>2. ReadBy(r) = (16 * i)..(16 * i + 15)
      BY <1>1, <2>2, <3>1
    <3> QED
      BY <3>1, <3>2
  <2> QED
    BY <1>3, <2>1, <2>2
<1>6. ASSUME NEW x \in 0..(n - 1) PROVE \E r \in reads : x \in ReadBy(r)
  <2>1. CASE x >= 16 * d
    <3>1. x \in (n - 16)..(n - 16 + 15)
      BY <1>2, <2>1
    <3>2. ReadBy(mix(n - 16, 136 - 17)) = (n - 16)..(n - 16 + 15)
      BY <1>1
    <3> QED
      BY <1>4, <3>1, <3>2
  <2>2. CASE x < 16 * d
    <3> DEFINE i == x \div 16
    <3>1. i \in Nat /\ 16 * i <= x /\ x <= 16 * i + 15
      OBVIOUS
    <3> HIDE DEF i
    <3>2. i \in 0..(d - 1) /\ 16 * i \in 0..(n - 16)
      BY <1>2, <2>2, <3>1
    <3>3. \A key \in Int : x \in ReadBy(mix(16 * i, key))
      BY <1>1, <3>1, <3>2
    <3>4. CASE i \in 0..7
      BY <1>4, <3>1, <3>3, <3>4
    <3>5. CASE i \in 8..(d - 1)
      BY <1>4, <3>1, <3>3, <3>5
    <3> QED
      BY <1>2, <3>2, <3>4, <3>5
  <2> QED
    BY <1>2, <2>1, <2>2
<1>7. Covers(reads, n)
  BY <1>5, <1>6, CoversBy
<1> QED
  BY <1>7 DEF reads

\* The stripes leave off where the last one, which ends the input, has begun.
LEMMA LongReads ==
  ASSUME NEW n \in Nat, n > MidSizeMax
  PROVE  BytesRead(HashLong(Positions(n), n)) = 0..(n - 1)
<1> DEFINE v == Positions(n)
           m == (n - 1) \div StripeLen
           r == (n - 1) - Pos(m)
           q == m \div StripesPerBlock
           f == m % StripesPerBlock
           fed == [i \in 1..m |->
                     [bytes |-> Stripe(v, Pos(i - 1)), key |-> (i - 1) % StripesPerBlock]]
           end == Stripe(v, n - StripeLen)
           h == HashLong(v, n)
<1>1. n - 1 \in Nat /\ n >= StripeLen
  BY Sizes
<1>2. m \in Nat /\ Pos(m) \in Nat /\ r \in 0..(StripeLen - 1) /\ n - 1 = Pos(m) + r
  <2>1. m \in Nat /\ Pos(m) <= n - 1 /\ n - 1 < Pos(m) + StripeLen
    BY <1>1, StripesIn
  <2>2. Pos(m) \in Nat
    BY <2>1, PosFacts
  <2> HIDE DEF m
  <2> QED
    BY <1>1, <2>1, <2>2, Sizes
<1>3. q \in Nat /\ f \in 0..(StripesPerBlock - 1) /\ m = q * StripesPerBlock + f
  <2> HIDE DEF m
  <2> QED
    BY <1>2, Sizes
<1> HIDE DEF v, m, r, q, f
<1>4. h = [len |-> n, stripes |-> fed, scrambles |-> Marks(q), last |-> end]
  <2>1. n - 1 = Pos(q * StripesPerBlock + f) + r
    BY <1>2, <1>3
  <2> QED
    BY <1>2, <1>3, <2>1, LongHash
<1>5. /\ IsLong(h) /\ h.stripes = fed /\ h.last = end
  <2> HIDE DEF fed, end, h
  <2> QED
    BY <1>4 DEF IsLong
<1>6. Values(end) = (n - StripeLen)..(n - 1)
  <2>1. n - StripeLen \in Nat /\ StripeLen \in Nat /\ n - StripeLen + StripeLen <= n
    BY <1>1, Sizes
  <2>2. Values(Word(v, n - StripeLen, StripeLen))
          = (n - StripeLen)..(n - StripeLen + StripeLen - 1)
    BY <2>1, WordValues DEF v
  <2>3. n - StripeLen + StripeLen - 1 = n - 1
    BY <1>1, Sizes
  <2> QED
    BY <2>2, <2>3 DEF Stripe
<1>7. \A i \in 1..m : /\ Values(fed[i].bytes) = Pos(i - 1)..(Pos(i) - 1)
                      /\ Pos(i - 1) \in Nat /\ Pos(i) \in Nat /\ Pos(i) <= n - 1
  <2> SUFFICES ASSUME NEW i \in 1..m
               PROVE  /\ Values(fed[i].bytes) = Pos(i - 1)..(Pos(i) - 1)
                      /\ Pos(i - 1) \in Nat /\ Pos(i) \in Nat /\ Pos(i) <= n - 1
    OBVIOUS
  <2>1. i - 1 \in Nat /\ m - i \in Nat /\ 1 \in Nat /\ i \in Nat
    BY <1>2
  <2>2. Pos((i - 1) + 1) = Pos(i - 1) + Pos(1) /\ Pos((m - i) + i) = Pos(m - i) + Pos(i)
    BY <2>1, PosFacts
  <2>3. (i - 1) + 1 = i /\ (m - i) + i = m /\ Pos(1) = StripeLen
    BY <1>2, Sizes DEF Pos
  <2>4. Pos(i - 1) \in Nat /\ Pos(i) \in Nat /\ Pos(m - i) \in Nat
    BY <2>1, PosFacts
  <2>5. Pos(i) = Pos(i - 1) + StripeLen /\ Pos(i) <= n - 1
    BY <1>2, <2>2, <2>3, <2>4
  <2>6. Values(Word(v, Pos(i - 1), StripeLen)) = Pos(i - 1)..(Pos(i - 1) + StripeLen - 1)
    BY <2>4, <2>5, Sizes, WordValues DEF v
  <2>7. fed[i].bytes = Word(v, Pos(i - 1), StripeLen)
    BY DEF Stripe
  <2>8. Pos(i - 1) + StripeLen - 1 = Pos(i) - 1
    BY <2>4, <2>5, Sizes
  <2> HIDE DEF fed
  <2> QED
    BY <2>4, <2>5, <2>6, <2>7, <2>8
<1>8. DOMAIN fed = 1..m
  OBVIOUS
<1> HIDE DEF fed, end, h
<1>9. BytesRead(h) = (UNION {Values(fed[i].bytes) : i \in 1..m}) \cup (n - StripeLen)..(n - 1)
  BY <1>5, <1>6, <1>8 DEF BytesRead
<1>10. (UNION {Values(fed[i].bytes) : i \in 1..m}) \cup (n - StripeLen)..(n - 1) \subseteq 0..(n - 1)
  <2>1. (n - StripeLen)..(n - 1) \subseteq 0..(n - 1)
    BY <1>1, Sizes
  <2>2. \A i \in 1..m : Values(fed[i].bytes) \subseteq 0..(n - 1)
    BY <1>1, <1>7
  <2> QED
    BY <2>1, <2>2
<1>11. ASSUME NEW x \in 0..(n - 1), x < n - StripeLen
       PROVE  \E i \in 1..m : x \in Values(fed[i].bytes)
  <2> DEFINE i == x \div StripeLen
  <2>1. i \in Nat /\ Pos(i) <= x /\ x < Pos(i) + StripeLen
    BY StripesIn
  <2> HIDE DEF i
  <2>2. Pos(i + 1) = Pos(i) + StripeLen /\ Pos(i) \in Nat
    <3>1. Pos(1) = StripeLen /\ 1 \in Nat
      BY Sizes DEF Pos
    <3> QED
      BY <2>1, <3>1, PosFacts
  <2>3. i + 1 <= m
    <3>1. Pos(i) < Pos(m)
      BY <1>2, <1>11, <2>1, <2>2, Sizes
    <3>2. CASE i >= m
      <4> DEFINE k == i - m
      <4>1. k \in Nat /\ k + m = i
        BY <1>2, <2>1, <3>2
      <4> HIDE DEF k
      <4>2. Pos(k + m) = Pos(k) + Pos(m) /\ Pos(k) \in Nat
        BY <1>2, <4>1, PosFacts
      <4> QED
        BY <1>2, <2>2, <3>1, <4>1, <4>2
    <3> QED
      BY <1>2, <2>1, <3>2
  <2>4. i + 1 \in 1..m /\ (i + 1) - 1 = i
    BY <1>2, <2>1, <2>3
  <2>5. Values(fed[i + 1].bytes) = Pos(i)..(Pos(i + 1) - 1)
    BY <1>7, <2>4
  <2>6. x \in Values(fed[i + 1].bytes)
    BY <2>1, <2>2, <2>5, Sizes
  <2> QED
    BY <2>4, <2>6
<1>12. \A x \in 0..(n - 1) :
         x \in (UNION {Values(fed[i].bytes) : i \in 1..m}) \cup (n - StripeLen)..(n - 1)
  <2> SUFFICES ASSUME NEW x \in 0..(n - 1)
               PROVE  x \in (UNION {Values(fed[i].bytes) : i \in 1..m}) \cup (n - StripeLen)..(n - 1)
    OBVIOUS
  <2>1. x < n - StripeLen \/ x \in (n - StripeLen)..(n - 1)
    BY <1>1, Sizes
  <2>2. CASE x < n - StripeLen
    <3>1. PICK i \in 1..m : x \in Values(fed[i].bytes)
      BY <1>11, <2>2
    <3> QED
      BY <3>1
  <2> QED
    BY <2>1, <2>2
<1>13. BytesRead(h) = 0..(n - 1)
  BY <1>9, <1>10, <1>12
<1> QED
  BY <1>13 DEF h, v

\* XXH3_64bits reads every byte of its input, and no other, at every length.
LEMMA HashReads ==
  ASSUME NEW n \in Nat
  PROVE  BytesRead(Hash64(Positions(n), n)) = 0..(n - 1)
<1>1. CASE n > MidSizeMax
  BY <1>1, LongReads, Sizes DEF Hash64
<1>2. CASE n <= MidSizeMax
  <2> DEFINE reads == IF n <= 16 THEN Len0to16(Positions(n), n)
                      ELSE IF n <= 128 THEN Len17to128(Positions(n), n)
                      ELSE Len129to240(Positions(n), n)
             h == [len |-> n, reads |-> reads]
  <2>1. Covers(reads, n)
    <3>1. CASE n <= 16
      BY <3>1, Short16
    <3>2. CASE n > 16 /\ n <= 128
      BY <3>2, Short128
    <3>3. CASE n > 128
      BY <3>3, Short240
    <3> QED
      BY <3>1, <3>2, <3>3
  <2>2. Hash64(Positions(n), n) = h
    BY <1>2 DEF Hash64, ShortHash
  <2> HIDE DEF reads
  <2>3. ~IsLong(h) /\ h.reads = reads
    BY DEF IsLong
  <2> HIDE DEF h
  <2>4. BytesRead(h) = UNION {ReadBy(r) : r \in reads}
    BY <2>3 DEF BytesRead, ReadBy
  <2> QED
    BY <2>1, <2>2, <2>4 DEF Covers
<1> QED
  BY <1>1, <1>2, Sizes

\* No byte of the stream is left out of its digest and none from elsewhere, as
\* one that an earlier stream left in the buffer, goes into it.
THEOREM EveryByteIsHashed == Spec => []EveryByteHashed
<1>1. Inv => EveryByteHashed
  <2> SUFFICES ASSUME Inv, hash # NoHash PROVE BytesRead(hash) = 0..(totalLen - 1)
    BY DEF EveryByteHashed
  <2>1. totalLen \in Nat /\ hash = Hash64(Positions(totalLen), totalLen)
    BY DEF Inv, TypeOK, InvHash, Whole, Positions
  <2> QED
    BY <2>1, HashReads
<1> QED
  BY <1>1, InitInv, StepKeeps, PTL DEF Spec

-----------------------------------------------------------------------------
(* Functions defined by recursion on 0..n                                  *)

\* Induction up to n, for a set.
LEMMA UpTo ==
  ASSUME NEW n \in Nat, NEW S, 0 \in S, \A k \in 1..n : k - 1 \in S => k \in S
  PROVE  0..n \subseteq S
<1> DEFINE Bad == {k \in 0..n : k \notin S}
<1> SUFFICES ASSUME Bad # {} PROVE FALSE
  OBVIOUS
<1>1. Bad \in SUBSET Nat
  OBVIOUS
<1>2. PICK k \in Bad : \A j \in Bad : ~(<<j, k>> \in OpToRel(<, Nat))
  <2> HIDE DEF Bad
  <2> QED
    BY <1>1, NatLessThanWellFounded, WFMin
<1>3. k \in 1..n /\ k - 1 \in 0..n
  OBVIOUS
<1>4. <<k - 1, k>> \in OpToRel(<, Nat)
  BY <1>3 DEF OpToRel
<1>5. k - 1 \notin Bad
  BY <1>2, <1>4, Zenon
<1> QED
  BY <1>3, <1>5

\* f starts at x and takes n steps.
Iterated(n, T, x, step, f) ==
  f \in [0..n -> T] /\ f[0] = x /\ \A k \in 1..n : f[k] = step[k][f[k - 1]]

LEMMA Iterates ==
  ASSUME NEW n \in Nat, NEW T, NEW x \in T, NEW step \in [1..n -> [T -> T]]
  PROVE  \E f : Iterated(n, T, x, step, f)
<1> DEFINE Good(k, f) == f[0] = x /\ \A j \in 1..k : f[j] = step[j][f[j - 1]]
           S == {k \in 0..n : \E f \in [0..k -> T] : Good(k, f)}
<1>1. 0 \in S
  <2> DEFINE g == [j \in 0..0 |-> x]
  <2>1. g \in [0..0 -> T] /\ g[0] = x /\ \A j \in 1..0 : g[j] = step[j][g[j - 1]]
    OBVIOUS
  <2> HIDE DEF g
  <2> QED
    BY <2>1
<1>2. ASSUME NEW k \in 1..n, k - 1 \in S PROVE k \in S
  <2>1. PICK f \in [0..(k - 1) -> T] : Good(k - 1, f)
    BY <1>2
  <2> DEFINE g == [j \in 0..k |-> IF j = k THEN step[k][f[k - 1]] ELSE f[j]]
  <2>2. step[k] \in [T -> T] /\ f[k - 1] \in T
    OBVIOUS
  <2>3. g \in [0..k -> T]
    BY <2>2
  <2>4. g[0] = x
    BY <2>1
  <2>5. ASSUME NEW j \in 1..k PROVE g[j] = step[j][g[j - 1]]
    <3>1. CASE j = k
      BY <3>1
    <3>2. CASE j # k
      <4>1. j \in 1..(k - 1) /\ j - 1 \in 0..k /\ j - 1 # k
        BY <3>2
      <4> QED
        BY <2>1, <3>2, <4>1
    <3> QED
      BY <3>1, <3>2
  <2>6. k \in 0..n
    OBVIOUS
  <2> HIDE DEF g
  <2> QED
    BY <2>3, <2>4, <2>5, <2>6
<1>3. 0..n \subseteq S
  <2> HIDE DEF S
  <2> QED
    BY <1>1, <1>2, UpTo
<1>4. n \in S
  <2> HIDE DEF S
  <2> QED
    BY <1>3
<1> QED
  BY <1>4 DEF Iterated

-----------------------------------------------------------------------------
(* Arithmetic modulo a word                                                *)

LEMMA Division ==
  ASSUME NEW w \in Nat \ {0}, NEW a \in Int
  PROVE  a = w * (a \div w) + (a % w) /\ a \div w \in Int /\ a % w \in 0..(w - 1)
OBVIOUS

LEMMA ModIs ==
  ASSUME NEW w \in Nat \ {0}, NEW q \in Int, NEW r \in 0..(w - 1), NEW a \in Int, a = w * q + r
  PROVE  a % w = r /\ a \div w = q
OBVIOUS

\* Multiples of w do not matter.
LEMMA ModShift ==
  ASSUME NEW w \in Nat \ {0}, NEW a \in Int, NEW k \in Int
  PROVE  (a + w * k) % w = a % w
<1>1. PICK q \in Int, r \in 0..(w - 1) : q = a \div w /\ r = a % w /\ a = w * q + r
  BY Division
<1>2. PICK p \in Int : p = q + k
  OBVIOUS
<1>3. PICK b \in Int : b = a + w * k
  OBVIOUS
<1>4. b = w * p + r
  BY <1>1, <1>2, <1>3
<1>5. b % w = r
  BY <1>4, ModIs
<1> QED
  BY <1>1, <1>3, <1>5

LEMMA ModAdd ==
  ASSUME NEW w \in Nat \ {0}, NEW a \in Int, NEW b \in Int
  PROVE  ((a % w) + b) % w = (a + b) % w
<1>1. PICK q \in Int, r \in 0..(w - 1) : r = a % w /\ a = w * q + r
  BY Division
<1>2. a + b = (r + b) + w * q /\ r + b \in Int
  BY <1>1
<1> QED
  BY <1>1, <1>2, ModShift

LEMMA ModSmall ==
  ASSUME NEW w \in Nat \ {0}, NEW a \in 0..(w - 1)
  PROVE  a % w = a
<1>1. a = w * 0 + a
  OBVIOUS
<1> QED
  BY <1>1, ModIs

-----------------------------------------------------------------------------
(* Words                                                                   *)

Bits == 2 * HalfBits
Words == 0..(WordMod - 1)
Halves == 0..(Half - 1)

LEMMA BitsAre == Bits \in Nat /\ HalfBits \in 0..Bits /\ HalfBits \in Nat /\ ShiftBits \in 0..Bits
BY KernelAssumption DEF Bits

LEMMA Pow2Is ==
  /\ Pow2 \in [0..Bits -> Nat] /\ Pow2[0] = 1
  /\ \A k \in 1..Bits : Pow2[k] = 2 * Pow2[k - 1]
<1> DEFINE Def(f) == [k \in 0..Bits |-> IF k = 0 THEN 1 ELSE 2 * f[k - 1]]
           step == [k \in 1..Bits |-> [t \in Nat |-> 2 * t]]
           T == Nat
<1>0. PICK one \in Nat : one = 1
  OBVIOUS
<1>1. PICK f : Iterated(Bits, T, one, step, f)
  <2>1. [t \in Nat |-> 2 * t] \in [Nat -> Nat]
    OBVIOUS
  <2>2. step \in [1..Bits -> [T -> T]] /\ one \in T
    BY <1>0, <2>1
  <2>3. Bits \in Nat
    BY BitsAre
  <2> HIDE DEF step, T
  <2> QED
    BY <2>2, <2>3, Iterates
<1>2. \A k \in 1..Bits : k - 1 \in 0..Bits /\ f[k] = 2 * f[k - 1]
  <2>1. \A k \in 1..Bits : k - 1 \in 0..Bits
    BY BitsAre
  <2>2. \A k \in 1..Bits, t \in Nat : step[k][t] = 2 * t
    OBVIOUS
  <2> HIDE DEF step
  <2> QED
    BY <1>1, <2>1, <2>2 DEF Iterated
<1>3. f = Def(f)
  BY <1>0, <1>1, <1>2, BitsAre DEF Iterated
<1>4. Pow2 = CHOOSE g : g = Def(g)
  BY DEF Pow2, Bits
<1>5. Pow2 = Def(Pow2)
  <2> HIDE DEF Def
  <2> QED
    BY <1>3, <1>4
<1> HIDE DEF Def
<1>6. \A k \in 0..Bits : Def(Pow2)[k] = IF k = 0 THEN 1 ELSE 2 * Pow2[k - 1]
  BY DEF Def
<1>7. Pow2[0] = 1 /\ \A k \in 1..Bits : Pow2[k] = 2 * Pow2[k - 1]
  <2>1. 0 \in 0..Bits /\ \A k \in 1..Bits : k \in 0..Bits /\ k # 0
    BY BitsAre
  <2> QED
    BY <1>5, <1>6, <2>1
<1> DEFINE S == {k \in 0..Bits : Pow2[k] \in Nat}
<1>8. 0 \in S /\ \A k \in 1..Bits : k - 1 \in S => k \in S
  <2>1. \A k \in 1..Bits : k \in 0..Bits
    OBVIOUS
  <2> QED
    BY <1>7, <2>1, BitsAre
<1>9. 0..Bits \subseteq S
  <2> HIDE DEF S
  <2> QED
    BY <1>8, BitsAre, UpTo
<1>10. DOMAIN Pow2 = 0..Bits /\ Pow2 = [k \in 0..Bits |-> Pow2[k]]
  <2>1. DOMAIN Def(Pow2) = 0..Bits /\ Def(Pow2) = [k \in 0..Bits |-> Def(Pow2)[k]]
    BY DEF Def
  <2> QED
    BY <1>5, <2>1, Zenon
<1>11. \A k \in 0..Bits : Pow2[k] \in Nat
  BY <1>9
<1> QED
  BY <1>7, <1>10, <1>11, Zenon

LEMMA Pow2Positive == \A k \in 0..Bits : Pow2[k] \in Nat \ {0}
<1> DEFINE S == {k \in 0..Bits : Pow2[k] \in Nat \ {0}}
<1>1. 0 \in S /\ \A k \in 1..Bits : k - 1 \in S => k \in S
  <2>1. \A k \in 1..Bits : k \in 0..Bits
    OBVIOUS
  <2> QED
    BY <2>1, Pow2Is, BitsAre
<1>2. 0..Bits \subseteq S
  <2> HIDE DEF S
  <2> QED
    BY <1>1, BitsAre, UpTo
<1> QED
  BY <1>2

\* A word is two halves.
LEMMA WordIs == Half \in Nat \ {0} /\ WordMod \in Nat \ {0} /\ WordMod = Half * Half
<1>1. Half \in Nat \ {0} /\ WordMod \in Nat \ {0}
  BY Pow2Positive, BitsAre DEF Half, WordMod, Bits
<1> DEFINE S == {k \in 0..HalfBits : Pow2[HalfBits + k] = Half * Pow2[k]}
<1>2. 0 \in S
  BY <1>1, BitsAre, Pow2Is DEF Half
<1>3. ASSUME NEW k \in 1..HalfBits, k - 1 \in S PROVE k \in S
  <2>1. HalfBits + k \in 1..Bits /\ k \in 1..Bits /\ k \in 0..HalfBits
    BY BitsAre DEF Bits
  <2>2. Pow2[HalfBits + k] = 2 * Pow2[HalfBits + k - 1] /\ Pow2[k] = 2 * Pow2[k - 1]
    <3>1. Pow2[k] = 2 * Pow2[k - 1]
      BY <2>1, Pow2Is
    <3>2. PICK h \in 1..Bits : h = HalfBits + k
      BY <2>1
    <3>3. Pow2[h] = 2 * Pow2[h - 1]
      BY Pow2Is
    <3>4. HalfBits + k - 1 = h - 1
      BY <3>2, BitsAre
    <3> QED
      BY <3>1, <3>2, <3>3, <3>4, Zenon
  <2>3. HalfBits + (k - 1) = HalfBits + k - 1
    BY BitsAre
  <2>4. Pow2[HalfBits + k - 1] = Half * Pow2[k - 1]
    BY <1>3, <2>3
  <2>5. Pow2[k - 1] \in Nat
    <3>1. k - 1 \in 0..Bits
      BY <2>1, BitsAre
    <3> QED
      BY <3>1, Pow2Is
  <2>6. 2 * (Half * Pow2[k - 1]) = Half * (2 * Pow2[k - 1])
    BY <1>1, <2>5
  <2> QED
    BY <2>1, <2>2, <2>4, <2>6
<1>4. HalfBits \in S
  <2> HIDE DEF S
  <2> QED
    BY <1>2, <1>3, BitsAre, UpTo
<1>5. HalfBits + HalfBits = 2 * HalfBits
  BY BitsAre
<1> QED
  BY <1>1, <1>4, <1>5 DEF Half, WordMod

LEMMA BitIs == \A a \in Words, k \in 0..Bits : Bit(a, k) \in 0..1
<1> SUFFICES ASSUME NEW a \in Words, NEW k \in 0..Bits PROVE Bit(a, k) \in 0..1
  OBVIOUS
<1>1. a \in Int /\ Pow2[k] \in Nat \ {0}
  BY WordIs, Pow2Positive DEF Words
<1>2. PICK q \in Int : q = a \div Pow2[k]
  BY <1>1, Division
<1>3. q % 2 \in 0..1
  OBVIOUS
<1> QED
  BY <1>2, <1>3 DEF Bit

\* What bit k - 1 adds to the exclusive or of the bits below it.
Added(a, b, k) == ((Bit(a, k - 1) + Bit(b, k - 1)) % 2) * Pow2[k - 1]
Tables == [Words -> [Words -> Nat]]
XorStep(t, k) ==
  [a \in Words |-> [b \in Words |-> IF k = 0 THEN 0 ELSE t[a][b] + Added(a, b, k)]]

LEMMA AddedIs ==
  \A a, b \in Words, k \in 1..Bits : Added(a, b, k) \in {0, Pow2[k - 1]} /\ Pow2[k - 1] \in Nat
<1> SUFFICES ASSUME NEW a \in Words, NEW b \in Words, NEW k \in 1..Bits
             PROVE  Added(a, b, k) \in {0, Pow2[k - 1]} /\ Pow2[k - 1] \in Nat
  OBVIOUS
<1>1. PICK j \in 0..Bits : j = k - 1
  BY BitsAre
<1>2. Bit(a, j) \in 0..1 /\ Bit(b, j) \in 0..1 /\ Pow2[j] \in Nat
  BY BitIs, Pow2Is
<1>3. (Bit(a, j) + Bit(b, j)) % 2 \in 0..1
  BY <1>2
<1>4. ((Bit(a, j) + Bit(b, j)) % 2) * Pow2[j] \in {0, Pow2[j]}
  BY <1>2, <1>3
<1> QED
  BY <1>1, <1>2, <1>4 DEF Added

LEMMA XorOfIs ==
  /\ XorOf \in [0..Bits -> Tables]
  /\ \A a, b \in Words : XorOf[0][a][b] = 0
  /\ \A k \in 1..Bits : \A a, b \in Words : XorOf[k][a][b] = XorOf[k - 1][a][b] + Added(a, b, k)
<1> DEFINE Def(f) == [k \in 0..Bits |-> XorStep(f[k - 1], k)]
           none == [a \in Words |-> [b \in Words |-> 0]]
           step == [k \in 1..Bits |-> [t \in Tables |-> XorStep(t, k)]]
<1>1. \A t : XorStep(t, 0) = none
  BY DEF XorStep
<1>2. none \in Tables
  BY DEF Tables
<1>3. ASSUME NEW k \in 1..Bits, NEW t \in Tables PROVE XorStep(t, k) \in Tables
  <2>1. \A a, b \in Words : t[a][b] + Added(a, b, k) \in Nat
    BY AddedIs DEF Tables
  <2>2. k # 0
    OBVIOUS
  <2> QED
    BY <2>1, <2>2 DEF Tables, XorStep
<1>4. step \in [1..Bits -> [Tables -> Tables]]
  BY <1>3
<1>5. \A k \in 1..Bits, t \in Tables : step[k][t] = XorStep(t, k)
  OBVIOUS
<1> HIDE DEF none, step
<1>6. PICK f : Iterated(Bits, Tables, none, step, f)
  BY <1>2, <1>4, BitsAre, Iterates
<1>7. f \in [0..Bits -> Tables] /\ f[0] = none /\ \A k \in 1..Bits : f[k] = XorStep(f[k - 1], k)
  <2>1. \A k \in 1..Bits : k - 1 \in 0..Bits
    BY BitsAre
  <2> QED
    BY <1>5, <1>6, <2>1 DEF Iterated
<1>8. \A k \in 0..Bits : f[k] = XorStep(f[k - 1], k)
  <2>1. \A k \in 0..Bits : k = 0 \/ k \in 1..Bits
    BY BitsAre
  <2> QED
    BY <1>1, <1>7, <2>1
<1>9. f = Def(f)
  BY <1>7, <1>8
<1>10. XorOf = CHOOSE g : g = Def(g)
  BY DEF XorOf, XorStep, Added, Words, Bits
<1>11. XorOf = Def(XorOf)
  <2> HIDE DEF Def
  <2> QED
    BY <1>9, <1>10
<1>12. \A k \in 0..Bits : Def(XorOf)[k] = XorStep(XorOf[k - 1], k)
  OBVIOUS
<1>13. DOMAIN Def(XorOf) = 0..Bits /\ Def(XorOf) = [k \in 0..Bits |-> Def(XorOf)[k]]
  OBVIOUS
<1> HIDE DEF Def
<1>14. DOMAIN XorOf = 0..Bits /\ XorOf = [k \in 0..Bits |-> XorOf[k]]
  BY <1>11, <1>13, Zenon
<1>15. \A k \in 0..Bits : XorOf[k] = XorStep(XorOf[k - 1], k)
  BY <1>11, <1>12, Zenon
<1> DEFINE S == {k \in 0..Bits : XorOf[k] \in Tables}
<1>16. 0 \in S
  <2>1. 0 \in 0..Bits
    BY BitsAre
  <2>2. XorOf[0] = none
    BY <1>1, <1>15, <2>1
  <2> QED
    BY <1>2, <2>1, <2>2
<1>17. ASSUME NEW k \in 1..Bits, k - 1 \in S PROVE k \in S
  <2>1. XorOf[k] = XorStep(XorOf[k - 1], k) /\ k \in 0..Bits
    BY <1>15
  <2> QED
    BY <1>3, <1>17, <2>1
<1>18. 0..Bits \subseteq S
  <2> HIDE DEF S
  <2> QED
    BY <1>16, <1>17, BitsAre, UpTo
<1>19. XorOf \in [0..Bits -> Tables]
  <2>1. \A k \in 0..Bits : XorOf[k] \in Tables
    BY <1>18
  <2> QED
    BY <1>14, <2>1, Zenon
<1>20. \A a, b \in Words : XorOf[0][a][b] = 0
  <2>1. XorOf[0] = none
    BY <1>1, <1>15, BitsAre
  <2> QED
    BY <2>1 DEF none
<1>21. \A k \in 1..Bits : \A a, b \in Words : XorOf[k][a][b] = XorOf[k - 1][a][b] + Added(a, b, k)
  <2>1. \A k \in 1..Bits : XorOf[k] = XorStep(XorOf[k - 1], k) /\ k # 0
    BY <1>15
  <2>2. \A k, t : k # 0 => \A a, b \in Words : XorStep(t, k)[a][b] = t[a][b] + Added(a, b, k)
    BY DEF XorStep
  <2> QED
    BY <2>1, <2>2
<1> QED
  BY <1>19, <1>20, <1>21

\* The exclusive or of words is a word.
LEMMA XorIsWord == \A a, b \in Words : XorTable[a][b] \in Words
<1> SUFFICES ASSUME NEW a \in Words, NEW b \in Words PROVE XorTable[a][b] \in Words
  OBVIOUS
<1> DEFINE S == {k \in 0..Bits : XorOf[k][a][b] \in 0..(Pow2[k] - 1)}
<1>1. 0 \in S
  BY XorOfIs, Pow2Is, BitsAre
<1>2. ASSUME NEW k \in 1..Bits, k - 1 \in S PROVE k \in S
  <2>1. XorOf[k][a][b] = XorOf[k - 1][a][b] + Added(a, b, k)
    BY XorOfIs
  <2>2. Added(a, b, k) \in {0, Pow2[k - 1]} /\ Pow2[k - 1] \in Nat
    BY AddedIs
  <2>3. Pow2[k] = 2 * Pow2[k - 1] /\ k \in 0..Bits
    BY Pow2Is
  <2>4. XorOf[k - 1][a][b] \in 0..(Pow2[k - 1] - 1)
    BY <1>2
  <2>5. XorOf[k][a][b] \in 0..(Pow2[k] - 1)
    BY <2>1, <2>2, <2>3, <2>4
  <2> QED
    BY <2>3, <2>5
<1>3. 0..Bits \subseteq S
  <2> HIDE DEF S
  <2> QED
    BY <1>1, <1>2, BitsAre, UpTo
<1>4. Bits \in S
  <2> HIDE DEF S
  <2> QED
    BY <1>3, BitsAre
<1> QED
  BY <1>4 DEF XorTable, Words, WordMod, Bits

\* The halves of a word.
LEMMA HalvesAre ==
  \A x \in Words : Low(x) \in Halves /\ High(x) \in Halves /\ x = Half * High(x) + Low(x)
<1> SUFFICES ASSUME NEW x \in Words
             PROVE  Low(x) \in Halves /\ High(x) \in Halves /\ x = Half * High(x) + Low(x)
  OBVIOUS
<1>1. x \in Int /\ x >= 0 /\ x < Half * Half /\ Half \in Nat \ {0}
  BY WordIs DEF Words
<1>2. PICK q \in Int, r \in 0..(Half - 1) : q = x \div Half /\ r = x % Half /\ x = Half * q + r
  BY <1>1, Division
<1>3. q >= 0
  <2> SUFFICES ASSUME q <= -1 PROVE FALSE
    BY <1>2
  <2>1. Half * q <= Half * (-1)
    BY <1>1
  <2> QED
    BY <1>1, <1>2, <2>1
<1>4. q < Half
  <2> SUFFICES ASSUME q >= Half PROVE FALSE
    BY <1>1, <1>2
  <2>1. Half * q >= Half * Half
    BY <1>1
  <2> QED
    BY <1>1, <1>2, <2>1
<1>5. q \in 0..(Half - 1)
  BY <1>1, <1>3, <1>4
<1> QED
  BY <1>2, <1>5 DEF Low, High, Halves

\* A word put together from two halves.
LEMMA FromHalves ==
  \A l, h \in Halves :
     /\ l + Half * h \in Words /\ Low(l + Half * h) = l /\ High(l + Half * h) = h
<1> SUFFICES ASSUME NEW l \in Halves, NEW h \in Halves
             PROVE  /\ l + Half * h \in Words
                    /\ Low(l + Half * h) = l /\ High(l + Half * h) = h
  OBVIOUS
<1>1. Half \in Nat \ {0} /\ l \in 0..(Half - 1) /\ h \in 0..(Half - 1)
  BY WordIs DEF Halves
<1>2. PICK x \in Int : x = l + Half * h
  BY <1>1
<1>3. x = Half * h + l
  BY <1>1, <1>2
<1>4. x % Half = l /\ x \div Half = h
  BY <1>1, <1>3, ModIs
<1>5. Half * h <= Half * (Half - 1)
  BY <1>1
<1>6. Half * h >= 0 /\ Half * (Half - 1) = Half * Half - Half
  BY <1>1
<1>7. x \in 0..(Half * Half - 1)
  BY <1>1, <1>3, <1>5, <1>6
<1> QED
  BY <1>2, <1>4, <1>7, WordIs DEF Low, High, Words

LEMMA HalfIsHalf == \A h \in Halves : Low(h) = h
BY WordIs, ModSmall DEF Low, Halves

\* A shift to the right leaves a word.
LEMMA ShiftedIsWord == \A x \in Words, k \in 0..Bits : x \div Pow2[k] \in Words
<1> SUFFICES ASSUME NEW x \in Words, NEW k \in 0..Bits PROVE x \div Pow2[k] \in Words
  OBVIOUS
<1>1. PICK p \in Nat \ {0} : p = Pow2[k]
  BY Pow2Positive
<1>2. x \in Int /\ x >= 0 /\ x < WordMod /\ WordMod \in Nat \ {0}
  BY WordIs DEF Words
<1>3. PICK q \in Int, r \in 0..(p - 1) : q = x \div p /\ x = p * q + r
  BY <1>2, Division
<1>4. q >= 0
  <2> SUFFICES ASSUME q <= -1 PROVE FALSE
    BY <1>3
  <2>1. p * q <= p * (-1)
    BY <1>1
  <2> QED
    BY <1>2, <1>3, <2>1
<1>5. q <= x
  <2>1. p * q >= q
    BY <1>4
  <2> QED
    BY <1>2, <1>3, <2>1
<1> QED
  BY <1>1, <1>2, <1>3, <1>4, <1>5 DEF Words

-----------------------------------------------------------------------------
(* What a step makes of each lane                                          *)

Accs == [1..AccNb -> Words]

\* lane ^ 1, for lanes numbered from 1
Other(l) == IF l % 2 = 1 THEN l + 1 ELSE l - 1

Keyed(data, key, l) == XorTable[data[l]][key[l]]
Product(data, key, l) == Low(Keyed(data, key, l)) * High(Keyed(data, key, l))
Accumulated(acc, data, key) ==
  [l \in 1..AccNb |-> (acc[l] + data[Other(l)] + Product(data, key, l)) % WordMod]

Mixed(acc, key, l) == XorTable[XorTable[acc[l]][acc[l] \div Pow2[ShiftBits]]][key[l]]
Scrambled(acc, key) == [l \in 1..AccNb |-> (Mixed(acc, key, l) * Prime32) % WordMod]

LEMMA ModIsWord == \A n \in Nat : n % WordMod \in Words
<1> SUFFICES ASSUME NEW n \in Nat PROVE n % WordMod \in Words
  OBVIOUS
<1>1. n \in Int
  OBVIOUS
<1>2. n % WordMod \in 0..(WordMod - 1)
  BY <1>1, WordIs, Division
<1> QED
  BY <1>2 DEF Words

\* Sums are taken modulo the word at once or one after the other.
LEMMA Sums ==
  \A a, b \in Nat : /\ ((a % WordMod) + b) % WordMod = (a + b) % WordMod
                    /\ (b + (a % WordMod)) % WordMod = (a + b) % WordMod
<1> SUFFICES ASSUME NEW a \in Nat, NEW b \in Nat
             PROVE  /\ ((a % WordMod) + b) % WordMod = (a + b) % WordMod
                    /\ (b + (a % WordMod)) % WordMod = (a + b) % WordMod
  OBVIOUS
<1>1. PICK w \in Nat \ {0} : w = WordMod
  BY WordIs
<1>2. a \in Int /\ b \in Int
  OBVIOUS
<1>3. ((a % w) + b) % w = (a + b) % w
  BY <1>2, ModAdd
<1>4. a % w \in Int
  BY <1>2, Division
<1>5. b + (a % w) = (a % w) + b
  BY <1>4
<1> QED
  BY <1>1, <1>3, <1>5

LEMMA LaneIs == \A a \in Accs, l \in 1..AccNb : a[l] \in Words /\ a[l] \in Nat
BY WordIs DEF Accs, Words

LEMMA LanesIs == \A f : Lanes(f) = [l \in 1..AccNb |-> f[l]]
BY DEF Lanes, AccNb

LEMMA KeyedIs ==
  ASSUME NEW data \in Accs, NEW key \in Accs, NEW l \in 1..AccNb
  PROVE  /\ Keyed(data, key, l) \in Words
         /\ Low(Keyed(data, key, l)) \in Halves /\ High(Keyed(data, key, l)) \in Halves
         /\ Product(data, key, l) \in Nat /\ Other(l) \in 1..AccNb /\ data[Other(l)] \in Nat
<1>1. data[l] \in Words /\ key[l] \in Words
  BY DEF Accs
<1>2. Keyed(data, key, l) \in Words
  BY <1>1, XorIsWord DEF Keyed
<1>3. Low(Keyed(data, key, l)) \in Halves /\ High(Keyed(data, key, l)) \in Halves
  BY <1>2, HalvesAre
<1>4. Product(data, key, l) \in Nat
  BY <1>3, WordIs DEF Product, Halves
<1>5. Other(l) \in 1..AccNb
  BY DEF Other, AccNb
<1>6. data[Other(l)] \in Nat
  BY <1>5, LaneIs
<1> QED
  BY <1>2, <1>3, <1>4, <1>5, <1>6

LEMMA MixedIs ==
  ASSUME NEW acc \in Accs, NEW key \in Accs, NEW l \in 1..AccNb
  PROVE  /\ Mixed(acc, key, l) \in Words
         /\ Low(Mixed(acc, key, l)) \in Halves /\ High(Mixed(acc, key, l)) \in Halves
<1>1. acc[l] \in Words /\ key[l] \in Words
  BY DEF Accs
<1>2. acc[l] \div Pow2[ShiftBits] \in Words
  BY <1>1, BitsAre, ShiftedIsWord
<1>3. Mixed(acc, key, l) \in Words
  BY <1>1, <1>2, XorIsWord DEF Mixed
<1> QED
  BY <1>3, HalvesAre

LEMMA AccumulatedIs ==
  ASSUME NEW acc \in Accs, NEW data \in Accs, NEW key \in Accs
  PROVE  Accumulated(acc, data, key) \in Accs
<1> SUFFICES ASSUME NEW l \in 1..AccNb
             PROVE  (acc[l] + data[Other(l)] + Product(data, key, l)) % WordMod \in Words
  BY DEF Accumulated, Accs
<1>1. acc[l] \in Nat /\ data[Other(l)] \in Nat /\ Product(data, key, l) \in Nat
  BY KeyedIs, LaneIs
<1> DEFINE n == acc[l] + data[Other(l)] + Product(data, key, l)
<1>2. n \in Int
  BY <1>1
<1>3. n % WordMod \in 0..(WordMod - 1)
  <2> HIDE DEF n
  <2> QED
    BY <1>2, WordIs, Division
<1> QED
  BY <1>3 DEF Words

-----------------------------------------------------------------------------
(* The portable rounds                                                     *)

\* Lane i has had its round, when those of the lanes after "first" up to the
\* n-th have been done.
Done(first, n, i) == first < i /\ i <= n
OfOther(data, first, n, l) == IF Done(first, n, Other(l)) THEN data[Other(l)] ELSE 0
OfOwn(data, key, first, n, l) == IF Done(first, n, l) THEN Product(data, key, l) ELSE 0
After(acc, data, key, first, n) ==
  [l \in 1..AccNb |->
     (acc[l] + OfOther(data, first, n, l) + OfOwn(data, key, first, n, l)) % WordMod]

LEMMA RoundIs ==
  ASSUME NEW t \in Accs, NEW data \in Accs, NEW key \in Accs, NEW n \in 1..AccNb
  PROVE  /\ ScalarRound(t, data, key, n - 1) \in Accs
         /\ ScalarRound(t, data, key, n - 1)[n] = (Product(data, key, n) + t[n]) % WordMod
         /\ ScalarRound(t, data, key, n - 1)[Other(n)] = (t[Other(n)] + data[n]) % WordMod
         /\ \A l \in 1..AccNb : l # n /\ l # Other(n) =>
               ScalarRound(t, data, key, n - 1)[l] = t[l]
<1> DEFINE o == Other(n)
           mixed == [t EXCEPT ![o] = (@ + data[n]) % WordMod]
           round == [mixed EXCEPT ![n] = (Product(data, key, n) + @) % WordMod]
<1>1. n - 1 + 1 = n /\ Neighbour(n - 1) + 1 = o /\ o \in 1..AccNb /\ o # n
  BY DEF Neighbour, Other, AccNb
<1>2. ScalarRound(t, data, key, n - 1) = round
  BY <1>1, Zenon DEF ScalarRound, Product, Keyed
<1>3. t[o] \in Nat /\ t[n] \in Nat /\ data[n] \in Nat /\ Product(data, key, n) \in Nat
  BY <1>1, KeyedIs, LaneIs
<1>4. (t[o] + data[n]) % WordMod \in Words /\ (Product(data, key, n) + t[n]) % WordMod \in Words
  <2>1. t[o] + data[n] \in Nat /\ Product(data, key, n) + t[n] \in Nat
    BY <1>3
  <2> QED
    BY <2>1, ModIsWord
<1>5. mixed \in Accs /\ mixed[n] = t[n] /\ mixed[o] = (t[o] + data[n]) % WordMod
      /\ \A l \in 1..AccNb : l # o => mixed[l] = t[l]
  <2> HIDE DEF o
  <2> QED
    BY <1>1, <1>4, Zenon DEF Accs
<1>6. round \in Accs /\ round[n] = (Product(data, key, n) + t[n]) % WordMod
      /\ \A l \in 1..AccNb : l # n => round[l] = mixed[l]
  <2> HIDE DEF mixed
  <2> QED
    BY <1>4, <1>5, Zenon DEF Accs
<1> HIDE DEF round, mixed
<1> QED
  BY <1>1, <1>2, <1>5, <1>6

\* The n-th round.
LEMMA AfterNext ==
  ASSUME NEW acc \in Accs, NEW data \in Accs, NEW key \in Accs, NEW first \in 0..AccNb,
         NEW m \in 0..AccNb, NEW n \in 1..AccNb, m = n - 1, first < n
  PROVE  ScalarRound(After(acc, data, key, first, m), data, key, n - 1)
           = After(acc, data, key, first, n)
<1> DEFINE t == After(acc, data, key, first, m)
           u == ScalarRound(t, data, key, n - 1)
           v == After(acc, data, key, first, n)
           X(k, l) == acc[l] + OfOther(data, first, k, l) + OfOwn(data, key, first, k, l)
<1>1. \A k \in 0..AccNb, l \in 1..AccNb :
         /\ acc[l] \in Nat /\ OfOther(data, first, k, l) \in Nat
         /\ OfOwn(data, key, first, k, l) \in Nat /\ X(k, l) \in Nat
  <2> SUFFICES ASSUME NEW k \in 0..AccNb, NEW l \in 1..AccNb
               PROVE  /\ acc[l] \in Nat /\ OfOther(data, first, k, l) \in Nat
                      /\ OfOwn(data, key, first, k, l) \in Nat /\ X(k, l) \in Nat
    OBVIOUS
  <2>1. acc[l] \in Nat
    BY LaneIs
  <2>2. OfOther(data, first, k, l) \in Nat
    BY KeyedIs DEF OfOther
  <2>3. OfOwn(data, key, first, k, l) \in Nat
    BY KeyedIs DEF OfOwn
  <2> QED
    BY <2>1, <2>2, <2>3
<1>2. \A k \in 0..AccNb, l \in 1..AccNb : After(acc, data, key, first, k)[l] = X(k, l) % WordMod
  BY DEF After
<1>3. t \in Accs
  BY <1>1, ModIsWord DEF After, Accs
<1>4. n \in 0..AccNb /\ m # n
  BY DEF AccNb
<1>5. DOMAIN u = 1..AccNb /\ DOMAIN v = 1..AccNb
  BY <1>3, RoundIs DEF Accs, After
<1>6. /\ Done(first, n, n) /\ ~Done(first, m, n)
      /\ \A i \in 1..AccNb : i # n => Done(first, n, i) = Done(first, m, i)
  BY DEF Done, AccNb
<1>7. \A l \in 1..AccNb : Other(l) \in 1..AccNb /\ Other(l) # l /\ Other(Other(l)) = l
  BY DEF Other, AccNb
<1>11. /\ u[n] = (Product(data, key, n) + t[n]) % WordMod
       /\ u[Other(n)] = (t[Other(n)] + data[n]) % WordMod
  <2> HIDE DEF t
  <2> QED
    BY <1>3, RoundIs
<1> HIDE DEF t, u, v
<1>8. ASSUME NEW l \in 1..AccNb PROVE u[l] = v[l]
  <2>1. CASE l = n
    <3>1. OfOther(data, first, n, l) = OfOther(data, first, m, l)
      BY <1>6, <1>7, <2>1 DEF OfOther
    <3>2. OfOwn(data, key, first, n, l) = Product(data, key, l) /\ OfOwn(data, key, first, m, l) = 0
      BY <1>6, <2>1 DEF OfOwn
    <3>3. X(n, l) = X(m, l) + Product(data, key, l) /\ Product(data, key, l) \in Nat
      BY <1>1, <1>4, <3>1, <3>2, KeyedIs
    <3>4. t[l] = X(m, l) % WordMod
      BY <1>2 DEF t
    <3>5. u[l] = (Product(data, key, l) + (X(m, l) % WordMod)) % WordMod
      BY <1>11, <2>1, <3>4, Zenon
    <3>6. v[l] = X(n, l) % WordMod
      BY <1>2, <1>4 DEF v
    <3>7. X(m, l) \in Nat
      BY <1>1
    <3>8. (Product(data, key, l) + (X(m, l) % WordMod)) % WordMod
            = (X(m, l) + Product(data, key, l)) % WordMod
      BY <3>3, <3>7, Sums, Zenon
    <3> QED
      BY <3>3, <3>5, <3>6, <3>8, Zenon
  <2>2. CASE l = Other(n)
    <3>1. Other(l) = n /\ l # n
      BY <1>7, <2>2
    <3>2. OfOther(data, first, n, l) = data[n] /\ OfOther(data, first, m, l) = 0
      BY <1>6, <3>1 DEF OfOther
    <3>3. OfOwn(data, key, first, n, l) = OfOwn(data, key, first, m, l)
      BY <1>6, <3>1 DEF OfOwn
    <3>4. X(n, l) = X(m, l) + data[n] /\ data[n] \in Nat
      <4>1. data[n] \in Nat
        BY LaneIs
      <4> QED
        BY <1>1, <1>4, <3>2, <3>3, <4>1
    <3>5. t[l] = X(m, l) % WordMod
      BY <1>2 DEF t
    <3>6. u[l] = ((X(m, l) % WordMod) + data[n]) % WordMod
      BY <1>11, <2>2, <3>5, Zenon
    <3>7. v[l] = X(n, l) % WordMod
      BY <1>2, <1>4 DEF v
    <3>8. X(m, l) \in Nat
      BY <1>1
    <3>9. ((X(m, l) % WordMod) + data[n]) % WordMod = (X(m, l) + data[n]) % WordMod
      BY <3>4, <3>8, Sums, Zenon
    <3> QED
      BY <3>4, <3>6, <3>7, <3>9, Zenon
  <2>3. CASE l # n /\ l # Other(n)
    <3>1. Other(l) # n
      BY <1>7, <2>3
    <3>2. OfOther(data, first, n, l) = OfOther(data, first, m, l)
      BY <1>6, <1>7, <3>1 DEF OfOther
    <3>3. OfOwn(data, key, first, n, l) = OfOwn(data, key, first, m, l)
      BY <1>6, <2>3 DEF OfOwn
    <3>4. u[l] = t[l]
      BY <1>3, <2>3, RoundIs DEF u
    <3> QED
      BY <1>2, <1>4, <3>2, <3>3, <3>4 DEF t, v
  <2> QED
    BY <2>1, <2>2, <2>3
<1>9. u = [l \in 1..AccNb |-> u[l]] /\ v = [l \in 1..AccNb |-> v[l]]
  <2>1. u \in Accs
    BY <1>3, RoundIs DEF u
  <2>2. v = After(acc, data, key, first, n)
    BY DEF v
  <2> QED
    BY <2>1, <2>2 DEF Accs, After
<1>10. u = v
  BY <1>8, <1>9
<1> QED
  BY <1>10 DEF u, v, t

LEMMA AfterIs ==
  ASSUME NEW acc \in Accs, NEW data \in Accs, NEW key \in Accs, NEW first \in 0..AccNb,
         NEW n \in 0..AccNb
  PROVE  After(acc, data, key, first, n) \in Accs
<1> SUFFICES ASSUME NEW l \in 1..AccNb
             PROVE  acc[l] + OfOther(data, first, n, l) + OfOwn(data, key, first, n, l) \in Nat
  BY ModIsWord DEF After, Accs
<1>1. acc[l] \in Nat /\ OfOther(data, first, n, l) \in Nat
  BY LaneIs, KeyedIs DEF OfOther
<1>2. OfOwn(data, key, first, n, l) \in Nat
  BY KeyedIs DEF OfOwn
<1> QED
  BY <1>1, <1>2

\* Before the first round
LEMMA AfterNone ==
  ASSUME NEW acc \in Accs, NEW data, NEW key, NEW first \in 0..AccNb, NEW n \in 0..first
  PROVE  After(acc, data, key, first, n) = acc
<1>1. ASSUME NEW l \in 1..AccNb PROVE After(acc, data, key, first, n)[l] = acc[l]
  <2>1. ~Done(first, n, l) /\ ~Done(first, n, Other(l))
    BY DEF Done, AccNb, Other
  <2>2. OfOther(data, first, n, l) = 0 /\ OfOwn(data, key, first, n, l) = 0
    BY <2>1 DEF OfOther, OfOwn
  <2>3. acc[l] \in Words /\ acc[l] \in Nat
    BY LaneIs
  <2>4. acc[l] + 0 + 0 = acc[l]
    BY <2>3
  <2>5. acc[l] % WordMod = acc[l]
    BY <2>3, WordIs, ModSmall DEF Words
  <2> QED
    BY <2>2, <2>4, <2>5 DEF After
<1>2. acc = [l \in 1..AccNb |-> acc[l]]
  BY DEF Accs
<1>3. After(acc, data, key, first, n) = [l \in 1..AccNb |-> After(acc, data, key, first, n)[l]]
  BY DEF After
<1> QED
  BY <1>1, <1>2, <1>3

LEMMA RoundsAre ==
  ASSUME NEW acc \in Accs, NEW data \in Accs, NEW key \in Accs, NEW first \in 0..AccNb
  PROVE  ScalarRounds(acc, data, key, first) = After(acc, data, key, first, AccNb)
<1> DEFINE Def(f) ==
             [lane \in 0..AccNb |->
                IF lane <= first THEN acc ELSE ScalarRound(f[lane - 1], data, key, lane - 1)]
           g == [n \in 0..AccNb |-> After(acc, data, key, first, n)]
           rounds == CHOOSE f : f = Def(f)
<1>1. ScalarRounds(acc, data, key, first) = rounds[AccNb]
  BY DEF ScalarRounds
<1>2. \A n \in 0..AccNb : n <= first => After(acc, data, key, first, n) = acc
  <2>1. \A n \in 0..AccNb : n <= first => n \in 0..first
    BY DEF AccNb
  <2> QED
    BY <2>1, AfterNone
<1>3. \A n \in 0..AccNb : ~(n <= first) =>
        /\ n - 1 \in 0..AccNb
        /\ ScalarRound(After(acc, data, key, first, n - 1), data, key, n - 1)
             = After(acc, data, key, first, n)
  <2> SUFFICES ASSUME NEW n \in 0..AccNb, ~(n <= first)
               PROVE  /\ n - 1 \in 0..AccNb
                      /\ ScalarRound(After(acc, data, key, first, n - 1), data, key, n - 1)
                           = After(acc, data, key, first, n)
    OBVIOUS
  <2>1. first < n /\ n \in 1..AccNb
    BY DEF AccNb
  <2>2. PICK m \in 0..AccNb : m = n - 1
    BY <2>1 DEF AccNb
  <2>3. ScalarRound(After(acc, data, key, first, m), data, key, n - 1)
          = After(acc, data, key, first, n)
    BY <2>1, <2>2, AfterNext
  <2> QED
    BY <2>2, <2>3
<1>4. g = Def(g)
  BY <1>2, <1>3
<1>5. rounds = Def(rounds)
  <2> HIDE DEF Def, g
  <2> QED
    BY <1>4
<1>6. \A n \in 0..AccNb :
         Def(rounds)[n] = IF n <= first THEN acc
                          ELSE ScalarRound(rounds[n - 1], data, key, n - 1)
  <2> HIDE DEF rounds
  <2> QED
    OBVIOUS
<1> HIDE DEF rounds, Def
<1>7. \A n \in 0..AccNb :
         rounds[n] = IF n <= first THEN acc ELSE ScalarRound(rounds[n - 1], data, key, n - 1)
  BY <1>5, <1>6, Zenon
<1> DEFINE S == {n \in 0..AccNb : rounds[n] = After(acc, data, key, first, n)}
<1>8. 0 \in S
  BY <1>2, <1>7 DEF AccNb
<1>9. ASSUME NEW n \in 1..AccNb, n - 1 \in S PROVE n \in S
  <2>1. n \in 0..AccNb
    OBVIOUS
  <2>2. CASE n <= first
    BY <1>2, <1>7, <2>1, <2>2
  <2>3. CASE ~(n <= first)
    <3>1. rounds[n] = ScalarRound(rounds[n - 1], data, key, n - 1)
      BY <1>7, <2>1, <2>3
    <3>2. rounds[n - 1] = After(acc, data, key, first, n - 1)
      BY <1>9
    <3>3. ScalarRound(After(acc, data, key, first, n - 1), data, key, n - 1)
            = After(acc, data, key, first, n)
      BY <1>3, <2>1, <2>3
    <3>4. rounds[n] = After(acc, data, key, first, n)
      BY <3>1, <3>2, <3>3, Zenon
    <3> QED
      BY <2>1, <3>4
  <2> QED
    BY <2>2, <2>3
<1>10. AccNb \in S
  <2>1. 0..AccNb \subseteq S
    <3> HIDE DEF S
    <3> QED
      BY <1>8, <1>9, UpTo DEF AccNb
  <2> HIDE DEF S
  <2> QED
    BY <2>1 DEF AccNb
<1> QED
  BY <1>1, <1>10

\* All eight rounds; and those of the lanes after the first ones.
LEMMA RoundsOfAll ==
  ASSUME NEW acc \in Accs, NEW data \in Accs, NEW key \in Accs
  PROVE  Accumulate512Scalar(acc, data, key) = Accumulated(acc, data, key)
<1>1. Accumulate512Scalar(acc, data, key) = After(acc, data, key, 0, AccNb)
  BY RoundsAre DEF Accumulate512Scalar, AccNb
<1>2. \A l \in 1..AccNb : Done(0, AccNb, l) /\ Done(0, AccNb, Other(l))
  BY DEF Done, AccNb, Other
<1>3. \A l \in 1..AccNb : /\ OfOther(data, 0, AccNb, l) = data[Other(l)]
                           /\ OfOwn(data, key, 0, AccNb, l) = Product(data, key, l)
  BY <1>2 DEF OfOther, OfOwn
<1>4. After(acc, data, key, 0, AccNb) = Accumulated(acc, data, key)
  BY <1>3 DEF After, Accumulated
<1> QED
  BY <1>1, <1>4

LEMMA RoundsOfRest ==
  ASSUME NEW acc \in Accs, NEW data \in Accs, NEW key \in Accs, NEW l \in 1..AccNb
  PROVE  ScalarRounds(acc, data, key, NeonLanes)[l]
           = IF l <= NeonLanes THEN acc[l] ELSE Accumulated(acc, data, key)[l]
<1>1. NeonLanes \in {2, 4, 6, 8} /\ NeonLanes \in 0..AccNb
  BY KernelAssumption DEF AccNb
<1>2. ScalarRounds(acc, data, key, NeonLanes) = After(acc, data, key, NeonLanes, AccNb)
  BY <1>1, RoundsAre
<1>3. CASE l <= NeonLanes
  <2>1. ~Done(NeonLanes, AccNb, l) /\ ~Done(NeonLanes, AccNb, Other(l))
    BY <1>1, <1>3 DEF Done, AccNb, Other
  <2>2. OfOther(data, NeonLanes, AccNb, l) = 0 /\ OfOwn(data, key, NeonLanes, AccNb, l) = 0
    BY <2>1 DEF OfOther, OfOwn
  <2>3. acc[l] \in Words /\ acc[l] \in Nat
    BY LaneIs
  <2>4. acc[l] + 0 + 0 = acc[l]
    BY <2>3
  <2>5. acc[l] % WordMod = acc[l]
    BY <2>3, WordIs, ModSmall DEF Words
  <2>6. After(acc, data, key, NeonLanes, AccNb)[l] = acc[l]
    BY <2>2, <2>4, <2>5 DEF After
  <2> QED
    BY <1>2, <1>3, <2>6
<1>4. CASE ~(l <= NeonLanes)
  <2>1. Done(NeonLanes, AccNb, l) /\ Done(NeonLanes, AccNb, Other(l))
    BY <1>1, <1>4 DEF Done, AccNb, Other
  <2>2. /\ OfOther(data, NeonLanes, AccNb, l) = data[Other(l)]
        /\ OfOwn(data, key, NeonLanes, AccNb, l) = Product(data, key, l)
    BY <2>1 DEF OfOther, OfOwn
  <2>3. After(acc, data, key, NeonLanes, AccNb)[l] = Accumulated(acc, data, key)[l]
    BY <2>2 DEF After, Accumulated
  <2> QED
    BY <1>2, <1>4, <2>3
<1> QED
  BY <1>3, <1>4

-----------------------------------------------------------------------------
(* The portable scramble                                                   *)

Scrambling(acc, key, first, n) ==
  [l \in 1..AccNb |-> IF Done(first, n, l) THEN Scrambled(acc, key)[l] ELSE acc[l]]

LEMMA ScrambledIs ==
  ASSUME NEW acc \in Accs, NEW key \in Accs
  PROVE  Scrambled(acc, key) \in Accs
<1> SUFFICES ASSUME NEW l \in 1..AccNb PROVE Mixed(acc, key, l) * Prime32 \in Nat
  BY ModIsWord DEF Scrambled, Accs
<1>1. Mixed(acc, key, l) \in Nat /\ Prime32 \in Nat
  BY MixedIs, KernelAssumption, WordIs DEF Words
<1> QED
  BY <1>1

LEMMA ScramblingNext ==
  ASSUME NEW acc \in Accs, NEW key \in Accs, NEW first \in 0..AccNb,
         NEW m \in 0..AccNb, NEW n \in 1..AccNb, m = n - 1, first < n
  PROVE  ScalarScrambleRound(Scrambling(acc, key, first, m), key, n - 1)
           = Scrambling(acc, key, first, n)
<1> DEFINE t == Scrambling(acc, key, first, m)
           value == Scrambled(acc, key)[n]
<1>1. n - 1 + 1 = n
  OBVIOUS
<1>2. /\ Done(first, n, n) /\ ~Done(first, m, n)
      /\ \A i \in 1..AccNb : i # n => Done(first, n, i) = Done(first, m, i)
  BY DEF Done, AccNb
<1>3. t[n] = acc[n]
  BY <1>2 DEF Scrambling
<1>4. value = (XorTable[XorTable[t[n]][t[n] \div Pow2[ShiftBits]]][key[n]] * Prime32) % WordMod
  BY <1>3, Zenon DEF Scrambled, Mixed
<1> HIDE DEF value
<1>5. ScalarScrambleRound(t, key, n - 1) = [t EXCEPT ![n] = value]
  <2> HIDE DEF t
  <2> QED
    BY <1>1, <1>4, Zenon DEF ScalarScrambleRound
<1>6. [t EXCEPT ![n] = value] = Scrambling(acc, key, first, n)
  BY <1>2 DEF Scrambling, value
<1> QED
  BY <1>5, <1>6

LEMMA ScrambleRoundsAre ==
  ASSUME NEW acc \in Accs, NEW key \in Accs, NEW first \in 0..AccNb
  PROVE  ScalarScrambleRounds(acc, key, first) = Scrambling(acc, key, first, AccNb)
<1> DEFINE Def(f) ==
             [lane \in 0..AccNb |->
                IF lane <= first THEN acc ELSE ScalarScrambleRound(f[lane - 1], key, lane - 1)]
           g == [n \in 0..AccNb |-> Scrambling(acc, key, first, n)]
           rounds == CHOOSE f : f = Def(f)
<1>1. ScalarScrambleRounds(acc, key, first) = rounds[AccNb]
  BY DEF ScalarScrambleRounds
<1>2. \A n \in 0..AccNb : n <= first => Scrambling(acc, key, first, n) = acc
  <2>1. \A n \in 0..AccNb, l \in 1..AccNb : n <= first => ~Done(first, n, l)
    BY DEF AccNb, Done
  <2>2. acc = [l \in 1..AccNb |-> acc[l]]
    BY DEF Accs
  <2> QED
    BY <2>1, <2>2 DEF Scrambling
<1>3. \A n \in 0..AccNb : ~(n <= first) =>
        /\ n - 1 \in 0..AccNb
        /\ ScalarScrambleRound(Scrambling(acc, key, first, n - 1), key, n - 1)
             = Scrambling(acc, key, first, n)
  <2> SUFFICES ASSUME NEW n \in 0..AccNb, ~(n <= first)
               PROVE  /\ n - 1 \in 0..AccNb
                      /\ ScalarScrambleRound(Scrambling(acc, key, first, n - 1), key, n - 1)
                           = Scrambling(acc, key, first, n)
    OBVIOUS
  <2>1. first < n /\ n \in 1..AccNb
    BY DEF AccNb
  <2>2. PICK m \in 0..AccNb : m = n - 1
    BY <2>1 DEF AccNb
  <2>3. ScalarScrambleRound(Scrambling(acc, key, first, m), key, n - 1)
          = Scrambling(acc, key, first, n)
    BY <2>1, <2>2, ScramblingNext
  <2> QED
    BY <2>2, <2>3
<1>4. g = Def(g)
  BY <1>2, <1>3
<1>5. rounds = Def(rounds)
  <2> HIDE DEF Def, g
  <2> QED
    BY <1>4
<1>6. \A n \in 0..AccNb :
         Def(rounds)[n] = IF n <= first THEN acc
                          ELSE ScalarScrambleRound(rounds[n - 1], key, n - 1)
  <2> HIDE DEF rounds
  <2> QED
    OBVIOUS
<1> HIDE DEF rounds, Def
<1>7. \A n \in 0..AccNb :
         rounds[n] = IF n <= first THEN acc ELSE ScalarScrambleRound(rounds[n - 1], key, n - 1)
  BY <1>5, <1>6, Zenon
<1> DEFINE S == {n \in 0..AccNb : rounds[n] = Scrambling(acc, key, first, n)}
<1>8. 0 \in S
  BY <1>2, <1>7 DEF AccNb
<1>9. ASSUME NEW n \in 1..AccNb, n - 1 \in S PROVE n \in S
  <2>1. n \in 0..AccNb
    OBVIOUS
  <2>2. CASE n <= first
    BY <1>2, <1>7, <2>1, <2>2
  <2>3. CASE ~(n <= first)
    <3>1. rounds[n] = ScalarScrambleRound(rounds[n - 1], key, n - 1)
      BY <1>7, <2>1, <2>3
    <3>2. rounds[n - 1] = Scrambling(acc, key, first, n - 1)
      BY <1>9
    <3>3. ScalarScrambleRound(Scrambling(acc, key, first, n - 1), key, n - 1)
            = Scrambling(acc, key, first, n)
      BY <1>3, <2>1, <2>3
    <3>4. rounds[n] = Scrambling(acc, key, first, n)
      BY <3>1, <3>2, <3>3, Zenon
    <3> QED
      BY <2>1, <3>4
  <2> QED
    BY <2>2, <2>3
<1>10. AccNb \in S
  <2>1. 0..AccNb \subseteq S
    <3> HIDE DEF S
    <3> QED
      BY <1>8, <1>9, UpTo DEF AccNb
  <2> HIDE DEF S
  <2> QED
    BY <2>1 DEF AccNb
<1> QED
  BY <1>1, <1>10

LEMMA ScrambleOfAll ==
  ASSUME NEW acc \in Accs, NEW key \in Accs
  PROVE  ScrambleScalar(acc, key) = Scrambled(acc, key)
<1>1. ScrambleScalar(acc, key) = Scrambling(acc, key, 0, AccNb)
  BY ScrambleRoundsAre DEF ScrambleScalar, AccNb
<1>2. \A l \in 1..AccNb : Done(0, AccNb, l)
  BY DEF Done, AccNb
<1>3. Scrambling(acc, key, 0, AccNb) = [l \in 1..AccNb |-> Scrambled(acc, key)[l]]
  BY <1>2 DEF Scrambling
<1>4. Scrambled(acc, key) = [l \in 1..AccNb |-> Scrambled(acc, key)[l]]
  BY DEF Scrambled
<1> QED
  BY <1>1, <1>3, <1>4

LEMMA ScrambleOfRest ==
  ASSUME NEW acc \in Accs, NEW key \in Accs, NEW l \in 1..AccNb
  PROVE  ScalarScrambleRounds(acc, key, NeonLanes)[l]
           = IF l <= NeonLanes THEN acc[l] ELSE Scrambled(acc, key)[l]
<1>1. NeonLanes \in {2, 4, 6, 8} /\ NeonLanes \in 0..AccNb
  BY KernelAssumption DEF AccNb
<1>2. ScalarScrambleRounds(acc, key, NeonLanes) = Scrambling(acc, key, NeonLanes, AccNb)
  BY <1>1, ScrambleRoundsAre
<1>3. Done(NeonLanes, AccNb, l) <=> ~(l <= NeonLanes)
  BY <1>1 DEF Done, AccNb
<1> QED
  BY <1>2, <1>3 DEF Scrambling

-----------------------------------------------------------------------------
(* Vector instructions                                                     *)

Sizes86 == {2, 4, 8}
Vectors(n) == [1..n -> Words]

\* Lane l is in register Register(l, n), in its place Place(l, n).
Register(l, n) == (l - 1) \div n
Place(l, n) == ((l - 1) % n) + 1

LEMMA PlaceIs ==
  ASSUME NEW n \in Sizes86, NEW l \in 1..AccNb
  PROVE  /\ Register(l, n) \in 0..(AccNb \div n - 1) /\ Place(l, n) \in 1..n
         /\ Register(l, n) * n + Place(l, n) = l
         /\ Other(Place(l, n)) \in 1..n
         /\ Register(l, n) * n + Other(Place(l, n)) = Other(l)
<1>1. CASE n = 2
  BY <1>1 DEF AccNb, Register, Place, Other
<1>2. CASE n = 4
  BY <1>2 DEF AccNb, Register, Place, Other
<1>3. CASE n = 8
  BY <1>3 DEF AccNb, Register, Place, Other
<1> QED
  BY <1>1, <1>2, <1>3 DEF Sizes86

LEMMA LoadIs ==
  ASSUME NEW memory \in Accs, NEW n \in Sizes86, NEW i \in 0..(AccNb \div n - 1)
  PROVE  /\ Load(memory, i, n) = [p \in 1..n |-> memory[i * n + p]]
         /\ Load(memory, i, n) \in Vectors(n)
<1>1. n \in 1..8 /\ i \in Nat /\ i * n \in Nat /\ (i + 1) * n = i * n + n /\ i * n + n <= 8
  <2>1. CASE n = 2
    BY <2>1 DEF AccNb
  <2>2. CASE n = 4
    BY <2>2 DEF AccNb
  <2>3. CASE n = 8
    BY <2>3 DEF AccNb
  <2> QED
    BY <2>1, <2>2, <2>3 DEF Sizes86
<1>2. PICK b \in 0..8 : b = i * n
  BY <1>1
<1>3. PICK f \in Int, t \in Int : f = b + 1 /\ t = b + n
  BY <1>1, <1>2
<1>4. SubSeq(memory, b + 1, b + n) = [p \in 1..n |-> memory[b + p]]
  <2>1. \A j \in f..t : memory[j] \in Words
    BY <1>1, <1>2, <1>3 DEF Accs, AccNb
  <2>2. /\ SubSeq(memory, f, t) \in Seq(Words)
        /\ Len(SubSeq(memory, f, t)) = IF f <= t THEN t - f + 1 ELSE 0
        /\ \A p \in 1..(t - f + 1) : SubSeq(memory, f, t)[p] = memory[f + p - 1]
    BY <2>1, SubSeqProperties
  <2>3. t - f + 1 = n /\ f <= t /\ \A p \in 1..n : f + p - 1 = b + p
    BY <1>1, <1>2, <1>3
  <2>4. Len(SubSeq(memory, f, t)) = n /\ \A p \in 1..n : SubSeq(memory, f, t)[p] = memory[b + p]
    BY <2>2, <2>3
  <2>5. SubSeq(memory, f, t) = [p \in 1..n |-> SubSeq(memory, f, t)[p]]
    BY <2>2, <2>4, LenProperties
  <2> QED
    BY <1>3, <2>4, <2>5
<1>5. \A p \in 1..n : memory[b + p] \in Words
  BY <1>1, <1>2 DEF Accs, AccNb
<1> QED
  BY <1>1, <1>2, <1>4, <1>5 DEF Load, Vectors

LEMMA SwapIs ==
  ASSUME NEW n \in Sizes86, NEW a \in Vectors(n), NEW p \in 1..n
  PROVE  SwapV(a)[p] = a[Other(p)]
<1>1. Other(p) \in 1..n /\ p \in Int /\ DOMAIN a = 1..n
  BY DEF Other, Sizes86, Vectors
<1>2. PICK x \in Words : x = a[Other(p)]
  BY <1>1 DEF Vectors
<1>3. CASE p % 2 = 1
  <2>1. (p - 1) % 2 = 0 /\ Other(p) = p + 1 /\ p - 0 + 1 = p + 1
    BY <1>1, <1>3 DEF Other
  <2>2. SwapV(a)[p] = Low(a[p + 1]) + Half * High(a[p + 1])
    BY <1>1, <2>1 DEF SwapV, ShuffleV
  <2> QED
    BY <1>2, <2>1, <2>2, HalvesAre, WordIs DEF Halves
<1>4. CASE p % 2 = 0
  <2>1. (p - 1) % 2 = 1 /\ Other(p) = p - 1 /\ p - 1 + 0 = p - 1
    BY <1>1, <1>4 DEF Other
  <2>2. SwapV(a)[p] = Low(a[p - 1]) + Half * High(a[p - 1])
    BY <1>1, <2>1 DEF SwapV, ShuffleV
  <2> QED
    BY <1>2, <2>1, <2>2, HalvesAre, WordIs DEF Halves
<1> QED
  BY <1>1, <1>3, <1>4

\* What is multiplied by the low half is the high half, shuffled or shifted.
LEMMA HighIs ==
  ASSUME NEW n \in Sizes86, NEW a \in Vectors(n), NEW p \in 1..n
  PROVE  Low(HighOf(a, n)[p]) = High(a[p]) /\ DOMAIN HighOf(a, n) = 1..n
<1>1. p \in Int /\ DOMAIN a = 1..n /\ a[p] \in Words
  BY DEF Sizes86, Vectors
<1>2. High(a[p]) \in Halves /\ Low(a[p]) \in Halves
  BY <1>1, HalvesAre
<1>3. CASE n = 2
  <2>1. DOMAIN HighByShuffle(a) = 1..n
    BY <1>1 DEF HighByShuffle, ShuffleV
  <2>2. CASE p = 1
    <3>1. HighByShuffle(a)[p] = High(a[p]) + Half * Low(a[p])
      BY <1>1, <2>2 DEF HighByShuffle, ShuffleV
    <3> QED
      BY <1>2, <1>3, <2>1, <3>1, FromHalves DEF HighOf
  <2>3. CASE p = 2
    <3>1. HighByShuffle(a)[2] = High(a[2]) + Half * Low(a[1])
      <4>1. 2 \in DOMAIN a /\ (2 - 1) % 2 = 1
        BY <1>1, <2>3
      <4>2. 2 - 1 + 1 = 2 /\ 2 - 1 + 0 = 1 /\ 3 \div 2 = 1 /\ 0 \div 2 = 0 /\ 3 % 2 # 0
        OBVIOUS
      <4> QED
        BY <4>1, <4>2 DEF HighByShuffle, ShuffleV
    <3>2. Low(a[1]) \in Halves
      BY <1>3, <2>3, HalvesAre DEF Vectors
    <3> QED
      BY <1>2, <1>3, <2>1, <2>3, <3>1, <3>2, FromHalves DEF HighOf
  <2> QED
    BY <1>3, <2>2, <2>3
<1>4. CASE n # 2
  <2>1. HighOf(a, n) = [l \in 1..n |-> a[l] \div Half]
    BY <1>1, <1>4 DEF HighOf, HighByShift, ShiftRightV, Half
  <2>2. HighOf(a, n)[p] = High(a[p])
    BY <2>1 DEF High
  <2> QED
    BY <1>2, <2>1, <2>2, HalfIsHalf
<1> QED
  BY <1>3, <1>4

\* Registers stored: lane l is in its place of its register.
LEMMA StoreIs ==
  ASSUME NEW n, NEW registers
  PROVE  Store(registers, n) = [l \in 1..AccNb |-> registers[Register(l, n)][Place(l, n)]]
<1> DEFINE f == [l \in 1..AccNb |-> registers[(l - 1) \div n][((l - 1) % n) + 1]]
<1>1. Store(registers, n) = [l \in 1..AccNb |-> f[l]]
  <2>1. Store(registers, n) = Lanes(f)
    BY DEF Store
  <2> HIDE DEF f
  <2> QED
    BY <2>1, LanesIs
<1> QED
  BY <1>1 DEF Register, Place

-----------------------------------------------------------------------------
(* x86                                                                     *)

LEMMA X86Accumulates ==
  ASSUME NEW acc \in Accs, NEW data \in Accs, NEW key \in Accs, NEW n \in Sizes86
  PROVE  AccumulateX86(acc, data, key, n) = Accumulated(acc, data, key)
<1> DEFINE dataVec(i) == Load(data, i, n)
           dataKey(i) == XorV(dataVec(i), Load(key, i, n))
           product(i) == MulLowV(dataKey(i), HighOf(dataKey(i), n))
           sum(i) == AddV(Load(acc, i, n), SwapV(dataVec(i)))
           registers == [i \in 0..(AccNb \div n - 1) |-> AddV(product(i), sum(i))]
<1>1. AccumulateX86(acc, data, key, n) = Store(registers, n)
  BY DEF AccumulateX86
<1>2. ASSUME NEW l \in 1..AccNb
      PROVE  registers[Register(l, n)][Place(l, n)] = Accumulated(acc, data, key)[l]
  <2>1. PICK i \in 0..(AccNb \div n - 1), p \in 1..n :
          /\ i = Register(l, n) /\ p = Place(l, n) /\ i * n + p = l
          /\ Other(p) \in 1..n /\ i * n + Other(p) = Other(l)
    BY PlaceIs
  <2>2. /\ dataVec(i) = [q \in 1..n |-> data[i * n + q]] /\ dataVec(i) \in Vectors(n)
    BY LoadIs
  <2>3. /\ Load(key, i, n) = [q \in 1..n |-> key[i * n + q]] /\ Load(key, i, n) \in Vectors(n)
        /\ Load(acc, i, n) = [q \in 1..n |-> acc[i * n + q]]
    BY LoadIs
  <2>4. dataKey(i) \in Vectors(n) /\ dataKey(i)[p] = Keyed(data, key, l)
    <3>1. DOMAIN dataVec(i) = 1..n
      BY <2>2
    <3>2. dataKey(i) = [q \in 1..n |-> XorTable[dataVec(i)[q]][Load(key, i, n)[q]]]
      <4> HIDE DEF dataVec
      <4> QED
        BY <3>1 DEF XorV
    <3>3. dataKey(i) \in Vectors(n)
      <4> HIDE DEF dataKey, dataVec
      <4> QED
        BY <2>2, <2>3, <3>2, XorIsWord DEF Vectors
    <3>4. dataKey(i)[p] = XorTable[dataVec(i)[p]][Load(key, i, n)[p]]
      BY <3>2
    <3>5. dataVec(i)[p] = data[l] /\ Load(key, i, n)[p] = key[l]
      BY <2>1, <2>2, <2>3
    <3> QED
      BY <3>3, <3>4, <3>5 DEF Keyed
  <2>5. DOMAIN product(i) = 1..n /\ product(i)[p] = Product(data, key, l)
    <3>1. product(i) = [q \in 1..n |-> Low(dataKey(i)[q]) * Low(HighOf(dataKey(i), n)[q])]
      <4> HIDE DEF dataKey
      <4> QED
        BY <2>4 DEF MulLowV, Vectors
    <3>2. Low(HighOf(dataKey(i), n)[p]) = High(dataKey(i)[p])
      <4> HIDE DEF dataKey
      <4> QED
        BY <2>4, HighIs
    <3> HIDE DEF dataKey, product
    <3> QED
      BY <2>4, <3>1, <3>2 DEF Product
  <2>6. sum(i)[p] = (acc[l] + data[Other(l)]) % WordMod
    <3>1. SwapV(dataVec(i))[p] = data[Other(l)]
      <4>1. SwapV(dataVec(i))[p] = dataVec(i)[Other(p)]
        <5> HIDE DEF dataVec
        <5> QED
          BY <2>2, SwapIs
      <4> QED
        BY <2>1, <2>2, <4>1
    <3>2. Load(acc, i, n)[p] = acc[l] /\ DOMAIN Load(acc, i, n) = 1..n
      BY <2>1, <2>3
    <3>3. sum(i)[p] = (Load(acc, i, n)[p] + SwapV(dataVec(i))[p]) % WordMod
      <4> HIDE DEF dataVec
      <4> QED
        BY <3>2 DEF AddV
    <3> QED
      BY <3>1, <3>2, <3>3
  <2>7. registers[i][p] = (product(i)[p] + sum(i)[p]) % WordMod
    <3>1. registers[i] = AddV(product(i), sum(i))
      <4> HIDE DEF product, sum
      <4> QED
        OBVIOUS
    <3> HIDE DEF product, sum, registers
    <3> QED
      BY <2>5, <3>1 DEF AddV
  <2> DEFINE x == acc[l] + data[Other(l)]
             y == Product(data, key, l)
  <2>8. x \in Nat /\ y \in Nat
    BY KeyedIs, LaneIs
  <2>9. (y + (x % WordMod)) % WordMod = (x + y) % WordMod
    <3> HIDE DEF x, y
    <3> QED
      BY <2>8, Sums
  <2>10. registers[i][p] = (x + y) % WordMod
    <3> HIDE DEF product, sum, registers
    <3> QED
      BY <2>5, <2>6, <2>7, <2>9
  <2>11. Accumulated(acc, data, key)[l] = (x + y) % WordMod
    BY DEF Accumulated
  <2> HIDE DEF registers
  <2> QED
    BY <2>1, <2>10, <2>11
<1>3. Store(registers, n) = [l \in 1..AccNb |-> registers[Register(l, n)][Place(l, n)]]
  <2> HIDE DEF registers
  <2> QED
    BY StoreIs
<1>4. Accumulated(acc, data, key) = [l \in 1..AccNb |-> Accumulated(acc, data, key)[l]]
  BY DEF Accumulated
<1> HIDE DEF registers
<1> QED
  BY <1>1, <1>2, <1>3, <1>4

LEMMA Distributive ==
  \A a, b, c \in Int : /\ (a + b) * c = a * c + b * c
                        /\ (a * b) * c = (b * c) * a /\ (a * b) * c = (a * c) * b /\ a * b = b * a
OBVIOUS

\* A word times a half, from the products of its halves.
LEMMA HalvesMultiply ==
  ASSUME NEW x \in Words, NEW prime \in Halves
  PROVE  /\ (Low(x) * prime + (((High(x) * prime) * Half) % WordMod)) % WordMod = (x * prime) % WordMod
         /\ (Half * ((High(x) * prime) % Half) + Low(x) * prime) % WordMod = (x * prime) % WordMod
<1>1. PICK lo \in Halves, hi \in Halves : lo = Low(x) /\ hi = High(x) /\ x = Half * hi + lo
  BY HalvesAre
<1>2. PICK h \in Nat \ {0} : h = Half
  BY WordIs
<1>3. lo \in Nat /\ hi \in Nat /\ prime \in Nat
  BY <1>2 DEF Halves
<1>4. PICK a \in Nat, b \in Nat : a = lo * prime /\ b = hi * prime
  BY <1>3
<1>5. x * prime = b * h + a /\ b * h \in Nat
  <2>1. x * prime = (h * hi + lo) * prime
    BY <1>1, <1>2
  <2>2. (h * hi + lo) * prime = (h * hi) * prime + lo * prime /\ (h * hi) * prime = (hi * prime) * h
    BY <1>2, <1>3, Distributive
  <2>3. b * h \in Nat
    BY <1>2, <1>4
  <2> QED
    BY <1>4, <2>1, <2>2, <2>3
<1>6. (a + ((b * h) % WordMod)) % WordMod = (b * h + a) % WordMod
  BY <1>4, <1>5, Sums, Zenon
<1>7. PICK q \in Int, r \in 0..(h - 1) : r = b % h /\ b = h * q + r
  <2>1. b \in Int
    OBVIOUS
  <2> QED
    BY <2>1, Division
<1>8. b * h + a = (h * r + a) + (h * h) * q /\ h * r + a \in Int
  <2>1. r \in Int /\ h * q \in Int /\ h * r \in Int /\ (h * h) * q \in Int
    BY <1>7
  <2>2. (h * q + r) * h = (h * q) * h + r * h /\ (h * q) * h = (h * h) * q /\ r * h = h * r
    BY <2>1, Distributive
  <2>3. b * h = (h * h) * q + h * r
    BY <1>7, <2>2
  <2> QED
    BY <2>1, <2>3
<1>9. WordMod = h * h /\ WordMod \in Nat \ {0}
  BY <1>2, WordIs
<1>10. (b * h + a) % WordMod = (h * r + a) % WordMod
  <2>1. PICK y \in Int : y = h * r + a
    BY <1>8
  <2>2. b * h + a = y + WordMod * q
    BY <1>8, <1>9, <2>1
  <2>3. (y + WordMod * q) % WordMod = y % WordMod
    BY <1>9, ModShift
  <2> QED
    BY <2>1, <2>2, <2>3, Zenon
<1> QED
  <2>1. (Low(x) * prime + (((High(x) * prime) * Half) % WordMod)) % WordMod = (x * prime) % WordMod
    BY <1>1, <1>2, <1>4, <1>5, <1>6, Zenon
  <2>2. (Half * ((High(x) * prime) % Half) + Low(x) * prime) % WordMod = (h * r + a) % WordMod
    BY <1>1, <1>2, <1>4, <1>7, Zenon
  <2>3. (x * prime) % WordMod = (h * r + a) % WordMod
    BY <1>5, <1>10, Zenon
  <2> QED
    BY <2>1, <2>2, <2>3

LEMMA PrimeIs == Prime32 \in Halves /\ Low(Prime32 + Half * Prime32) = Prime32
<1>1. Prime32 \in Halves
  BY KernelAssumption, WordIs DEF Halves
<1> QED
  BY <1>1, FromHalves

LEMMA ShiftLeftIs ==
  ASSUME NEW n, NEW a, DOMAIN a = 1..n, NEW p \in 1..n
  PROVE  ShiftLeftV(a, HalfBits)[p] = (a[p] * Half) % WordMod
BY DEF ShiftLeftV, Half

\* The words that are multiplied by the prime, register by register.
LEMMA MixedVector ==
  ASSUME NEW acc \in Accs, NEW key \in Accs, NEW n \in Sizes86,
         NEW i \in 0..(AccNb \div n - 1), NEW p \in 1..n, NEW l \in 1..AccNb, i * n + p = l
  PROVE  LET accVec == Load(acc, i, n)
             dataKey == XorV(XorV(accVec, ShiftRightV(accVec, ShiftBits)), Load(key, i, n))
         IN  dataKey \in Vectors(n) /\ dataKey[p] = Mixed(acc, key, l)
<1> DEFINE accVec == Load(acc, i, n)
           keyVec == Load(key, i, n)
           shifted == ShiftRightV(accVec, ShiftBits)
           dataKey == XorV(XorV(accVec, shifted), keyVec)
<1>1. /\ accVec \in Vectors(n) /\ accVec[p] = acc[l]
      /\ keyVec \in Vectors(n) /\ keyVec[p] = key[l]
  <2>1. /\ accVec = [q \in 1..n |-> acc[i * n + q]] /\ accVec \in Vectors(n)
        /\ keyVec = [q \in 1..n |-> key[i * n + q]] /\ keyVec \in Vectors(n)
    BY LoadIs
  <2> HIDE DEF accVec, keyVec
  <2> QED
    BY <2>1
<1> HIDE DEF accVec, keyVec
<1>2. shifted \in Vectors(n) /\ shifted[p] = acc[l] \div Pow2[ShiftBits]
  <2>1. shifted = [q \in 1..n |-> accVec[q] \div Pow2[ShiftBits]]
    BY <1>1 DEF ShiftRightV, Vectors
  <2>2. \A q \in 1..n : accVec[q] \div Pow2[ShiftBits] \in Words
    BY <1>1, BitsAre, ShiftedIsWord DEF Vectors
  <2> QED
    BY <1>1, <2>1, <2>2 DEF Vectors
<1> HIDE DEF shifted
<1> DEFINE once == XorV(accVec, shifted)
<1>3. once \in Vectors(n) /\ once[p] = XorTable[acc[l]][acc[l] \div Pow2[ShiftBits]]
  <2>1. once = [q \in 1..n |-> XorTable[accVec[q]][shifted[q]]]
    BY <1>1 DEF XorV, Vectors
  <2>2. \A q \in 1..n : XorTable[accVec[q]][shifted[q]] \in Words
    BY <1>1, <1>2, XorIsWord DEF Vectors
  <2> QED
    BY <1>1, <1>2, <2>1, <2>2 DEF Vectors
<1>4. dataKey = XorV(once, keyVec)
  OBVIOUS
<1> HIDE DEF once, dataKey
<1>5. dataKey \in Vectors(n) /\ dataKey[p] = Mixed(acc, key, l)
  <2>1. dataKey = [q \in 1..n |-> XorTable[once[q]][keyVec[q]]]
    BY <1>3, <1>4 DEF XorV, Vectors
  <2>2. \A q \in 1..n : XorTable[once[q]][keyVec[q]] \in Words
    BY <1>1, <1>3, XorIsWord DEF Vectors
  <2> QED
    BY <1>1, <1>3, <2>1, <2>2 DEF Vectors, Mixed
<1> QED
  BY <1>5 DEF dataKey, shifted, accVec, keyVec

LEMMA X86Scrambles ==
  ASSUME NEW acc \in Accs, NEW key \in Accs, NEW n \in Sizes86
  PROVE  ScrambleX86(acc, key, n) = Scrambled(acc, key)
<1> DEFINE accVec(i) == Load(acc, i, n)
           dataKey(i) == XorV(XorV(accVec(i), ShiftRightV(accVec(i), ShiftBits)), Load(key, i, n))
           prodLow(i) == MulLowV(dataKey(i), PrimeV(n))
           prodHigh(i) == MulLowV(HighOf(dataKey(i), n), PrimeV(n))
           registers == [i \in 0..(AccNb \div n - 1) |->
                           AddV(prodLow(i), ShiftLeftV(prodHigh(i), HalfBits))]
<1>1. ScrambleX86(acc, key, n) = Store(registers, n)
  BY DEF ScrambleX86
<1>2. ASSUME NEW l \in 1..AccNb
      PROVE  registers[Register(l, n)][Place(l, n)] = Scrambled(acc, key)[l]
  <2>1. PICK i \in 0..(AccNb \div n - 1), p \in 1..n :
          i = Register(l, n) /\ p = Place(l, n) /\ i * n + p = l
    BY PlaceIs
  <2> DEFINE x == Mixed(acc, key, l)
  <2>2. dataKey(i) \in Vectors(n) /\ dataKey(i)[p] = x
    BY <2>1, MixedVector
  <2>3. registers[i] = AddV(prodLow(i), ShiftLeftV(prodHigh(i), HalfBits))
    <3> HIDE DEF prodLow, prodHigh
    <3> QED
      OBVIOUS
  <2> HIDE DEF dataKey, registers
  <2>4. PrimeV(n)[p] = Prime32 + Half * Prime32
    BY DEF PrimeV
  <2>5. DOMAIN prodLow(i) = 1..n /\ prodLow(i)[p] = Low(x) * Prime32
    <3>1. prodLow(i) = [q \in 1..n |-> Low(dataKey(i)[q]) * Low(PrimeV(n)[q])]
      BY <2>2 DEF MulLowV, Vectors
    <3> HIDE DEF prodLow
    <3> QED
      BY <2>2, <2>4, <3>1, PrimeIs
  <2>6. DOMAIN prodHigh(i) = 1..n /\ prodHigh(i)[p] = High(x) * Prime32
    <3>1. DOMAIN HighOf(dataKey(i), n) = 1..n /\ Low(HighOf(dataKey(i), n)[p]) = High(x)
      BY <2>2, HighIs
    <3>2. prodHigh(i) = [q \in 1..n |-> Low(HighOf(dataKey(i), n)[q]) * Low(PrimeV(n)[q])]
      BY <3>1 DEF MulLowV
    <3> HIDE DEF prodHigh
    <3> QED
      BY <2>4, <3>1, <3>2, PrimeIs
  <2> HIDE DEF prodLow, prodHigh
  <2>7. registers[i][p] = (prodLow(i)[p] + ShiftLeftV(prodHigh(i), HalfBits)[p]) % WordMod
    BY <2>3, <2>5 DEF AddV
  <2>8. ShiftLeftV(prodHigh(i), HalfBits)[p] = ((High(x) * Prime32) * Half) % WordMod
    BY <2>6, ShiftLeftIs
  <2>9. x \in Words
    BY MixedIs
  <2>10. (Low(x) * Prime32 + (((High(x) * Prime32) * Half) % WordMod)) % WordMod
           = (x * Prime32) % WordMod
    <3> HIDE DEF x
    <3> QED
      BY <2>9, PrimeIs, HalvesMultiply
  <2>11. Scrambled(acc, key)[l] = (x * Prime32) % WordMod
    BY DEF Scrambled
  <2> HIDE DEF x
  <2>12. registers[i][p] = (x * Prime32) % WordMod
    BY <2>5, <2>7, <2>8, <2>10, Zenon
  <2> QED
    BY <2>1, <2>11, <2>12, Zenon
<1>3. Store(registers, n) = [l \in 1..AccNb |-> registers[Register(l, n)][Place(l, n)]]
  <2> HIDE DEF registers
  <2> QED
    BY StoreIs
<1>4. Scrambled(acc, key) = [l \in 1..AccNb |-> Scrambled(acc, key)[l]]
  BY DEF Scrambled
<1> HIDE DEF registers
<1> QED
  BY <1>1, <1>2, <1>3, <1>4

-----------------------------------------------------------------------------
(* NEON                                                                    *)

\* One lane of a register of two, from the registers of its inputs.
NeonLane(a, d, k, p) ==
  (a[p] + ((d[Other(p)] + Low(XorTable[d[p]][k[p]]) * High(XorTable[d[p]][k[p]])) % WordMod))
    % WordMod

LEMMA PairLanes ==
  /\ \A p \in 1..2 : (p = 1 \/ p = 2) /\ p + 2 \in 3..4 /\ (p = 1 => Other(p) = 2)
                       /\ (p = 2 => Other(p) = 1)
BY DEF Other

LEMMA ExtIs == \A d : \A p \in 1..2 : ExtV(d)[p] = d[Other(p)]
<1> SUFFICES ASSUME NEW d, NEW p \in 1..2 PROVE ExtV(d)[p] = d[Other(p)]
  OBVIOUS
<1>1. CASE p = 1
  BY <1>1, PairLanes DEF ExtV
<1>2. CASE p = 2
  BY <1>2, PairLanes DEF ExtV
<1> QED
  BY <1>1, <1>2

LEMMA NeonSingleIs ==
  ASSUME NEW a \in Vectors(2), NEW d \in Vectors(2), NEW k \in Vectors(2), NEW p \in 1..2
  PROVE  NeonSingle(a, d, k)[p] = NeonLane(a, d, k, p)
<1> DEFINE keyed == XorV(d, k)
           sum == [l \in 1..2 |-> (ExtV(d)[l] + Low(keyed[l]) * High(keyed[l])) % WordMod]
<1>1. keyed[p] = XorTable[d[p]][k[p]]
  BY DEF XorV, Vectors
<1>2. sum[p] = (d[Other(p)] + Low(keyed[p]) * High(keyed[p])) % WordMod
  <2> HIDE DEF keyed
  <2> QED
    BY ExtIs
<1>3. NeonSingle(a, d, k) = AddV(a, sum)
  BY DEF NeonSingle
<1> HIDE DEF keyed, sum
<1>4. NeonSingle(a, d, k)[p] = (a[p] + sum[p]) % WordMod
  BY <1>3 DEF AddV, Vectors
<1> QED
  BY <1>1, <1>2, <1>4, Zenon DEF NeonLane

LEMMA PairSeq == \A v \in [1..2 -> Words] : v \in Seq(Words) /\ Len(v) = 2
<1> SUFFICES ASSUME NEW v \in [1..2 -> Words] PROVE v \in Seq(Words) /\ Len(v) = 2
  OBVIOUS
<1>1. v \in Seq(Words)
  <2>1. \A n \in Nat : [1..n -> Words] \subseteq Seq(Words)
    BY SeqDef
  <2>2. 2 \in Nat
    OBVIOUS
  <2> QED
    BY <2>1, <2>2, Zenon
<1>2. Len(v) = 2
  <2>1. DOMAIN v = 1..Len(v) /\ Len(v) \in Nat
    BY <1>1, LenProperties
  <2>2. DOMAIN v = 1..2
    OBVIOUS
  <2> QED
    BY <2>1, <2>2
<1> QED
  BY <1>1, <1>2

\* Two registers at a time.
AreRegisters(a1, d1, k1, a2, d2, k2) ==
  /\ a1 \in Vectors(2) /\ d1 \in Vectors(2) /\ k1 \in Vectors(2)
  /\ a2 \in Vectors(2) /\ d2 \in Vectors(2) /\ k2 \in Vectors(2)
PairComputes(a1, d1, k1, a2, d2, k2, p) ==
  /\ NeonPair(a1, a2, d1, d2, k1, k2)[1][p] = NeonLane(a1, d1, k1, p)
  /\ NeonPair(a1, a2, d1, d2, k1, k2)[2][p] = NeonLane(a2, d2, k2, p)

LEMMA PairIs ==
  ASSUME NEW a1, NEW d1, NEW k1, NEW a2, NEW d2, NEW k2, NEW p \in 1..2,
         AreRegisters(a1, d1, k1, a2, d2, k2)
  PROVE  PairComputes(a1, d1, k1, a2, d2, k2, p)
<1>0. /\ a1 \in Vectors(2) /\ d1 \in Vectors(2) /\ k1 \in Vectors(2)
      /\ a2 \in Vectors(2) /\ d2 \in Vectors(2) /\ k2 \in Vectors(2)
  BY DEF AreRegisters
<1> DEFINE keyed == XorV(d1, k1) \o XorV(d2, k2)
           low == [l \in 1..4 |-> Low(keyed[l])]
           high == [l \in 1..4 |-> High(keyed[l])]
           sum1 == [l \in 1..2 |-> (ExtV(d1)[l] + low[l] * high[l]) % WordMod]
           sum2 == [l \in 1..2 |-> (ExtV(d2)[l] + low[l + 2] * high[l + 2]) % WordMod]
<1>1. keyed[p] = XorTable[d1[p]][k1[p]] /\ keyed[p + 2] = XorTable[d2[p]][k2[p]]
  <2>1. XorV(d1, k1) = [l \in 1..2 |-> XorTable[d1[l]][k1[l]]]
    BY <1>0 DEF XorV, Vectors
  <2>2. XorV(d2, k2) = [l \in 1..2 |-> XorTable[d2[l]][k2[l]]]
    BY <1>0 DEF XorV, Vectors
  <2>3. XorV(d1, k1) \in [1..2 -> Words] /\ XorV(d2, k2) \in [1..2 -> Words]
    BY <1>0, <2>1, <2>2, XorIsWord DEF Vectors
  <2>4. PICK u \in Seq(Words), v \in Seq(Words) :
          /\ u = XorV(d1, k1) /\ v = XorV(d2, k2) /\ Len(u) = 2 /\ Len(v) = 2
    BY <2>3, PairSeq
  <2>5. \A i \in 1..(Len(u) + Len(v)) :
           (u \o v)[i] = IF i <= Len(u) THEN u[i] ELSE v[i - Len(u)]
    BY ConcatProperties
  <2>6. \A i \in 1..4 : keyed[i] = IF i <= 2 THEN XorV(d1, k1)[i] ELSE XorV(d2, k2)[i - 2]
    <3>1. Len(u) + Len(v) = 4
      BY <2>4
    <3> QED
      BY <2>4, <2>5, <3>1
  <2>7. p \in 1..4 /\ p + 2 \in 1..4 /\ p <= 2 /\ ~(p + 2 <= 2) /\ p + 2 - 2 = p
    OBVIOUS
  <2> HIDE DEF keyed
  <2> QED
    BY <2>1, <2>2, <2>6, <2>7
<1>2. p \in 1..4 /\ p + 2 \in 1..4
  OBVIOUS
<1> HIDE DEF keyed
<1>3. /\ low[p] = Low(keyed[p]) /\ high[p] = High(keyed[p])
      /\ low[p + 2] = Low(keyed[p + 2]) /\ high[p + 2] = High(keyed[p + 2])
  BY <1>2
<1>4. NeonPair(a1, a2, d1, d2, k1, k2) = <<AddV(a1, sum1), AddV(a2, sum2)>>
  BY DEF NeonPair, keyed
<1> HIDE DEF low, high
<1>5. sum1[p] = (d1[Other(p)] + low[p] * high[p]) % WordMod
  BY ExtIs
<1>6. sum2[p] = (d2[Other(p)] + low[p + 2] * high[p + 2]) % WordMod
  BY ExtIs
<1> HIDE DEF sum1, sum2
<1>7. /\ NeonPair(a1, a2, d1, d2, k1, k2)[1][p] = (a1[p] + sum1[p]) % WordMod
      /\ NeonPair(a1, a2, d1, d2, k1, k2)[2][p] = (a2[p] + sum2[p]) % WordMod
  BY <1>0, <1>4 DEF AddV, Vectors
<1> QED
  BY <1>1, <1>3, <1>5, <1>6, <1>7, Zenon DEF NeonLane, PairComputes

LEMMA NeonLaneIs ==
  ASSUME NEW acc \in Accs, NEW data \in Accs, NEW key \in Accs,
         NEW scalar \in Accs, NEW i \in 0..3, NEW p \in 1..2, NEW l \in 1..AccNb,
         i * 2 + p = l, scalar[l] = acc[l]
  PROVE  NeonLane(Load(scalar, i, 2), Load(data, i, 2), Load(key, i, 2), p)
           = Accumulated(acc, data, key)[l]
<1>1. 2 \in Sizes86 /\ i \in 0..(AccNb \div 2 - 1) /\ Other(p) \in 1..2 /\ i * 2 + Other(p) = Other(l)
  BY DEF Sizes86, AccNb, Other
<1>2. /\ Load(scalar, i, 2) = [q \in 1..2 |-> scalar[i * 2 + q]]
      /\ Load(data, i, 2) = [q \in 1..2 |-> data[i * 2 + q]]
      /\ Load(key, i, 2) = [q \in 1..2 |-> key[i * 2 + q]]
  BY <1>1, LoadIs
<1>3. /\ Load(scalar, i, 2)[p] = acc[l] /\ Load(data, i, 2)[p] = data[l]
      /\ Load(key, i, 2)[p] = key[l] /\ Load(data, i, 2)[Other(p)] = data[Other(l)]
  BY <1>1, <1>2
<1> DEFINE product == Product(data, key, l)
<1>4. NeonLane(Load(scalar, i, 2), Load(data, i, 2), Load(key, i, 2), p)
        = (acc[l] + ((data[Other(l)] + product) % WordMod)) % WordMod
  BY <1>3, Zenon DEF NeonLane, Product, Keyed
<1>5. acc[l] \in Nat /\ data[Other(l)] \in Nat /\ product \in Nat
  BY KeyedIs, LaneIs
<1> HIDE DEF product
<1> DEFINE sum == data[Other(l)] + product
<1>6. sum \in Nat /\ sum + acc[l] = acc[l] + data[Other(l)] + product
  BY <1>5
<1> HIDE DEF sum
<1>7. (acc[l] + (sum % WordMod)) % WordMod = (sum + acc[l]) % WordMod
  BY <1>5, <1>6, Sums
<1>8. Accumulated(acc, data, key)[l] = (acc[l] + data[Other(l)] + product) % WordMod
  BY DEF Accumulated, product
<1> QED
  BY <1>4, <1>6, <1>7, <1>8, Zenon DEF sum

LEMMA NeonAccumulates ==
  ASSUME NEW acc \in Accs, NEW data \in Accs, NEW key \in Accs
  PROVE  Accumulate512Neon(acc, data, key) = Accumulated(acc, data, key)
<1> DEFINE scalar == ScalarRounds(acc, data, key, NeonLanes)
           a(i) == Load(scalar, i, 2)
           d(i) == Load(data, i, 2)
           k(i) == Load(key, i, 2)
           pair(i) == NeonPair(a(i), a(i + 1), d(i), d(i + 1), k(i), k(i + 1))
           register(i) ==
             IF 2 * i >= NeonLanes THEN a(i)
             ELSE IF i % 2 = 1 THEN pair(i - 1)[2]
             ELSE IF i + 1 < NeonLanes \div 2 THEN pair(i)[1]
             ELSE NeonSingle(a(i), d(i), k(i))
           registers == [i \in 0..3 |-> register(i)]
<1>1. Accumulate512Neon(acc, data, key) = Store(registers, 2)
  BY DEF Accumulate512Neon
<1>2. NeonLanes \in {2, 4, 6, 8} /\ NeonLanes \in 0..AccNb
  BY KernelAssumption DEF AccNb
<1>3. scalar \in Accs
  <2>1. scalar = After(acc, data, key, NeonLanes, AccNb)
    BY <1>2, RoundsAre
  <2>2. AccNb \in 0..AccNb
    BY DEF AccNb
  <2> HIDE DEF scalar
  <2> QED
    BY <1>2, <2>1, <2>2, AfterIs
<1>4. \A l \in 1..AccNb : scalar[l] = IF l <= NeonLanes THEN acc[l] ELSE Accumulated(acc, data, key)[l]
  BY RoundsOfRest
<1> HIDE DEF scalar
<1>5. \A i \in 0..3 : /\ a(i) \in Vectors(2) /\ d(i) \in Vectors(2) /\ k(i) \in Vectors(2)
                       /\ a(i) = [p \in 1..2 |-> scalar[i * 2 + p]]
  <2>1. 2 \in Sizes86 /\ AccNb \div 2 - 1 = 3
    BY DEF Sizes86, AccNb
  <2> QED
    BY <1>3, <2>1, LoadIs
<1> HIDE DEF a, d, k
<1>6. ASSUME NEW l \in 1..AccNb
      PROVE  registers[Register(l, 2)][Place(l, 2)] = Accumulated(acc, data, key)[l]
  <2>1. PICK i \in 0..3, p \in 1..2 :
          i = Register(l, 2) /\ p = Place(l, 2) /\ i * 2 + p = l
    <3>1. 2 \in Sizes86 /\ AccNb \div 2 - 1 = 3
      BY DEF Sizes86, AccNb
    <3> QED
      BY <3>1, PlaceIs
  <2>2. registers[i] = register(i)
    <3> HIDE DEF register
    <3> QED
      OBVIOUS
  <2>3. CASE 2 * i >= NeonLanes
    <3>1. ~(l <= NeonLanes)
      BY <1>2, <2>1, <2>3
    <3>2. register(i) = a(i)
      BY <2>3
    <3>3. a(i)[p] = scalar[l]
      BY <1>5, <2>1
    <3> HIDE DEF registers, register
    <3> QED
      BY <1>4, <2>1, <2>2, <3>1, <3>2, <3>3, Zenon
  <2>4. CASE ~(2 * i >= NeonLanes)
    <3>1. l <= NeonLanes
      BY <1>2, <2>1, <2>4
    <3>2. scalar[l] = acc[l]
      BY <1>4, <3>1
    <3>3. NeonLane(a(i), d(i), k(i), p) = Accumulated(acc, data, key)[l]
      BY <1>3, <2>1, <3>2, NeonLaneIs DEF a, d, k
    <3>4. CASE i % 2 = 1
      <4>1. PICK j \in 0..3 : j = i - 1 /\ j + 1 = i
        BY <3>4
      <4>2. register(i) = pair(j)[2]
        <5> HIDE DEF pair
        <5> QED
          BY <2>4, <3>4, <4>1
      <4>3. pair(j) = NeonPair(a(j), a(i), d(j), d(i), k(j), k(i))
        BY <4>1
      <4>4. NeonPair(a(j), a(i), d(j), d(i), k(j), k(i))[2][p] = NeonLane(a(i), d(i), k(i), p)
        <5>1. AreRegisters(a(j), d(j), k(j), a(i), d(i), k(i))
          BY <1>5 DEF AreRegisters
        <5>2. PairComputes(a(j), d(j), k(j), a(i), d(i), k(i), p)
          BY <5>1, PairIs
        <5> QED
          BY <5>2 DEF PairComputes
      <4> HIDE DEF registers, register, pair
      <4> QED
        BY <2>1, <2>2, <3>3, <4>2, <4>3, <4>4, Zenon
    <3>5. CASE i % 2 # 1 /\ i + 1 < NeonLanes \div 2
      <4>1. PICK j \in 0..3 : j = i + 1
        BY <1>2, <3>5
      <4>2. register(i) = pair(i)[1]
        <5> HIDE DEF pair
        <5> QED
          BY <2>4, <3>5
      <4>3. pair(i) = NeonPair(a(i), a(j), d(i), d(j), k(i), k(j))
        BY <4>1
      <4>4. NeonPair(a(i), a(j), d(i), d(j), k(i), k(j))[1][p] = NeonLane(a(i), d(i), k(i), p)
        <5>1. AreRegisters(a(i), d(i), k(i), a(j), d(j), k(j))
          BY <1>5 DEF AreRegisters
        <5>2. PairComputes(a(i), d(i), k(i), a(j), d(j), k(j), p)
          BY <5>1, PairIs
        <5> QED
          BY <5>2 DEF PairComputes
      <4> HIDE DEF registers, register, pair
      <4> QED
        BY <2>1, <2>2, <3>3, <4>2, <4>3, <4>4, Zenon
    <3>6. CASE i % 2 # 1 /\ ~(i + 1 < NeonLanes \div 2)
      <4>1. register(i) = NeonSingle(a(i), d(i), k(i))
        <5> HIDE DEF pair
        <5> QED
          BY <2>4, <3>6
      <4>2. NeonSingle(a(i), d(i), k(i))[p] = NeonLane(a(i), d(i), k(i), p)
        BY <1>5, NeonSingleIs
      <4> HIDE DEF registers, register
      <4> QED
        BY <2>1, <2>2, <3>3, <4>1, <4>2, Zenon
    <3> QED
      BY <3>4, <3>5, <3>6
  <2> QED
    BY <2>3, <2>4
<1> HIDE DEF registers
<1>7. Store(registers, 2) = [l \in 1..AccNb |-> registers[Register(l, 2)][Place(l, 2)]]
  BY StoreIs
<1>8. Accumulated(acc, data, key) = [l \in 1..AccNb |-> Accumulated(acc, data, key)[l]]
  BY DEF Accumulated
<1> QED
  BY <1>1, <1>6, <1>7, <1>8

LEMMA NeonScrambles ==
  ASSUME NEW acc \in Accs, NEW key \in Accs
  PROVE  ScrambleNeon(acc, key) = Scrambled(acc, key)
<1> DEFINE scalar == ScalarScrambleRounds(acc, key, NeonLanes)
           accVec(i) == Load(scalar, i, 2)
           dataKey(i) == XorV(XorV(accVec(i), ShiftRightV(accVec(i), ShiftBits)), Load(key, i, 2))
           prodHigh(i) == [q \in 1..2 |-> Half * ((High(dataKey(i)[q]) * Prime32) % Half)]
           sum(i) == [q \in 1..2 |-> (prodHigh(i)[q] + Low(dataKey(i)[q]) * Prime32) % WordMod]
           register(i) == IF 2 * i >= NeonLanes THEN accVec(i) ELSE sum(i)
           registers == [i \in 0..3 |-> register(i)]
<1>1. ScrambleNeon(acc, key) = Store(registers, 2)
  BY DEF ScrambleNeon
<1>2. NeonLanes \in {2, 4, 6, 8} /\ NeonLanes \in 0..AccNb
  BY KernelAssumption DEF AccNb
<1>3. scalar \in Accs
  <2>1. scalar = Scrambling(acc, key, NeonLanes, AccNb)
    BY <1>2, ScrambleRoundsAre
  <2> HIDE DEF scalar
  <2> QED
    BY <2>1, ScrambledIs DEF Scrambling, Accs
<1>4. \A l \in 1..AccNb : scalar[l] = IF l <= NeonLanes THEN acc[l] ELSE Scrambled(acc, key)[l]
  BY ScrambleOfRest
<1> HIDE DEF scalar
<1>5. 2 \in Sizes86 /\ AccNb \div 2 - 1 = 3
  BY DEF Sizes86, AccNb
<1>6. ASSUME NEW l \in 1..AccNb
      PROVE  registers[Register(l, 2)][Place(l, 2)] = Scrambled(acc, key)[l]
  <2>1. PICK i \in 0..3, p \in 1..2 :
          i = Register(l, 2) /\ p = Place(l, 2) /\ i * 2 + p = l
    BY <1>5, PlaceIs
  <2>2. registers[i] = register(i)
    <3> HIDE DEF register
    <3> QED
      OBVIOUS
  <2>3. CASE 2 * i >= NeonLanes
    <3>1. ~(l <= NeonLanes)
      BY <1>2, <2>1, <2>3
    <3>2. register(i) = accVec(i)
      BY <2>3
    <3>3. accVec(i)[p] = scalar[l]
      <4>1. accVec(i) = [q \in 1..2 |-> scalar[i * 2 + q]]
        <5>1. PICK n \in Sizes86 : n = 2
          BY <1>5
        <5>2. i \in 0..(AccNb \div n - 1)
          BY <1>5, <5>1
        <5>3. Load(scalar, i, n) = [q \in 1..n |-> scalar[i * n + q]]
          BY <1>3, <5>2, LoadIs
        <5> QED
          BY <5>1, <5>3, Zenon
      <4> HIDE DEF accVec
      <4> QED
        BY <2>1, <4>1
    <3> HIDE DEF registers, register
    <3> QED
      BY <1>4, <2>1, <2>2, <3>1, <3>2, <3>3, Zenon
  <2>4. CASE ~(2 * i >= NeonLanes)
    <3>1. l <= NeonLanes
      BY <1>2, <2>1, <2>4
    <3>2. scalar[l] = acc[l]
      BY <1>4, <3>1
    <3> DEFINE x == Mixed(acc, key, l)
    <3>3. dataKey(i)[p] = x
      <4>1. dataKey(i)[p] = Mixed(scalar, key, l)
        <5>1. PICK n \in Sizes86 : n = 2
          BY <1>5
        <5>2. i \in 0..(AccNb \div n - 1) /\ p \in 1..n /\ i * n + p = l
          BY <1>5, <2>1, <5>1
        <5>3. XorV(XorV(Load(scalar, i, n), ShiftRightV(Load(scalar, i, n), ShiftBits)),
                   Load(key, i, n))[p] = Mixed(scalar, key, l)
          BY <1>3, <5>2, MixedVector
        <5> QED
          BY <5>1, <5>3, Zenon
      <4>2. Mixed(scalar, key, l) = Mixed(acc, key, l)
        BY <3>2 DEF Mixed
      <4> QED
        BY <4>1, <4>2
    <3>4. register(i) = sum(i)
      <4> HIDE DEF sum
      <4> QED
        BY <2>4
    <3> HIDE DEF dataKey
    <3>5. prodHigh(i)[p] = Half * ((High(x) * Prime32) % Half)
      <4> HIDE DEF x
      <4> QED
        BY <3>3
    <3> HIDE DEF prodHigh
    <3>6. sum(i)[p] = (Half * ((High(x) * Prime32) % Half) + Low(x) * Prime32) % WordMod
      <4> HIDE DEF x
      <4>1. sum(i)[p] = (prodHigh(i)[p] + Low(dataKey(i)[p]) * Prime32) % WordMod
        OBVIOUS
      <4> QED
        BY <3>3, <3>5, <4>1, Zenon
    <3>7. (Half * ((High(x) * Prime32) % Half) + Low(x) * Prime32) % WordMod
            = (x * Prime32) % WordMod
      <4>1. x \in Words
        BY MixedIs
      <4> HIDE DEF x
      <4> QED
        BY <4>1, PrimeIs, HalvesMultiply
    <3>8. Scrambled(acc, key)[l] = (x * Prime32) % WordMod
      BY DEF Scrambled
    <3> HIDE DEF registers, register, sum, x
    <3> QED
      BY <2>1, <2>2, <3>4, <3>6, <3>7, <3>8, Zenon
  <2> QED
    BY <2>3, <2>4
<1> HIDE DEF registers
<1>7. Store(registers, 2) = [l \in 1..AccNb |-> registers[Register(l, 2)][Place(l, 2)]]
  BY StoreIs
<1>8. Scrambled(acc, key) = [l \in 1..AccNb |-> Scrambled(acc, key)[l]]
  BY DEF Scrambled
<1> QED
  BY <1>1, <1>6, <1>7, <1>8

-----------------------------------------------------------------------------
(* The kernels                                                             *)

\* XXH3_accumulate_512: every instruction set computes what portable C does,
\* whatever the accumulators, the stripe and the secret hold.
THEOREM AccumulatesAgree ==
  ASSUME NEW acc \in Accs, NEW data \in Accs, NEW key \in Accs, NEW kernel \in Kernels
  PROVE  Accumulate512(kernel, acc, data, key) = Accumulate512Scalar(acc, data, key)
<1>1. Accumulate512Scalar(acc, data, key) = Accumulated(acc, data, key)
  BY RoundsOfAll
<1>2. \A n \in Sizes86 : AccumulateX86(acc, data, key, n) = Accumulated(acc, data, key)
  BY X86Accumulates
<1>3. Accumulate512Neon(acc, data, key) = Accumulated(acc, data, key)
  BY NeonAccumulates
<1>4. CASE kernel = "scalar"
  BY <1>4 DEF Accumulate512
<1>5. CASE kernel = "sse2"
  BY <1>1, <1>2, <1>5 DEF Accumulate512, Accumulate512Sse2, Sizes86
<1>6. CASE kernel = "avx2"
  BY <1>1, <1>2, <1>6 DEF Accumulate512, Accumulate512Avx2, Sizes86
<1>7. CASE kernel = "avx512"
  BY <1>1, <1>2, <1>7 DEF Accumulate512, Accumulate512Avx512, Sizes86
<1>8. CASE kernel = "neon"
  BY <1>1, <1>3, <1>8 DEF Accumulate512
<1> QED
  BY <1>4, <1>5, <1>6, <1>7, <1>8 DEF Kernels

\* XXH3_scrambleAcc: likewise.
THEOREM ScramblesAgree ==
  ASSUME NEW acc \in Accs, NEW key \in Accs, NEW kernel \in Kernels
  PROVE  Scramble(kernel, acc, key) = ScrambleScalar(acc, key)
<1>1. ScrambleScalar(acc, key) = Scrambled(acc, key)
  BY ScrambleOfAll
<1>2. \A n \in Sizes86 : ScrambleX86(acc, key, n) = Scrambled(acc, key)
  BY X86Scrambles
<1>3. ScrambleNeon(acc, key) = Scrambled(acc, key)
  BY NeonScrambles
<1>4. CASE kernel = "scalar"
  BY <1>4 DEF Scramble
<1>5. CASE kernel = "sse2"
  BY <1>1, <1>2, <1>5 DEF Scramble, ScrambleSse2, Sizes86
<1>6. CASE kernel = "avx2"
  BY <1>1, <1>2, <1>6 DEF Scramble, ScrambleAvx2, Sizes86
<1>7. CASE kernel = "avx512"
  BY <1>1, <1>2, <1>7 DEF Scramble, ScrambleAvx512, Sizes86
<1>8. CASE kernel = "neon"
  BY <1>1, <1>3, <1>8 DEF Scramble
<1> QED
  BY <1>4, <1>5, <1>6, <1>7, <1>8 DEF Kernels

-----------------------------------------------------------------------------
(* The builds for size                                                     *)

\* The loop of a build for size reads, for 17 to 128 bytes, what the nested
\* tests of the default build read, with the same bytes of the secret.
THEOREM LoopReadsTheSame ==
  ASSUME NEW v, NEW len \in 17..128
  PROVE  Len17to128Loop(v, len) = Len17to128(v, len)
<1> DEFINE lower(i) == Mix16B(v, 16 * i, 32 * i)
           upper(i) == Mix16B(v, len - 16 * (i + 1), 32 * i + 16)
           q == (len - 1) \div 32
           nested == Len17to128(v, len)
           loop == Len17to128Loop(v, len)
<1>1. /\ q \in 0..3 /\ (q >= 1 <=> len > 32) /\ (q >= 2 <=> len > 64) /\ (q >= 3 <=> len > 96)
  OBVIOUS
<1>2. /\ lower(0) = Mix16B(v, 0, 0) /\ upper(0) = Mix16B(v, len - 16, 16)
      /\ lower(1) = Mix16B(v, 16, 32) /\ upper(1) = Mix16B(v, len - 32, 48)
      /\ lower(2) = Mix16B(v, 32, 64) /\ upper(2) = Mix16B(v, len - 48, 80)
      /\ lower(3) = Mix16B(v, 48, 96) /\ upper(3) = Mix16B(v, len - 64, 112)
  OBVIOUS
<1>3. nested = {lower(0), upper(0)}
               \cup (IF len > 32 THEN {lower(1), upper(1)} ELSE {})
               \cup (IF len > 64 THEN {lower(2), upper(2)} ELSE {})
               \cup (IF len > 96 THEN {lower(3), upper(3)} ELSE {})
  <2> HIDE DEF lower, upper
  <2> QED
    BY <1>2 DEF Len17to128
<1>4. loop = UNION {{lower(i), upper(i)} : i \in 0..q}
  BY DEF Len17to128Loop
<1> HIDE DEF lower, upper, q, nested, loop
<1>5. \A r \in nested : r \in loop
  BY <1>1, <1>3, <1>4
<1>6. \A r \in loop : r \in nested
  <2> SUFFICES ASSUME NEW r \in loop PROVE r \in nested
    OBVIOUS
  <2>1. PICK i \in 0..q : r \in {lower(i), upper(i)}
    BY <1>4
  <2>2. i = 0 \/ i = 1 \/ i = 2 \/ i = 3
    BY <1>1
  <2> QED
    BY <1>1, <1>3, <2>1, <2>2
<1> QED
  BY <1>5, <1>6 DEF nested, loop

-----------------------------------------------------------------------------
(* Digests                                                                 *)

LEMMA ByteIs == \A position \in Nat : ByteAt(position) \in Nat
<1> SUFFICES ASSUME NEW position \in Nat PROVE ByteAt(position) \in Nat
  OBVIOUS
<1>1. PICK n \in Nat : n = position * position * 7 + position * 3 + position \div 5
  <2>1. position * position \in Nat /\ position \div 5 \in Nat
    OBVIOUS
  <2>2. \A a, b \in Nat : a * 7 + position * 3 + b \in Nat
    OBVIOUS
  <2> QED
    BY <2>1, <2>2
<1>2. n % 251 \in Nat
  OBVIOUS
<1> QED
  BY <1>1, <1>2, Zenon DEF ByteAt

LEMMA DataIs ==
  ASSUME NEW bytes \in [1..StripeLen -> Nat]
  PROVE  DataLanes(bytes) \in Accs
<1> SUFFICES ASSUME NEW l \in 1..AccNb PROVE ReadLE64(bytes, l) \in Words
  BY LanesIs DEF DataLanes, Accs
<1> DEFINE b(k) == ByteAt(bytes[8 * (l - 1) + k])
<1>1. \A k \in 1..8 : b(k) \in Nat
  <2>1. \A k \in 1..8 : 8 * (l - 1) + k \in 1..StripeLen
    BY DigestAssumption DEF AccNb
  <2> QED
    BY <2>1, ByteIs
<1> HIDE DEF b
<1>2. b(1) + 3 * b(2) + 5 * b(3) + 9 * b(4) + 17 * b(5) + 7 * b(6) + 11 * b(7) + 13 * b(8) \in Nat
  <2>1. PICK b1 \in Nat, b2 \in Nat, b3 \in Nat, b4 \in Nat :
          b1 = b(1) /\ b2 = b(2) /\ b3 = b(3) /\ b4 = b(4)
    BY <1>1
  <2>2. PICK b5 \in Nat, b6 \in Nat, b7 \in Nat, b8 \in Nat :
          b5 = b(5) /\ b6 = b(6) /\ b7 = b(7) /\ b8 = b(8)
    BY <1>1
  <2>3. b1 + 3 * b2 + 5 * b3 + 9 * b4 + 17 * b5 + 7 * b6 + 11 * b7 + 13 * b8 \in Nat
    OBVIOUS
  <2> QED
    BY <2>1, <2>2, <2>3, Zenon
<1>3. ReadLE64(bytes, l)
        = (b(1) + 3 * b(2) + 5 * b(3) + 9 * b(4) + 17 * b(5) + 7 * b(6) + 11 * b(7) + 13 * b(8))
            % WordMod
  BY DEF ReadLE64, b
<1> QED
  BY <1>2, <1>3, ModIsWord

LEMMA SecretIs == \A offset \in Nat : SecretLanes(offset) \in Accs
<1> SUFFICES ASSUME NEW offset \in Nat, NEW l \in 1..AccNb
             PROVE  ReadSecret64(offset + SecretConsumeRate * (l - 1)) \in Words
  BY LanesIs DEF SecretLanes, Accs
<1>1. PICK at \in Nat : at = offset + SecretConsumeRate * (l - 1)
  BY DEF AccNb, SecretConsumeRate
<1>2. at * at * 11 + at * 5 + 29 \in Nat
  <2>1. at * at \in Nat
    OBVIOUS
  <2>2. \A a \in Nat : a * 11 + at * 5 + 29 \in Nat
    OBVIOUS
  <2> QED
    BY <2>1, <2>2
<1>3. ReadSecret64(at) \in Words
  BY <1>2, ModIsWord DEF ReadSecret64
<1> QED
  BY <1>1, <1>3

LEMMA SomeAccIs == \A n \in Nat : SomeAcc(n) \in Accs
<1> SUFFICES ASSUME NEW n \in Nat, NEW l \in 1..AccNb
             PROVE  (n * l * l + 3 * l + n \div 7) % WordMod \in Words
  BY LanesIs DEF SomeAcc, Accs
<1>1. n * l * l + 3 * l + n \div 7 \in Nat
  <2>1. l \in Nat /\ n \div 7 \in Nat
    BY DEF AccNb
  <2>2. n * l \in Nat
    BY <2>1
  <2>3. n * l * l \in Nat
    BY <2>1, <2>2
  <2>4. \A a, b \in Nat : a + 3 * l + b \in Nat
    BY <2>1
  <2> QED
    BY <2>1, <2>3, <2>4
<1> QED
  BY <1>1, ModIsWord

\* What a digest is made of: of a long stream, stripes of bytes and numbers of
\* keys; of a short one, the reads of XXH3_len_17to128_64b among others.
LEMMA DigestIs ==
  ASSUME Inv, hash # NoHash
  PROVE  /\ IsLong(hash) =>
              /\ \A i \in DOMAIN hash.stripes : /\ hash.stripes[i].bytes \in [1..StripeLen -> Nat]
                                                /\ hash.stripes[i].key \in Nat
              /\ hash.last \in [1..StripeLen -> Nat]
         /\ ~IsLong(hash) /\ totalLen \in 17..128 => hash.reads = Len17to128(Whole, totalLen)
<1>1. totalLen \in Nat /\ hash = Hash64(Whole, totalLen) /\ Whole = Positions(totalLen)
  BY DEF Inv, TypeOK, InvHash, Whole, Positions
<1>2. BytesRead(hash) = 0..(totalLen - 1)
  BY <1>1, HashReads
<1>3. CASE totalLen <= MidSizeMax
  <2>1. hash = ShortHash(Whole, totalLen)
    BY <1>1, <1>3 DEF Hash64
  <2>2. ~IsLong(hash)
    BY <2>1 DEF ShortHash, IsLong
  <2>3. totalLen \in 17..128 => hash.reads = Len17to128(Whole, totalLen)
    BY <1>1, <2>1 DEF ShortHash
  <2> QED
    BY <2>2, <2>3
<1>4. CASE ~(totalLen <= MidSizeMax)
  <2>1. hash = HashLong(Whole, totalLen)
    BY <1>1, <1>4 DEF Hash64
  <2>2. IsLong(hash)
    BY <2>1 DEF HashLong, IsLong
  <2> DEFINE nbBlocks == (totalLen - 1) \div BlockLen
             nbStripes == ((totalLen - 1) - BlockLen * nbBlocks) \div StripeLen
             n == nbBlocks * StripesPerBlock + nbStripes
             at(i) == ((i - 1) \div StripesPerBlock) * BlockLen
                        + ((i - 1) % StripesPerBlock) * StripeLen
  <2>3. /\ hash.stripes = [i \in 1..n |-> [bytes |-> Stripe(Whole, at(i)),
                                           key |-> (i - 1) % StripesPerBlock]]
        /\ hash.last = Stripe(Whole, totalLen - StripeLen)
    BY <2>1 DEF HashLong
  <2> HIDE DEF n, at
  <2>4. \A i \in DOMAIN hash.stripes :
          i \in Int /\ hash.stripes[i].bytes = Stripe(Whole, at(i))
          /\ hash.stripes[i].key = (i - 1) % StripesPerBlock
    BY <2>3
  <2>5. ASSUME NEW t, NEW where, t = Stripe(Whole, where), Values(t) \subseteq BytesRead(hash)
        PROVE  t \in [1..StripeLen -> Nat]
    <3>1. t = [k \in 1..StripeLen |-> t[k]]
      BY <2>5 DEF Stripe, Word
    <3>2. \A k \in 1..StripeLen : t[k] \in Values(t)
      BY <3>1 DEF Values
    <3>3. \A k \in 1..StripeLen : t[k] \in Nat
      BY <1>1, <1>2, <2>5, <3>2
    <3> QED
      BY <3>1, <3>3
  <2>6. /\ Values(hash.last) \subseteq BytesRead(hash)
        /\ \A i \in DOMAIN hash.stripes : Values(hash.stripes[i].bytes) \subseteq BytesRead(hash)
    BY <2>2 DEF BytesRead
  <2>7. hash.last \in [1..StripeLen -> Nat]
    BY <2>3, <2>5, <2>6
  <2>8. \A i \in DOMAIN hash.stripes : hash.stripes[i].bytes \in [1..StripeLen -> Nat]
    BY <2>4, <2>5, <2>6
  <2>9. \A i \in Int : (i - 1) % StripesPerBlock \in Nat
    BY Sizes
  <2> QED
    BY <2>2, <2>4, <2>7, <2>8, <2>9
<1> QED
  BY <1>3, <1>4

\* Every step of every digest takes the accumulators to the same values in each
\* build, and a build for size reads the same of a short stream.
THEOREM DigestsAgree == Spec => []BuildsAgree
<1>1. ASSUME Inv PROVE BuildsAgree
  <2>1. CASE hash # NoHash /\ IsLong(hash)
    <3>1. SomeAcc(totalLen) \in Accs
      BY <1>1, SomeAccIs DEF Inv, TypeOK
    <3>2. \A i \in DOMAIN hash.stripes :
            /\ DataLanes(hash.stripes[i].bytes) \in Accs
            /\ SecretLanes(SecretConsumeRate * hash.stripes[i].key) \in Accs
      <4>1. \A key \in Nat : SecretConsumeRate * key \in Nat
        BY DEF SecretConsumeRate
      <4> QED
        BY <1>1, <2>1, <4>1, DigestIs, DataIs, SecretIs
    <3>3. /\ DataLanes(hash.last) \in Accs
          /\ SecretLanes(SecretLimit - SecretLastAccStart) \in Accs
          /\ SecretLanes(SecretLimit) \in Accs
      <4>1. SecretLimit \in Nat /\ SecretLimit - SecretLastAccStart \in Nat
        BY Sizes DEF SecretLimit, SecretConsumeRate, SecretLastAccStart
      <4> QED
        BY <1>1, <2>1, <4>1, DigestIs, DataIs, SecretIs
    <3> QED
      BY <2>1, <3>1, <3>2, <3>3, AccumulatesAgree, ScramblesAgree DEF BuildsAgree
  <2>2. CASE hash # NoHash /\ ~IsLong(hash)
    BY <1>1, <2>2, DigestIs, LoopReadsTheSame DEF BuildsAgree
  <2>3. CASE hash = NoHash
    BY <2>3 DEF BuildsAgree
  <2> QED
    BY <2>1, <2>2, <2>3
<1> QED
  BY <1>1, InitInv, StepKeeps, PTL DEF Spec

=============================================================================
