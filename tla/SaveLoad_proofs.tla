---------------------------- MODULE SaveLoad_proofs ----------------------------
(***************************************************************************)
(* What a save leaves and what a read makes of it, for objects of any      *)
(* number of blocks, any limit of size_t and any point at which the save   *)
(* stops, checked by TLAPS.                                                *)
(***************************************************************************)
EXTENDS SaveLoad, TLAPS, SequenceTheorems

N == 2 * Blocks["new"]
W == Whole("new")

\* What the file will hold when the buffer has been written out.
All == target.pieces \o buffer

\* The pieces of s are the first ones of the new object's stream.
Begins(s) == Len(s) <= N + 1 /\ \A i \in 1..Len(s) : s[i] = W[i]

SaverTypes ==
    /\ kind \in {"file", "memory"}
    /\ target \in [pieces : Seq(Pieces), hash : [of : {"nothing", "data"}, pieces : Seq(Pieces)]]
    /\ buffer \in Seq(Pieces) /\ (kind = "memory" => buffer = << >>)
    /\ sizeMax \in SizeMaxes /\ position \in 0..sizeMax /\ end \in 0..sizeMax
    /\ kind = "memory" /\ ~Ended => position <= Len(target.pieces) /\ Len(target.pieces) <= sizeMax
    /\ hashed \in Seq(Pieces)
    /\ saver \in {"start", "open", "blocks", "hash", "patch", "resize", "unwind",
                  "returned", "threw", "crashed"}
    /\ fault \in {"none", "checksum lost", "damaged"}

LoaderTypes ==
    /\ loader \in {"idle", "validate", "decode", "returned", "threw"}
    /\ validate \in BOOLEAN /\ at \in 0..Len(target.pieces)
    /\ result \in Seq(Pieces)

HashedInv ==
    /\ Len(hashed) <= N /\ \A i \in 1..Len(hashed) : hashed[i] = Object("new")[i]
    /\ saver \in {"start", "open"} => hashed = << >>
    /\ saver \in {"hash", "patch", "resize", "returned"} => Len(hashed) = N

FileInv ==
    kind = "file" =>
      /\ saver # "resize"
      /\ saver = "start" => target \in {Empty, SavedFile("old")} /\ buffer = << >>
      /\ saver = "open" => target = Empty /\ buffer = << >>
      /\ saver \in {"blocks", "hash", "patch", "unwind"} => Begins(All) /\ target.hash = NoHash
      /\ saver \in {"blocks", "hash", "patch"} => Len(All) = Len(hashed) + 1
      /\ saver = "patch" => buffer = << >>

\* Memory holds the stream up to the position, and has room beyond it.
MemoryInv ==
    kind = "memory" =>
      /\ saver # "crashed"
      /\ saver \in {"start", "open"} => target = Empty /\ position = 0
      /\ saver \in {"blocks", "hash", "patch", "resize"} =>
           /\ Len(hashed) + 1 <= Len(target.pieces)
           /\ \A i \in 1..(Len(hashed) + 1) : target.pieces[i] = W[i]
      /\ saver \in {"blocks", "hash"} => position = Len(hashed) + 1
      /\ saver \in {"patch", "resize"} => end = Len(hashed) + 1
      /\ target.hash = IF saver = "resize" THEN Digest(hashed)
                       ELSE IF saver = "returned" THEN Digest(Object("new")) ELSE NoHash

LeftInv ==
    Ended /\ fault # "damaged" =>
      IF saver = "returned"
      THEN /\ target.pieces = W
           /\ target.hash = IF fault = "none" THEN Digest(Object("new")) ELSE NoHash
      ELSE target = SavedFile("old") \/ (Begins(target.pieces) /\ target.hash = NoHash)

FaultInv ==
    /\ fault # "none" => Ended
    /\ target.hash \in {NoHash, Digest(Object("old")), Digest(Object("new"))}
    /\ fault = "damaged" =>
         \A i, j \in 1..Len(target.pieces) :
            target.pieces[i] = Damaged /\ target.pieces[j] = Damaged => i = j

SaverInv == SaverTypes /\ HashedInv /\ FileInv /\ MemoryInv /\ LeftInv /\ FaultInv

LoaderInv ==
    /\ loader = "idle" => at = 0
    /\ loader # "idle" => Ended
    /\ loader \in {"validate", "decode"} =>
         /\ at = 1 /\ Len(target.pieces) >= 1
         /\ stored \in {target.hash, NoHash, Digest(<<Damaged>>)}
         /\ stored # target.hash => target.pieces[1] = Damaged
    /\ loader = "validate" => validate
    /\ loader = "decode" /\ validate => stored # NoHash /\ stored = Digest(Rest)

IInv == SaverInv /\ LoaderTypes /\ LoaderInv /\ ValidatedIsIntact /\ SavedReadsBack

--------------------------------------------------------------------------------
(* The objects, and sequences of pieces *)

LEMMA Counts == /\ Blocks["old"] \in Nat /\ Blocks["old"] > 0
                /\ Blocks["new"] \in Nat /\ Blocks["new"] > 0
                /\ N \in Nat /\ N > 0
  BY BlocksAssumption DEF N

LEMMA ObjectIs ==
    ASSUME NEW o \in {"old", "new"}
    PROVE  /\ 2 * Blocks[o] \in Nat /\ 2 * Blocks[o] > 0
           /\ Object(o) \in Seq(Pieces) /\ Len(Object(o)) = 2 * Blocks[o]
           /\ \A i \in 1..(2 * Blocks[o]) :
                Object(o)[i] = [object |-> o, part |-> i] /\ Object(o)[i] # Damaged
<1> DEFINE n == 2 * Blocks[o]
           e(i) == [object |-> o, part |-> i]
<1>1. n \in Nat /\ n > 0
  BY Counts
<1> HIDE DEF n
<1>2. {e(i) : i \in 1..n} \subseteq Pieces
  BY DEF Pieces, n
<1>3. [i \in 1..n |-> e(i)] \in [1..n -> Pieces]
  BY <1>2
<1>4. Object(o) = [i \in 1..n |-> e(i)]
  BY DEF Object, n
<1>5. Object(o) \in Seq(Pieces) /\ Len(Object(o)) = n
  BY <1>1, <1>3, <1>4
<1>6. \A i \in 1..n : Object(o)[i] = e(i) /\ e(i) # Damaged
  BY <1>4 DEF Damaged
<1> QED
  BY <1>1, <1>5, <1>6 DEF n

LEMMA WholeIs ==
    ASSUME NEW o \in {"old", "new"}
    PROVE  /\ Whole(o) \in Seq(Pieces) /\ Len(Whole(o)) = 2 * Blocks[o] + 1
           /\ Whole(o)[1] = Header /\ Header \in Pieces /\ Header # Damaged
           /\ \A i \in 1..(2 * Blocks[o]) : Whole(o)[i + 1] = Object(o)[i]
           /\ \A i \in 1..(2 * Blocks[o] + 1) : Whole(o)[i] # Damaged
<1> DEFINE n == 2 * Blocks[o]
           t == Object(o)
           h == <<Header>>
<1>1. n \in Nat /\ t \in Seq(Pieces) /\ Len(t) = n /\ \A i \in 1..n : t[i] # Damaged
  BY ObjectIs
<1>2. Header \in Pieces /\ Header # Damaged
  BY DEF Pieces, Header, Damaged
<1>3. h \in Seq(Pieces) /\ Len(h) = 1 /\ h[1] = Header
  BY <1>2
<1> HIDE DEF n, t, h
<1>4. /\ h \o t \in Seq(Pieces) /\ Len(h \o t) = n + 1
      /\ \A i \in 1..(n + 1) : (h \o t)[i] = IF i <= 1 THEN h[i] ELSE t[i - 1]
  <2>1. /\ h \o t \in Seq(Pieces) /\ Len(h \o t) = Len(h) + Len(t)
        /\ \A i \in 1..(Len(h) + Len(t)) :
             (h \o t)[i] = IF i <= Len(h) THEN h[i] ELSE t[i - Len(h)]
    BY <1>1, <1>3, ConcatProperties
  <2>2. Len(h) + Len(t) = n + 1
    BY <1>1, <1>3
  <2> QED
    BY <1>3, <2>1, <2>2
<1>5. (h \o t)[1] = Header
  BY <1>1, <1>3, <1>4
<1>6. ASSUME NEW i \in 1..n PROVE (h \o t)[i + 1] = t[i]
  <2>1. i + 1 \in 1..(n + 1) /\ ~(i + 1 <= 1) /\ i + 1 - 1 = i
    BY <1>1
  <2> QED
    BY <1>4, <2>1
<1>7. ASSUME NEW i \in 1..(n + 1) PROVE (h \o t)[i] # Damaged
  <2>1. CASE i = 1
    BY <1>2, <1>5, <2>1
  <2>2. CASE i # 1
    <3>1. i - 1 \in 1..n /\ ~(i <= 1)
      BY <1>1, <2>2
    <3>2. (h \o t)[i] = t[i - 1]
      BY <1>4, <3>1
    <3> QED
      BY <1>1, <3>1, <3>2
  <2> QED
    BY <2>1, <2>2
<1>8. Whole(o) = h \o t
  BY DEF Whole, h, t
<1> QED
  BY <1>2, <1>4, <1>5, <1>6, <1>7, <1>8 DEF n, t

LEMMA WIs ==
    /\ W \in Seq(Pieces) /\ Len(W) = N + 1 /\ W[1] = Header
    /\ \A i \in 1..N : W[i + 1] = Object("new")[i]
    /\ \A i \in 1..(N + 1) : W[i] # Damaged
  BY WholeIs DEF W, N

\* A sequence that begins like the stream and is as long is the stream.
LEMMA BeginsAll ==
    ASSUME NEW s \in Seq(Pieces), Begins(s), Len(s) = N + 1
    PROVE  s = W
<1>1. \A i \in 1..Len(s) : s[i] = W[i]
  BY DEF Begins
<1> QED
  BY <1>1, WIs, SeqEqual

LEMMA BeginsPrefix ==
    ASSUME NEW s \in Seq(Pieces), Begins(s)
    PROVE  IsPrefix(s, W)
<1> DEFINE n == Len(s)
           u == SubSeq(W, 1, n)
<1>1. n \in Nat /\ n <= Len(W) /\ \A i \in 1..n : s[i] = W[i]
  BY WIs DEF Begins
<1>2. SubSeq(s, 1, n) = s
  BY SubSeqFull
<1> HIDE DEF n
<1>3. \A i \in 1..n : W[i] \in Pieces
  BY <1>1, WIs
<1>4. u \in Seq(Pieces) /\ Len(u) = n /\ \A i \in 1..n : u[i] = W[i]
  BY <1>1, <1>3, SubSeqProperties
<1> HIDE DEF u
<1>5. s = u
  BY <1>1, <1>4, SeqEqual DEF n
<1> QED
  BY <1>1, <1>2, <1>5 DEF IsPrefix, n, u

\* What has been written out begins like the stream when all of it does.
LEMMA BeginsFront ==
    ASSUME NEW s \in Seq(Pieces), NEW t \in Seq(Pieces), NEW n \in 0..Len(t), Begins(s \o t)
    PROVE  /\ s \o SubSeq(t, 1, n) \in Seq(Pieces) /\ Begins(s \o SubSeq(t, 1, n))
<1> DEFINE u == SubSeq(t, 1, n)
           l == Len(s)
<1>1. l \in Nat /\ Len(t) \in Nat /\ n \in Nat /\ n <= Len(t)
  OBVIOUS
<1>2. \A i \in 1..n : t[i] \in Pieces
  BY <1>1
<1>3. u \in Seq(Pieces) /\ Len(u) = n /\ \A i \in 1..n : u[i] = t[i]
  BY <1>1, <1>2, SubSeqProperties
<1> HIDE DEF u, l
<1>4. /\ s \o u \in Seq(Pieces) /\ Len(s \o u) = l + n
      /\ \A i \in 1..(l + n) : (s \o u)[i] = IF i <= l THEN s[i] ELSE u[i - l]
  BY <1>3, ConcatProperties DEF l
<1>5. /\ Len(s \o t) = l + Len(t)
      /\ \A i \in 1..(l + Len(t)) : (s \o t)[i] = IF i <= l THEN s[i] ELSE t[i - l]
  BY ConcatProperties DEF l
<1>6. Len(s \o t) <= N + 1 /\ \A i \in 1..Len(s \o t) : (s \o t)[i] = W[i]
  BY DEF Begins
<1>7. ASSUME NEW i \in 1..(l + n) PROVE (s \o u)[i] = W[i]
  <2>1. i \in 1..(l + Len(t)) /\ (i <= l \/ i - l \in 1..n)
    BY <1>1
  <2>2. (s \o u)[i] = (s \o t)[i]
    BY <1>3, <1>4, <1>5, <2>1
  <2> QED
    BY <1>5, <1>6, <2>1, <2>2
<1>8. l + n <= N + 1
  BY <1>1, <1>5, <1>6, Counts
<1>9. Begins(s \o u)
  BY <1>4, <1>7, <1>8 DEF Begins
<1> QED
  BY <1>4, <1>9 DEF u

\* One more piece.
LEMMA BeginsNext ==
    ASSUME NEW s \in Seq(Pieces), Begins(s), Len(s) <= N, NEW p \in Pieces, p = W[Len(s) + 1]
    PROVE  Begins(Append(s, p)) /\ Len(Append(s, p)) = Len(s) + 1
<1>1. /\ Len(s) \in Nat /\ Len(Append(s, p)) = Len(s) + 1
      /\ \A i \in 1..Len(s) : Append(s, p)[i] = s[i]
      /\ Append(s, p)[Len(s) + 1] = p
  BY AppendProperties
<1>2. ASSUME NEW i \in 1..(Len(s) + 1) PROVE Append(s, p)[i] = W[i]
  <2>1. i \in 1..Len(s) \/ i = Len(s) + 1
    BY <1>1
  <2> QED
    BY <1>1, <2>1 DEF Begins
<1> QED
  BY <1>1, <1>2, Counts DEF Begins

\* What reaches the file and what stays in the buffer are what there was.
LEMMA SplitKeeps ==
    ASSUME NEW s \in Seq(Pieces), NEW t \in Seq(Pieces), NEW n \in 0..Len(t)
    PROVE  /\ SubSeq(t, 1, n) \in Seq(Pieces) /\ SubSeq(t, n + 1, Len(t)) \in Seq(Pieces)
           /\ s \o SubSeq(t, 1, n) \in Seq(Pieces)
           /\ (s \o SubSeq(t, 1, n)) \o SubSeq(t, n + 1, Len(t)) = s \o t
           /\ n = Len(t) => SubSeq(t, n + 1, Len(t)) = << >> /\ s \o SubSeq(t, 1, n) = s \o t
<1> DEFINE u == SubSeq(t, 1, n)
           v == SubSeq(t, n + 1, Len(t))
<1>1. Len(t) \in Nat /\ n \in Nat /\ n <= Len(t) /\ \A i \in 1..Len(t) : t[i] \in Pieces
  OBVIOUS
<1>2. (\A i \in 1..n : t[i] \in Pieces) /\ (\A i \in (n + 1)..Len(t) : t[i] \in Pieces)
  BY <1>1
<1>3. u \in Seq(Pieces)
  BY <1>1, <1>2, SubSeqProperties
<1>4. v \in Seq(Pieces)
  BY <1>1, <1>2, SubSeqProperties
<1>5. u \o v = t
  <2>1. 1 \in 1..(Len(t) + 1) /\ n \in (1 - 1)..Len(t) /\ Len(t) \in n..Len(t)
    BY <1>1
  <2>2. u \o v = SubSeq(t, 1, Len(t))
    BY <2>1, ConcatAdjacentSubSeq
  <2> QED
    BY <2>2, SubSeqFull
<1>6. n = Len(t) => v = << >> /\ u = t
  <2>1. n = Len(t) => v = << >>
    BY <1>1, SubSeqEmpty
  <2> QED
    BY <2>1, SubSeqFull
<1> HIDE DEF u, v
<1>7. s \o u \in Seq(Pieces)
  BY <1>3, ConcatProperties
<1>8. (s \o u) \o v = s \o t
  <2>1. (s \o u) \o v = s \o (u \o v)
    BY <1>3, <1>4, ConcatAssociative
  <2> QED
    BY <1>5, <2>1
<1> QED
  BY <1>3, <1>4, <1>6, <1>7, <1>8 DEF u, v

LEMMA AppendToAll ==
    ASSUME NEW s \in Seq(Pieces), NEW t \in Seq(Pieces), NEW p \in Pieces
    PROVE  Append(t, p) \in Seq(Pieces) /\ s \o Append(t, p) = Append(s \o t, p)
<1>1. <<p>> \in Seq(Pieces)
  OBVIOUS
<1>2. Append(t, p) = t \o <<p>> /\ Append(t, p) \in Seq(Pieces)
  BY AppendIsConcat, AppendProperties
<1>3. s \o t \in Seq(Pieces)
  BY ConcatProperties
<1>4. Append(s \o t, p) = (s \o t) \o <<p>>
  BY <1>3, AppendIsConcat
<1> QED
  BY <1>1, <1>2, <1>4, ConcatAssociative

--------------------------------------------------------------------------------
(* Memory *)

LEMMA GrownIs ==
    ASSUME NEW n \in Nat, NEW required \in Nat, NEW m \in Nat, required <= m
    PROVE  GrownSize(n, required, m) \in required..m
<1> DEFINE first == IF n > 0 THEN n ELSE InitialCapacity
           enough == {g \in required..m :
                         \E k \in 0..required : /\ g = first * 2^k
                                                /\ k = 0 \/ first * 2^(k - 1) < required}
<1>1. enough \subseteq required..m
  OBVIOUS
<1>2. GrownSize(n, required, m) = IF enough = {} THEN required ELSE CHOOSE g \in enough : TRUE
  BY DEF GrownSize
<1> HIDE DEF enough
<1>3. CASE enough = {}
  BY <1>2, <1>3
<1>4. CASE enough # {}
  <2>1. (CHOOSE g \in enough : TRUE) \in enough
    BY <1>4
  <2> QED
    BY <1>1, <1>2, <1>4, <2>1
<1> QED
  BY <1>3, <1>4

LEMMA ResizedIs ==
    ASSUME NEW b \in Seq(Pieces), NEW n \in Nat
    PROVE  /\ Resized(b, n) \in Seq(Pieces) /\ Len(Resized(b, n)) = n
           /\ \A i \in 1..n : i <= Len(b) => Resized(b, n)[i] = b[i]
<1> DEFINE e(i) == IF i <= Len(b) THEN b[i] ELSE Unused
<1>1. Unused \in Pieces
  BY DEF Pieces
<1>2. \A i \in 1..n : e(i) \in Pieces
  BY <1>1
<1>3. Resized(b, n) = [i \in 1..n |-> e(i)]
  BY DEF Resized
<1>4. [i \in 1..n |-> e(i)] \in [1..n -> Pieces]
  BY <1>2
<1>5. Resized(b, n) \in Seq(Pieces) /\ Len(Resized(b, n)) = n
  BY <1>3, <1>4
<1> QED
  BY <1>3, <1>5

LEMMA WrittenIs ==
    ASSUME NEW b \in Seq(Pieces), NEW pos \in Nat, NEW p \in Pieces, NEW m \in Nat,
           pos <= Len(b), Len(b) <= m, Fits(pos, 1, m)
    PROVE  /\ Written(b, pos, p, m) \in Seq(Pieces)
           /\ pos + 1 <= Len(Written(b, pos, p, m)) /\ Len(Written(b, pos, p, m)) <= m
           /\ Written(b, pos, p, m)[pos + 1] = p
           /\ \A i \in 1..pos : Written(b, pos, p, m)[i] = b[i]
<1> DEFINE r == RequiredCapacity(pos, 1, m)
           room == WithCapacity(b, r, m)
<1>1. Len(b) \in Nat /\ pos + 1 <= m
  BY DEF Fits
<1>2. r = pos + 1
  BY <1>1 DEF RequiredCapacity
<1> HIDE DEF r
<1>3. room \in Seq(Pieces) /\ pos + 1 <= Len(room) /\ Len(room) <= m /\ \A i \in 1..pos : room[i] = b[i]
  <2>1. CASE r > Len(b)
    <3> DEFINE g == GrownSize(Len(b), r, m)
    <3>1. g \in r..m
      <4>1. Len(b) \in Nat /\ r \in Nat /\ m \in Nat /\ r <= m
        BY <1>1, <1>2
      <4> QED
        BY <4>1, GrownIs
    <3>2. room = Resized(b, g)
      BY <2>1 DEF WithCapacity
    <3> HIDE DEF g, room
    <3>3. g \in Nat
      BY <1>2, <3>1
    <3>4. /\ Resized(b, g) \in Seq(Pieces) /\ Len(Resized(b, g)) = g
          /\ \A i \in 1..g : i <= Len(b) => Resized(b, g)[i] = b[i]
      BY <3>3, ResizedIs
    <3>5. \A i \in 1..pos : i \in 1..g /\ i <= Len(b)
      BY <1>1, <1>2, <3>1
    <3> QED
      BY <1>2, <3>1, <3>2, <3>4, <3>5
  <2>2. CASE ~(r > Len(b))
    BY <1>1, <1>2, <2>2 DEF WithCapacity
  <2> QED
    BY <2>1, <2>2
<1>4. Written(b, pos, p, m) = [room EXCEPT ![pos + 1] = p]
  BY DEF Written, r
<1> HIDE DEF room
<1>5. pos + 1 \in 1..Len(room)
  BY <1>3
<1>6. /\ [room EXCEPT ![pos + 1] = p] \in Seq(Pieces)
      /\ Len([room EXCEPT ![pos + 1] = p]) = Len(room)
      /\ \A j \in 1..Len(room) :
           [room EXCEPT ![pos + 1] = p][j] = IF j = pos + 1 THEN p ELSE room[j]
  BY <1>3, <1>5, ExceptSeq
<1>7. \A i \in 1..pos : i \in 1..Len(room) /\ i # pos + 1
  BY <1>3
<1> QED
  BY <1>3, <1>4, <1>5, <1>6, <1>7

--------------------------------------------------------------------------------
(* The saver *)

LEMMA SizesNat == sizeMax \in SizeMaxes => sizeMax \in Nat
  BY SizeMaxesAssumption

LEMMA Sorts ==
    ASSUME SaverTypes
    PROVE  /\ kind = "file" \/ kind = "memory"
           /\ target.pieces \in Seq(Pieces) /\ buffer \in Seq(Pieces) /\ hashed \in Seq(Pieces)
           /\ Len(target.pieces) \in Nat /\ Len(buffer) \in Nat /\ Len(hashed) \in Nat
           /\ sizeMax \in Nat /\ position \in Nat /\ end \in Nat
           /\ position <= sizeMax /\ end <= sizeMax
           /\ kind = "memory" /\ ~Ended => position <= Len(target.pieces) /\ Len(target.pieces) <= sizeMax
<1>1. sizeMax \in Nat /\ position \in 0..sizeMax /\ end \in 0..sizeMax
  BY SizesNat DEF SaverTypes
<1>2. position \in Nat /\ end \in Nat /\ position <= sizeMax /\ end <= sizeMax
  BY <1>1
<1>3. target.pieces \in Seq(Pieces) /\ buffer \in Seq(Pieces) /\ hashed \in Seq(Pieces)
  BY DEF SaverTypes
<1>4. /\ kind = "file" \/ kind = "memory"
      /\ kind = "memory" /\ ~Ended => position <= Len(target.pieces) /\ Len(target.pieces) <= sizeMax
  BY DEF SaverTypes
<1> QED
  BY <1>1, <1>2, <1>3, <1>4

\* What a write to the file leaves.
LEMMA WriteOutKeeps ==
    ASSUME SaverTypes, NEW s \in Seq(Pieces), NEW n \in 0..Len(s), WriteOut(s, n)
    PROVE  /\ target' \in [pieces : Seq(Pieces), hash : [of : {"nothing", "data"}, pieces : Seq(Pieces)]]
           /\ target'.hash = target.hash /\ target'.pieces = target.pieces \o SubSeq(s, 1, n)
           /\ buffer' \in Seq(Pieces)
           /\ All' = target.pieces \o s
           /\ n = Len(s) => buffer' = << >> /\ target'.pieces = target.pieces \o s
           /\ UNCHANGED memory
<1> DEFINE d == target.pieces
           u == SubSeq(s, 1, n)
           v == SubSeq(s, n + 1, Len(s))
<1>1. d \in Seq(Pieces)
  BY DEF SaverTypes
<1>2. target' = [target EXCEPT !.pieces = d \o u] /\ buffer' = v /\ UNCHANGED memory
  BY DEF WriteOut
<1>3. target \in [pieces : Seq(Pieces), hash : [of : {"nothing", "data"}, pieces : Seq(Pieces)]]
  BY DEF SaverTypes
<1> HIDE DEF d, u, v
<1>4. /\ v \in Seq(Pieces) /\ d \o u \in Seq(Pieces) /\ (d \o u) \o v = d \o s
      /\ n = Len(s) => v = << >> /\ d \o u = d \o s
  BY <1>1, SplitKeeps DEF u, v
<1>5. target'.pieces = d \o u /\ target'.hash = target.hash
  BY <1>2, <1>3
<1>6. target' \in [pieces : Seq(Pieces), hash : [of : {"nothing", "data"}, pieces : Seq(Pieces)]]
  BY <1>2, <1>3, <1>4
<1>7. All' = d \o s
  BY <1>2, <1>4, <1>5 DEF All
<1> QED
  BY <1>2, <1>4, <1>5, <1>6, <1>7 DEF d, u

\* The steps that do not end the save leave the claims about its end as they are.
LEMMA NotEnded ==
    ASSUME saver' \in {"start", "open", "blocks", "hash", "patch", "resize", "unwind"},
           fault = "none", fault' = "none"
    PROVE  ~Ended' /\ LeftInv' /\ (fault' # "none" => Ended')
  BY DEF Ended, LeftInv

LEMMA Running == SaverInv /\ ~Ended => fault = "none"
  BY DEF SaverInv, FaultInv

LEMMA OpenKeeps == SaverInv /\ (Open \/ OpenFails) => SaverInv'
<1> SUFFICES ASSUME SaverInv, Open \/ OpenFails PROVE SaverInv'
  OBVIOUS
<1>1. saver = "start" /\ fault = "none"
  BY Running DEF Open, OpenFails, Ended
<1>2. << >> \in Seq(Pieces) /\ Empty \in [pieces : Seq(Pieces), hash : [of : {"nothing", "data"}, pieces : Seq(Pieces)]]
      /\ Empty.pieces = << >> /\ Empty.hash = NoHash /\ Len(<< >>) = 0
  BY DEF Empty, NoHash
<1>3. CASE Open
  <2>1. /\ target' = Empty /\ saver' = "open"
        /\ UNCHANGED <<kind, buffer, sizeMax, position, end, hashed, fault>>
    BY <1>3 DEF Open, memory
  <2>2. SaverTypes'
    <3>1. kind = "memory" => position = 0
      BY <1>1 DEF SaverInv, MemoryInv
    <3>2. kind' = "memory" /\ ~Ended' => position' <= Len(target'.pieces) /\ Len(target'.pieces) <= sizeMax'
      BY <1>2, <2>1, <3>1, Sorts DEF SaverInv
    <3>3. target' \in [pieces : Seq(Pieces), hash : [of : {"nothing", "data"}, pieces : Seq(Pieces)]]
      BY <1>2, <2>1
    <3> QED
      BY <2>1, <3>2, <3>3 DEF SaverInv, SaverTypes
  <2>3. HashedInv'
    BY <1>1, <2>1 DEF SaverInv, HashedInv
  <2>4. FileInv'
    BY <1>1, <2>1 DEF SaverInv, FileInv
  <2>5. MemoryInv'
    BY <1>1, <1>2, <2>1 DEF SaverInv, MemoryInv
  <2>6. LeftInv' /\ (fault' # "none" => Ended')
    BY <1>1, <2>1, NotEnded
  <2>7. FaultInv'
    BY <1>1, <1>2, <2>1, <2>6 DEF FaultInv
  <2> QED
    BY <2>2, <2>3, <2>4, <2>5, <2>6, <2>7 DEF SaverInv
<1>4. CASE OpenFails
  <2>1. /\ saver' = "threw" /\ kind = "file"
        /\ UNCHANGED <<kind, target, buffer, sizeMax, position, end, hashed, fault>>
    BY <1>4 DEF OpenFails, stream, memory
  <2>2. SaverTypes'
    BY <2>1 DEF SaverInv, SaverTypes, Ended
  <2>3. HashedInv' /\ FileInv' /\ MemoryInv'
    BY <2>1 DEF SaverInv, HashedInv, FileInv, MemoryInv
  <2>4. LeftInv'
    <3>1. target = Empty \/ target = SavedFile("old")
      BY <1>1, <2>1 DEF SaverInv, FileInv
    <3>2. Begins(<< >>)
      BY Counts DEF Begins
    <3> QED
      BY <1>1, <1>2, <2>1, <3>1, <3>2 DEF LeftInv
  <2>5. FaultInv'
    BY <1>1, <2>1 DEF SaverInv, FaultInv, Ended
  <2> QED
    BY <2>2, <2>3, <2>4, <2>5 DEF SaverInv
<1> QED
  BY <1>3, <1>4

\* Put, of the next piece of the stream.
LEMMA PutKeeps ==
    ASSUME SaverInv, saver \in {"open", "blocks"}, saver' \in {"open", "blocks"} \ {"open"},
           NEW p \in Pieces, NEW n \in 0..N, p = W[n + 1],
           n = 0 => saver = "open", n > 0 => saver = "blocks" /\ Len(hashed) + 1 = n,
           Put(p), HasRoom, UNCHANGED <<kind, fault>>,
           hashed' \in Seq(Pieces), Len(hashed') = n,
           \A i \in 1..n : hashed'[i] = Object("new")[i]
    PROVE  SaverInv'
<1>1. fault = "none" /\ fault' = "none" /\ saver' = "blocks" /\ ~Ended /\ ~Ended'
  BY Running DEF Ended
<1>2. HashedInv'
  BY <1>1 DEF HashedInv
<1>3. CASE kind = "file"
  <2>1. Begins(All) /\ Len(All) = n /\ target.hash = NoHash /\ All \in Seq(Pieces)
    <3>1. target.pieces \in Seq(Pieces) /\ buffer \in Seq(Pieces)
      BY DEF SaverInv, SaverTypes
    <3>2. All \in Seq(Pieces)
      BY <3>1, ConcatProperties DEF All
    <3>3. CASE saver = "open"
      <4>1. target.pieces = << >> /\ buffer = << >> /\ target.hash = NoHash /\ n = 0
        BY <1>3, <3>3 DEF SaverInv, FileInv, Empty
      <4>2. All = << >>
        BY <4>1 DEF All
      <4> QED
        BY <3>2, <4>1, <4>2, Counts DEF Begins
    <3>4. CASE saver = "blocks"
      BY <1>3, <3>2, <3>4 DEF SaverInv, FileInv
    <3> QED
      BY <3>3, <3>4
  <2>2. PICK k \in 0..Len(Append(buffer, p)) : WriteOut(Append(buffer, p), k)
    BY <1>3 DEF Put, PutFile
  <2>3. /\ Append(buffer, p) \in Seq(Pieces)
        /\ target.pieces \o Append(buffer, p) = Append(All, p)
    <3>1. target.pieces \in Seq(Pieces) /\ buffer \in Seq(Pieces)
      BY Sorts DEF SaverInv
    <3> QED
      BY <3>1, AppendToAll DEF All
  <2>4. /\ target' \in [pieces : Seq(Pieces), hash : [of : {"nothing", "data"}, pieces : Seq(Pieces)]]
        /\ target'.hash = target.hash /\ buffer' \in Seq(Pieces)
        /\ All' = Append(All, p) /\ UNCHANGED memory
    BY <2>2, <2>3, WriteOutKeeps DEF SaverInv
  <2>5. Begins(All)' /\ Len(All') = n + 1
    <3>1. Begins(Append(All, p)) /\ Len(Append(All, p)) = n + 1
      BY <2>1, BeginsNext, Counts
    <3> QED
      BY <2>4, <3>1 DEF Begins
  <2>6. SaverTypes'
    BY <1>1, <1>3, <2>4 DEF SaverInv, SaverTypes, memory
  <2>7. FileInv'
    BY <1>1, <2>1, <2>4, <2>5 DEF FileInv
  <2>8. MemoryInv'
    BY <1>3 DEF MemoryInv
  <2>9. FaultInv' /\ LeftInv'
    BY <1>1, <2>1, <2>4 DEF FaultInv, LeftInv
  <2> QED
    BY <1>2, <2>6, <2>7, <2>8, <2>9 DEF SaverInv
<1>4. CASE kind # "file"
  <2>1. /\ kind = "memory" /\ target.hash = NoHash /\ position = n
        /\ \A i \in 1..n : target.pieces[i] = W[i]
    <3>1. CASE saver = "open"
      <4>1. kind = "memory" /\ n = 0 /\ target = Empty /\ position = 0
        BY <1>4, <3>1, Sorts DEF SaverInv, MemoryInv
      <4> QED
        BY <4>1 DEF Empty
    <3>2. CASE saver = "blocks"
      <4>1. kind = "memory" /\ Len(hashed) + 1 = n
        BY <1>4, <3>2, Sorts DEF SaverInv
      <4> QED
        BY <3>2, <4>1 DEF SaverInv, MemoryInv
    <3> QED
      BY <3>1, <3>2
  <2>2. /\ target.pieces \in Seq(Pieces) /\ position \in Nat /\ sizeMax \in Nat
        /\ position <= Len(target.pieces) /\ Len(target.pieces) <= sizeMax
        /\ Fits(position, 1, sizeMax)
    BY <1>1, <2>1, SizesNat DEF SaverInv, SaverTypes, HasRoom
  <2> DEFINE r == Written(target.pieces, position, p, sizeMax)
  <2>3. /\ target' = [target EXCEPT !.pieces = r] /\ position' = position + 1
        /\ UNCHANGED <<buffer, sizeMax, end>>
    BY <1>4 DEF Put, PutMemory
  <2>4. /\ r \in Seq(Pieces) /\ position + 1 <= Len(r) /\ Len(r) <= sizeMax
        /\ r[position + 1] = p /\ \A i \in 1..position : r[i] = target.pieces[i]
    BY <2>2, WrittenIs
  <2> HIDE DEF r
  <2>5. /\ target' \in [pieces : Seq(Pieces), hash : [of : {"nothing", "data"}, pieces : Seq(Pieces)]]
        /\ target'.pieces = r /\ target'.hash = target.hash
    BY <2>3, <2>4 DEF SaverInv, SaverTypes
  <2>6. SaverTypes'
    <3>1. position' \in 0..sizeMax
      BY <2>2, <2>3, <2>4
    <3> QED
      BY <1>1, <2>1, <2>3, <2>4, <2>5, <3>1 DEF SaverInv, SaverTypes
  <2>7. FileInv'
    BY <1>4 DEF FileInv
  <2>8. MemoryInv'
    <3>1. \A i \in 1..(n + 1) : r[i] = W[i]
      <4> TAKE i \in 1..(n + 1)
      <4>1. i \in 1..n \/ i = n + 1
        OBVIOUS
      <4> QED
        BY <2>1, <2>4, <4>1
    <3> QED
      BY <1>1, <2>1, <2>3, <2>4, <2>5, <3>1 DEF MemoryInv
  <2>9. FaultInv' /\ LeftInv'
    BY <1>1, <2>1, <2>5 DEF FaultInv, LeftInv
  <2> QED
    BY <1>2, <2>6, <2>7, <2>8, <2>9 DEF SaverInv
<1> QED
  BY <1>3, <1>4

LEMMA WriteHeaderKeeps == SaverInv /\ WriteHeader => SaverInv'
<1> SUFFICES ASSUME SaverInv, WriteHeader PROVE SaverInv'
  OBVIOUS
<1>1. /\ saver = "open" /\ HasRoom /\ Put(Header) /\ saver' = "blocks"
      /\ UNCHANGED <<kind, hashed, fault>>
  BY DEF WriteHeader
<1>2. hashed = << >> /\ hashed' = << >> /\ << >> \in Seq(Pieces) /\ Len(<< >>) = 0
  BY <1>1 DEF SaverInv, HashedInv
<1>3. Header \in Pieces /\ Header = W[0 + 1] /\ 0 \in 0..N
  BY Counts, WIs, WholeIs
<1>4. hashed' \in Seq(Pieces) /\ Len(hashed') = 0 /\ \A i \in 1..0 : hashed'[i] = Object("new")[i]
  BY <1>2
<1> QED
  BY <1>1, <1>3, <1>4, PutKeeps

LEMMA WriteBlockKeeps == SaverInv /\ WriteBlock => SaverInv'
<1> SUFFICES ASSUME SaverInv, WriteBlock PROVE SaverInv'
  OBVIOUS
<1> DEFINE n == Len(hashed) + 1
           p == Object("new")[n]
<1>1. /\ saver = "blocks" /\ Len(hashed) < N /\ HasRoom
      /\ Put(p) /\ hashed' = Append(hashed, p) /\ saver' = "blocks"
      /\ UNCHANGED <<kind, fault>>
  BY DEF WriteBlock, N
<1>2. hashed \in Seq(Pieces) /\ Len(hashed) \in Nat
  BY Sorts DEF SaverInv
<1>3. n \in 1..N /\ n \in 0..N /\ n > 0
  BY <1>1, <1>2, Counts
<1>4. p \in Pieces /\ p = W[n + 1]
  <2>1. Object("new") \in Seq(Pieces) /\ Len(Object("new")) = N
    BY ObjectIs DEF N
  <2> QED
    BY <1>3, <2>1, WIs
<1>5. hashed' \in Seq(Pieces) /\ Len(hashed') = n /\ \A i \in 1..n : hashed'[i] = Object("new")[i]
  <2>1. /\ Append(hashed, p) \in Seq(Pieces) /\ Len(Append(hashed, p)) = n
        /\ \A i \in 1..Len(hashed) : Append(hashed, p)[i] = hashed[i]
        /\ Append(hashed, p)[n] = p
    BY <1>2, <1>4, AppendProperties
  <2>2. \A i \in 1..Len(hashed) : hashed[i] = Object("new")[i]
    BY DEF SaverInv, HashedInv
  <2>3. \A i \in 1..n : i \in 1..Len(hashed) \/ i = n
    BY <1>2
  <2> QED
    BY <1>1, <2>1, <2>2, <2>3
<1> HIDE DEF n, p
<1>6. Len(hashed) + 1 = n
  BY DEF n
<1> QED
  BY <1>1, <1>3, <1>4, <1>5, <1>6, PutKeeps

\* The steps that only move the save on.
LEMMA StopKeeps == SaverInv /\ (FinishBlocks \/ LengthError \/ ObjectThrows) => SaverInv'
<1> SUFFICES ASSUME SaverInv, FinishBlocks \/ LengthError \/ ObjectThrows PROVE SaverInv'
  OBVIOUS
<1>1. UNCHANGED <<kind, target, buffer, sizeMax, position, end, hashed, fault>>
  BY DEF FinishBlocks, LengthError, ObjectThrows, stream, memory
<1>2. /\ saver \in {"open", "blocks"}
      /\ \/ saver = "blocks" /\ saver' = "hash" /\ Len(hashed) = N
         \/ saver' = "unwind" /\ (kind = "file" => saver = "blocks")
  BY DEF FinishBlocks, LengthError, ObjectThrows, HasRoom, N
<1>3. ~Ended /\ ~Ended' /\ fault = "none" /\ saver # "returned" /\ saver # "resize"
  BY <1>2, Running DEF Ended
<1>4. SaverTypes'
  BY <1>1, <1>2, <1>3 DEF SaverInv, SaverTypes
<1>5. HashedInv'
  BY <1>1, <1>2 DEF SaverInv, HashedInv
<1>6. FileInv'
  BY <1>1, <1>2 DEF SaverInv, FileInv, All, Begins
<1>7. MemoryInv'
  BY <1>1, <1>2 DEF SaverInv, MemoryInv
<1>8. LeftInv'
  BY <1>3 DEF LeftInv
<1>9. FaultInv'
  BY <1>1, <1>3 DEF SaverInv, FaultInv
<1> QED
  BY <1>4, <1>5, <1>6, <1>7, <1>8, <1>9 DEF SaverInv

\* What the file will hold, as long as the save runs.
LEMMA RunningFile ==
    ASSUME SaverInv, kind = "file", saver \in {"open", "blocks", "hash", "patch", "unwind"}
    PROVE  /\ target.pieces \in Seq(Pieces) /\ buffer \in Seq(Pieces) /\ All \in Seq(Pieces)
           /\ Begins(All) /\ target.hash = NoHash /\ fault = "none" /\ ~Ended
<1>1. ~Ended /\ fault = "none"
  BY Running DEF Ended
<1>2. target.pieces \in Seq(Pieces) /\ buffer \in Seq(Pieces)
  BY Sorts DEF SaverInv
<1>3. All \in Seq(Pieces)
  BY <1>2, ConcatProperties DEF All
<1>4. CASE saver = "open"
  <2>1. target.pieces = << >> /\ buffer = << >> /\ target.hash = NoHash
    BY <1>4 DEF SaverInv, FileInv, Empty
  <2>2. All = << >>
    BY <2>1 DEF All
  <2>3. Begins(All)
    BY <2>2, Counts DEF Begins
  <2> QED
    BY <1>1, <1>2, <1>3, <2>1, <2>3
<1>5. CASE saver # "open"
  BY <1>1, <1>2, <1>3, <1>5 DEF SaverInv, FileInv
<1> QED
  BY <1>4, <1>5

LEMMA StreamFailsKeeps == SaverInv /\ StreamFails => SaverInv'
<1> SUFFICES ASSUME SaverInv, StreamFails PROVE SaverInv'
  OBVIOUS
<1>1. /\ kind = "file" /\ saver \in {"open", "blocks", "hash"} /\ saver' = "unwind"
      /\ UNCHANGED <<kind, hashed, fault>>
  BY DEF StreamFails
<1>2. PICK n \in 0..Len(buffer) : WriteOut(buffer, n)
  BY DEF StreamFails
<1>3. /\ buffer \in Seq(Pieces) /\ Begins(All) /\ target.hash = NoHash /\ fault = "none" /\ ~Ended
      /\ ~Ended' /\ fault' = "none"
  BY <1>1, RunningFile DEF Ended
<1>4. /\ target' \in [pieces : Seq(Pieces), hash : [of : {"nothing", "data"}, pieces : Seq(Pieces)]]
      /\ target'.hash = target.hash /\ buffer' \in Seq(Pieces)
      /\ All' = All /\ UNCHANGED memory
  BY <1>2, <1>3, WriteOutKeeps DEF SaverInv, All
<1>5. SaverTypes'
  BY <1>1, <1>4 DEF SaverInv, SaverTypes, memory
<1>6. HashedInv'
  BY <1>1 DEF SaverInv, HashedInv
<1>7. FileInv'
  BY <1>1, <1>3, <1>4 DEF FileInv, Begins
<1>8. MemoryInv' /\ LeftInv'
  BY <1>1, <1>3 DEF MemoryInv, LeftInv
<1>9. FaultInv'
  BY <1>3, <1>4 DEF FaultInv
<1> QED
  BY <1>5, <1>6, <1>7, <1>8, <1>9 DEF SaverInv

LEMMA SeekFileKeeps == SaverInv /\ SeekFile => SaverInv'
<1> SUFFICES ASSUME SaverInv, SeekFile PROVE SaverInv'
  OBVIOUS
<1>1. /\ kind = "file" /\ saver = "hash" /\ saver' = "patch" /\ WriteOut(buffer, Len(buffer))
      /\ UNCHANGED <<kind, hashed, fault>>
  BY DEF SeekFile
<1>2. /\ buffer \in Seq(Pieces) /\ Begins(All) /\ target.hash = NoHash /\ fault = "none" /\ ~Ended
      /\ ~Ended' /\ fault' = "none"
  BY <1>1, RunningFile DEF Ended
<1>3. Len(buffer) \in 0..Len(buffer)
  BY <1>2
<1>4. /\ target' \in [pieces : Seq(Pieces), hash : [of : {"nothing", "data"}, pieces : Seq(Pieces)]]
      /\ target'.hash = target.hash /\ buffer' \in Seq(Pieces) /\ buffer' = << >>
      /\ All' = All /\ UNCHANGED memory
  BY <1>1, <1>2, <1>3, WriteOutKeeps DEF SaverInv, All
<1>5. SaverTypes'
  BY <1>1, <1>4 DEF SaverInv, SaverTypes, memory
<1>6. HashedInv'
  BY <1>1 DEF SaverInv, HashedInv
<1>7. FileInv'
  <2>1. Len(All) = Len(hashed) + 1
    BY <1>1 DEF SaverInv, FileInv
  <2> QED
    BY <1>1, <1>2, <1>4, <2>1 DEF FileInv, Begins
<1>8. MemoryInv' /\ LeftInv'
  BY <1>1, <1>2 DEF MemoryInv, LeftInv
<1>9. FaultInv'
  BY <1>2, <1>4 DEF FaultInv
<1> QED
  BY <1>5, <1>6, <1>7, <1>8, <1>9 DEF SaverInv

\* When all blocks have been hashed, the checksum is the one of the object.
LEMMA HashedAll ==
    ASSUME SaverInv, Len(hashed) = N
    PROVE  hashed = Object("new")
<1>1. hashed \in Seq(Pieces) /\ \A i \in 1..Len(hashed) : hashed[i] = Object("new")[i]
  BY Sorts DEF SaverInv, HashedInv
<1>2. Object("new") \in Seq(Pieces) /\ Len(Object("new")) = N
  BY ObjectIs DEF N
<1> QED
  BY <1>1, <1>2, SeqEqual

LEMMA CloseFileKeeps == SaverInv /\ CloseFile => SaverInv'
<1> SUFFICES ASSUME SaverInv, CloseFile PROVE SaverInv'
  OBVIOUS
<1>1. /\ kind = "file" /\ saver = "patch" /\ saver' = "returned" /\ buffer' = << >>
      /\ \/ target' = [target EXCEPT !.hash = Digest(hashed)] /\ fault' = fault
         \/ fault' = "checksum lost" /\ target' = target
      /\ UNCHANGED <<kind, sizeMax, position, end, hashed>>
  BY DEF CloseFile, memory
<1>2. /\ target.pieces \in Seq(Pieces) /\ buffer \in Seq(Pieces) /\ Begins(All)
      /\ target.hash = NoHash /\ fault = "none"
  BY <1>1, RunningFile
<1>3. buffer = << >> /\ Len(All) = Len(hashed) + 1 /\ Len(hashed) = N
  BY <1>1 DEF SaverInv, FileInv, HashedInv
<1>4. target.pieces = W
  <2>1. All = target.pieces
    BY <1>2, <1>3 DEF All
  <2> QED
    BY <1>2, <1>3, <2>1, BeginsAll
<1>5. hashed = Object("new") /\ Object("new") \in Seq(Pieces)
  BY <1>3, HashedAll, ObjectIs
<1>6. Digest(hashed) \in [of : {"nothing", "data"}, pieces : Seq(Pieces)]
  BY <1>5 DEF Digest
<1>7. target \in [pieces : Seq(Pieces), hash : [of : {"nothing", "data"}, pieces : Seq(Pieces)]]
  BY DEF SaverInv, SaverTypes
<1>8. /\ target' \in [pieces : Seq(Pieces), hash : [of : {"nothing", "data"}, pieces : Seq(Pieces)]]
      /\ target'.pieces = W
      /\ \/ target'.hash = Digest(Object("new")) /\ fault' = "none"
         \/ target'.hash = NoHash /\ fault' = "checksum lost"
  BY <1>1, <1>2, <1>4, <1>5, <1>6, <1>7
<1>9. SaverTypes'
  <2>1. Ended'
    BY <1>1 DEF Ended
  <2>2. buffer' \in Seq(Pieces)
    BY <1>1, <1>2, <1>3
  <2> QED
    BY <1>1, <1>8, <2>1, <2>2 DEF SaverInv, SaverTypes
<1>10. HashedInv'
  BY <1>1, <1>3 DEF SaverInv, HashedInv
<1>11. FileInv' /\ MemoryInv'
  BY <1>1 DEF FileInv, MemoryInv
<1>12. LeftInv' /\ FaultInv'
  <2>1. Ended'
    BY <1>1 DEF Ended
  <2> QED
    BY <1>1, <1>8, <2>1 DEF LeftInv, FaultInv
<1> QED
  BY <1>9, <1>10, <1>11, <1>12 DEF SaverInv

LEMMA TellMemoryKeeps == SaverInv /\ TellMemory => SaverInv'
<1> SUFFICES ASSUME SaverInv, TellMemory PROVE SaverInv'
  OBVIOUS
<1>1. /\ kind = "memory" /\ saver = "hash" /\ end' = position /\ saver' = "patch"
      /\ UNCHANGED <<kind, target, buffer, sizeMax, position, hashed, fault>>
  BY DEF TellMemory
<1>2. ~Ended /\ ~Ended' /\ fault = "none"
  BY <1>1, Running DEF Ended
<1>3. SaverTypes'
  BY <1>1, <1>2 DEF SaverInv, SaverTypes
<1>4. HashedInv' /\ FileInv' /\ LeftInv' /\ FaultInv'
  BY <1>1, <1>2 DEF SaverInv, HashedInv, FileInv, LeftInv, FaultInv
<1>5. MemoryInv'
  BY <1>1 DEF SaverInv, MemoryInv
<1> QED
  BY <1>3, <1>4, <1>5 DEF SaverInv

LEMMA PatchMemoryKeeps == SaverInv /\ PatchMemory => SaverInv'
<1> SUFFICES ASSUME SaverInv, PatchMemory PROVE SaverInv'
  OBVIOUS
<1>1. /\ kind = "memory" /\ saver = "patch" /\ saver' = "resize"
      /\ target' = [target EXCEPT !.hash = Digest(hashed)] /\ position' = 1
      /\ UNCHANGED <<kind, buffer, sizeMax, end, hashed, fault>>
  BY DEF PatchMemory
<1>2. ~Ended /\ ~Ended' /\ fault = "none"
  BY <1>1, Running DEF Ended
<1>3. /\ Len(hashed) = N /\ Len(hashed) + 1 <= Len(target.pieces)
      /\ \A i \in 1..(Len(hashed) + 1) : target.pieces[i] = W[i]
      /\ end = Len(hashed) + 1
  BY <1>1 DEF SaverInv, HashedInv, MemoryInv
<1>4. hashed = Object("new") /\ Digest(hashed) \in [of : {"nothing", "data"}, pieces : Seq(Pieces)]
  BY <1>3, HashedAll, ObjectIs DEF Digest
<1>5. target \in [pieces : Seq(Pieces), hash : [of : {"nothing", "data"}, pieces : Seq(Pieces)]]
  BY DEF SaverInv, SaverTypes
<1>6. /\ target' \in [pieces : Seq(Pieces), hash : [of : {"nothing", "data"}, pieces : Seq(Pieces)]]
      /\ target'.pieces = target.pieces /\ target'.hash = Digest(hashed)
  BY <1>1, <1>4, <1>5
<1>7. SaverTypes'
  <2>1. /\ sizeMax \in Nat /\ Len(target.pieces) \in Nat /\ Len(target.pieces) <= sizeMax
        /\ 1 <= Len(target.pieces)
    BY <1>1, <1>2, <1>3, Sorts, Counts DEF SaverInv
  <2>2. position' \in 0..sizeMax /\ position' <= Len(target.pieces)
    BY <1>1, <2>1
  <2> QED
    BY <1>1, <1>2, <1>6, <2>1, <2>2 DEF SaverInv, SaverTypes
<1>8. HashedInv'
  BY <1>1 DEF SaverInv, HashedInv
<1>9. FileInv' /\ LeftInv'
  BY <1>1, <1>2 DEF FileInv, LeftInv
<1>10. FaultInv'
  BY <1>1, <1>2, <1>4, <1>6 DEF FaultInv
<1>11. MemoryInv'
  BY <1>1, <1>3, <1>6 DEF MemoryInv
<1> QED
  BY <1>7, <1>8, <1>9, <1>10, <1>11 DEF SaverInv

LEMMA ResizeMemoryKeeps == SaverInv /\ ResizeMemory => SaverInv'
<1> SUFFICES ASSUME SaverInv, ResizeMemory PROVE SaverInv'
  OBVIOUS
<1>1. /\ saver = "resize" /\ UNCHANGED <<kind, buffer, sizeMax, end, hashed, fault>>
      /\ IF end > Len(target.pieces)
           THEN saver' = "unwind" /\ UNCHANGED <<target, position>>
           ELSE /\ position' = end
                /\ target' = [target EXCEPT !.pieces = Resized(@, end)]
                /\ saver' = "returned"
  BY DEF ResizeMemory
<1>2. ~Ended /\ fault = "none" /\ kind = "memory"
  BY <1>1, Running, Sorts DEF Ended, SaverInv, FileInv
<1>3. /\ Len(hashed) = N /\ N + 1 <= Len(target.pieces) /\ end = N + 1
      /\ \A i \in 1..(N + 1) : target.pieces[i] = W[i]
      /\ target.hash = Digest(hashed)
  BY <1>1, <1>2 DEF SaverInv, HashedInv, MemoryInv
<1>4. hashed = Object("new")
  BY <1>3, HashedAll
<1> DEFINE r == Resized(target.pieces, end)
<1>5. target.pieces \in Seq(Pieces) /\ Len(target.pieces) \in Nat /\ end \in Nat
  BY Sorts DEF SaverInv
<1>6. ~(end > Len(target.pieces))
  BY <1>3, <1>5
<1>7. target' = [target EXCEPT !.pieces = r] /\ position' = end /\ saver' = "returned"
  BY <1>1, <1>6
<1>8. r \in Seq(Pieces) /\ r = W
  <2>1. r \in Seq(Pieces) /\ Len(r) = end /\ \A i \in 1..end : i <= Len(target.pieces) => r[i] = target.pieces[i]
    BY <1>5, ResizedIs
  <2> HIDE DEF r
  <2>2. \A i \in 1..end : i <= Len(target.pieces)
    BY <1>3, <1>5
  <2>3. Len(r) = N + 1 /\ \A i \in 1..(N + 1) : r[i] = W[i]
    BY <1>3, <2>1, <2>2
  <2>4. Begins(r)
    BY <2>3, Counts DEF Begins
  <2> QED
    BY <2>1, <2>3, <2>4, BeginsAll
<1> HIDE DEF r
<1>9. target \in [pieces : Seq(Pieces), hash : [of : {"nothing", "data"}, pieces : Seq(Pieces)]]
  BY DEF SaverInv, SaverTypes
<1>10. /\ target' \in [pieces : Seq(Pieces), hash : [of : {"nothing", "data"}, pieces : Seq(Pieces)]]
       /\ target'.pieces = W /\ target'.hash = Digest(Object("new"))
  BY <1>3, <1>4, <1>7, <1>8, <1>9
<1>11. Ended' /\ fault' = "none"
  BY <1>1, <1>2, <1>7 DEF Ended
<1>12. SaverTypes'
  BY <1>1, <1>7, <1>10, <1>11 DEF SaverInv, SaverTypes
<1>13. HashedInv'
  BY <1>1, <1>3, <1>7 DEF SaverInv, HashedInv
<1>14. FileInv' /\ MemoryInv'
  BY <1>1, <1>2, <1>7, <1>10 DEF FileInv, MemoryInv
<1>15. LeftInv' /\ FaultInv'
  BY <1>7, <1>10, <1>11 DEF LeftInv, FaultInv
<1> QED
  BY <1>12, <1>13, <1>14, <1>15 DEF SaverInv

LEMMA FirstBegins ==
    ASSUME NEW s \in Seq(Pieces), NEW t \in Seq(Pieces), Begins(s \o t)
    PROVE  Begins(s)
<1>1. 0 \in 0..Len(t) /\ Begins(s \o SubSeq(t, 1, 0))
  <2>1. 0 \in 0..Len(t)
    OBVIOUS
  <2> QED
    BY <2>1, BeginsFront
<1>2. SubSeq(t, 1, 0) = << >>
  BY SubSeqEmpty
<1> QED
  BY <1>1, <1>2, ConcatEmptySeq

LEMMA EmptyIs ==
    /\ Empty \in [pieces : Seq(Pieces), hash : [of : {"nothing", "data"}, pieces : Seq(Pieces)]]
    /\ Empty.pieces = << >> /\ Empty.hash = NoHash /\ << >> \in Seq(Pieces) /\ Begins(<< >>)
<1>1. << >> \in Seq(Pieces) /\ Begins(<< >>)
  BY Counts DEF Begins
<1> QED
  BY <1>1 DEF Empty, NoHash

LEMMA UnwindKeeps == SaverInv /\ Unwind => SaverInv'
<1> SUFFICES ASSUME SaverInv, Unwind PROVE SaverInv'
  OBVIOUS
<1>1. /\ saver = "unwind" /\ buffer' = << >> /\ saver' = "threw"
      /\ UNCHANGED <<kind, sizeMax, position, end, hashed, fault>>
  BY DEF Unwind, memory
<1>2. ~Ended /\ Ended' /\ fault = "none"
  BY <1>1, Running DEF Ended
<1>3. /\ target' \in [pieces : Seq(Pieces), hash : [of : {"nothing", "data"}, pieces : Seq(Pieces)]]
      /\ target'.hash = NoHash /\ Begins(target'.pieces)
  <2>1. CASE kind = "file"
    <3>1. PICK n \in 0..Len(buffer) : target' = [target EXCEPT !.pieces = target.pieces \o SubSeq(buffer, 1, n)]
      BY <2>1 DEF Unwind
    <3>2. /\ target.pieces \in Seq(Pieces) /\ buffer \in Seq(Pieces) /\ Begins(All) /\ target.hash = NoHash
      BY <1>1, <2>1, RunningFile
    <3> DEFINE s == target.pieces \o SubSeq(buffer, 1, n)
    <3>3. s \in Seq(Pieces) /\ Begins(s)
      BY <3>2, BeginsFront DEF All
    <3> HIDE DEF s
    <3>4. target \in [pieces : Seq(Pieces), hash : [of : {"nothing", "data"}, pieces : Seq(Pieces)]]
      BY DEF SaverInv, SaverTypes
    <3>5. target' = [target EXCEPT !.pieces = s]
      BY <3>1 DEF s
    <3>6. /\ target' \in [pieces : Seq(Pieces), hash : [of : {"nothing", "data"}, pieces : Seq(Pieces)]]
          /\ target'.hash = target.hash /\ target'.pieces = s
      BY <3>3, <3>4, <3>5
    <3> QED
      BY <3>2, <3>3, <3>6
  <2>2. CASE kind # "file"
    <3>1. target' = Empty
      BY <2>2 DEF Unwind
    <3> QED
      BY <3>1, EmptyIs
  <2> QED
    BY <2>1, <2>2
<1>4. SaverTypes'
  <2>1. buffer' \in Seq(Pieces)
    BY <1>1, EmptyIs
  <2> QED
    BY <1>1, <1>2, <1>3, <2>1 DEF SaverInv, SaverTypes
<1>5. HashedInv'
  BY <1>1 DEF SaverInv, HashedInv
<1>6. FileInv' /\ MemoryInv'
  BY <1>1, <1>3 DEF FileInv, MemoryInv
<1>7. LeftInv' /\ FaultInv'
  BY <1>1, <1>2, <1>3 DEF LeftInv, FaultInv
<1> QED
  BY <1>4, <1>5, <1>6, <1>7 DEF SaverInv

LEMMA CrashKeeps == SaverInv /\ Crash => SaverInv'
<1> SUFFICES ASSUME SaverInv, Crash PROVE SaverInv'
  OBVIOUS
<1>1. /\ kind = "file" /\ saver \in {"open", "blocks", "hash", "patch", "unwind"}
      /\ buffer' = << >> /\ saver' = "crashed"
      /\ UNCHANGED <<kind, target, sizeMax, position, end, hashed, fault>>
  BY DEF Crash, memory
<1>2. /\ target.pieces \in Seq(Pieces) /\ buffer \in Seq(Pieces) /\ Begins(All)
      /\ target.hash = NoHash /\ fault = "none" /\ Ended'
  BY <1>1, RunningFile DEF Ended
<1>3. Begins(target.pieces)
  BY <1>2, FirstBegins DEF All
<1>4. SaverTypes'
  <2>1. buffer' \in Seq(Pieces)
    BY <1>1, EmptyIs
  <2> QED
    BY <1>1, <1>2, <2>1 DEF SaverInv, SaverTypes
<1>5. HashedInv'
  BY <1>1 DEF SaverInv, HashedInv
<1>6. FileInv' /\ MemoryInv'
  BY <1>1 DEF FileInv, MemoryInv
<1>7. LeftInv' /\ FaultInv'
  BY <1>1, <1>2, <1>3 DEF LeftInv, FaultInv, Begins
<1> QED
  BY <1>4, <1>5, <1>6, <1>7 DEF SaverInv

LEMMA SaveStepKeeps == SaverInv /\ SaveStep => SaverInv'
  BY OpenKeeps, WriteHeaderKeeps, WriteBlockKeeps, StopKeeps, StreamFailsKeeps, SeekFileKeeps,
     CloseFileKeeps, TellMemoryKeeps, PatchMemoryKeeps, ResizeMemoryKeeps, UnwindKeeps, CrashKeeps
     DEF SaveStep

--------------------------------------------------------------------------------
(* Damage *)

\* What a save leaves is not damaged yet.
LEMMA LeftIntact ==
    ASSUME SaverInv, Ended, fault # "damaged"
    PROVE  \A i \in 1..Len(target.pieces) : target.pieces[i] # Damaged
<1>1. target.pieces = W \/ target = SavedFile("old") \/ Begins(target.pieces)
  BY DEF SaverInv, LeftInv
<1>2. CASE target.pieces = W
  BY <1>2, WIs
<1>3. CASE target = SavedFile("old")
  <2>1. target.pieces = Whole("old")
    BY <1>3 DEF SavedFile
  <2> QED
    BY <2>1, WholeIs
<1>4. CASE Begins(target.pieces)
  <2>1. Len(target.pieces) \in Nat
    BY Sorts DEF SaverInv
  <2>2. \A i \in 1..Len(target.pieces) : i \in 1..(N + 1)
    BY <1>4, <2>1, Counts DEF Begins
  <2> QED
    BY <1>4, <2>2, WIs DEF Begins
<1> QED
  BY <1>1, <1>2, <1>3, <1>4

LEMMA DamageKeeps == SaverInv /\ Damage => SaverInv'
<1> SUFFICES ASSUME SaverInv, Damage PROVE SaverInv'
  OBVIOUS
<1> DEFINE d == target.pieces
<1>1. /\ Ended /\ fault # "damaged" /\ fault' = "damaged"
      /\ UNCHANGED <<kind, buffer, sizeMax, position, end, hashed, saver>>
  BY DEF Damage, memory
<1>2. PICK s \in {SubSeq(d, 1, n) : n \in 1..(Len(d) - 1)}
                \cup {[d EXCEPT ![i] = Damaged] : i \in 1..Len(d)} \cup {Append(d, Damaged)} :
        target' = [target EXCEPT !.pieces = s]
  BY DEF Damage
<1>3. d \in Seq(Pieces) /\ Len(d) \in Nat /\ \A i \in 1..Len(d) : d[i] # Damaged
  BY <1>1, Sorts, LeftIntact DEF SaverInv
<1>4. Damaged \in Pieces
  BY DEF Pieces
<1>5. target \in [pieces : Seq(Pieces), hash : [of : {"nothing", "data"}, pieces : Seq(Pieces)]]
  BY DEF SaverInv, SaverTypes
<1> HIDE DEF d
<1>6. /\ s \in Seq(Pieces)
      /\ \A i, j \in 1..Len(s) : s[i] = Damaged /\ s[j] = Damaged => i = j
  <2>1. ASSUME NEW n \in 1..(Len(d) - 1), s = SubSeq(d, 1, n)
        PROVE  s \in Seq(Pieces) /\ \A i \in 1..Len(s) : s[i] # Damaged
    <3>1. n \in Nat /\ n <= Len(d) /\ \A i \in 1..n : i \in 1..Len(d) /\ d[i] \in Pieces
      BY <1>3, <2>1
    <3>2. s \in Seq(Pieces) /\ Len(s) = n /\ \A i \in 1..n : s[i] = d[i]
      BY <2>1, <3>1, SubSeqProperties
    <3> QED
      BY <1>3, <3>1, <3>2
  <2>2. ASSUME NEW k \in 1..Len(d), s = [d EXCEPT ![k] = Damaged]
        PROVE  s \in Seq(Pieces) /\ \A i \in 1..Len(s) : s[i] = Damaged => i = k
    <3>1. /\ s \in Seq(Pieces) /\ Len(s) = Len(d)
          /\ \A j \in 1..Len(d) : s[j] = IF j = k THEN Damaged ELSE d[j]
      BY <1>3, <1>4, <2>2, ExceptSeq
    <3> QED
      BY <1>3, <3>1
  <2>3. ASSUME s = Append(d, Damaged)
        PROVE  s \in Seq(Pieces) /\ \A i \in 1..Len(s) : s[i] = Damaged => i = Len(d) + 1
    <3>1. /\ Append(d, Damaged) \in Seq(Pieces) /\ Len(Append(d, Damaged)) = Len(d) + 1
          /\ \A i \in 1..Len(d) : Append(d, Damaged)[i] = d[i]
      BY <1>3, <1>4, AppendProperties
    <3>2. \A i \in 1..(Len(d) + 1) : i \in 1..Len(d) \/ i = Len(d) + 1
      BY <1>3
    <3> QED
      BY <1>3, <2>3, <3>1, <3>2
  <2> QED
    BY <1>2, <2>1, <2>2, <2>3
<1>7. /\ target' \in [pieces : Seq(Pieces), hash : [of : {"nothing", "data"}, pieces : Seq(Pieces)]]
      /\ target'.pieces = s /\ target'.hash = target.hash
  BY <1>2, <1>5, <1>6
<1>8. Ended'
  BY <1>1 DEF Ended
<1>9. SaverTypes'
  BY <1>1, <1>7, <1>8 DEF SaverInv, SaverTypes
<1>10. HashedInv'
  BY <1>1 DEF SaverInv, HashedInv
<1>11. FileInv' /\ MemoryInv'
  <2>1. saver \in {"returned", "threw", "crashed"}
    BY <1>1 DEF Ended
  <2> QED
    BY <1>1, <1>7, <2>1 DEF SaverInv, FileInv, MemoryInv
<1>12. LeftInv'
  BY <1>1 DEF LeftInv
<1>13. FaultInv'
  BY <1>6, <1>7, <1>8 DEF SaverInv, FaultInv
<1> QED
  BY <1>9, <1>10, <1>11, <1>12, <1>13 DEF SaverInv

--------------------------------------------------------------------------------
(* The loader *)

LEMMA ReadIs ==
    ASSUME NEW b \in Seq(Pieces), NEW k \in 0..Len(b), NEW n \in Nat
    PROVE  LET l == IF n <= Len(b) - k THEN n ELSE Len(b) - k
           IN  /\ Read(b, k, n) \in Seq(Pieces) /\ Len(Read(b, k, n)) = l
               /\ \A i \in 1..l : Read(b, k, n)[i] = b[k + i]
<1> DEFINE l == IF n <= Len(b) - k THEN n ELSE Len(b) - k
<1>1. l \in Nat /\ k \in Nat /\ k + l <= Len(b) /\ Len(b) \in Nat
  OBVIOUS
<1>2. Read(b, k, n) = SubSeq(b, k + 1, k + l)
  BY DEF Read, Available
<1> HIDE DEF l
<1> DEFINE m == k + 1
           e == k + l
           u == SubSeq(b, m, e)
<1>3. m \in Int /\ e \in Int /\ \A i \in m..e : b[i] \in Pieces
  BY <1>1
<1> HIDE DEF m, e
<1>4. /\ u \in Seq(Pieces) /\ Len(u) = IF m <= e THEN e - m + 1 ELSE 0
      /\ \A i \in 1..(e - m + 1) : u[i] = b[m + i - 1]
  BY <1>3, SubSeqProperties
<1>5. Read(b, k, n) = u
  BY <1>2 DEF m, e
<1> HIDE DEF u
<1>6. e - m + 1 = l /\ Len(u) = l
  BY <1>1, <1>4 DEF m, e
<1>7. \A i \in 1..l : m + i - 1 = k + i
  BY <1>1 DEF m
<1> QED
  BY <1>4, <1>5, <1>6, <1>7 DEF l

\* A read changes nothing of what the save has left.
LEMMA SaverSame ==
    ASSUME SaverInv, UNCHANGED <<kind, stream, hashed, saver, fault>>
    PROVE  SaverInv' /\ (Ended' <=> Ended)
<1>1. UNCHANGED <<kind, target, buffer, sizeMax, position, end, hashed, saver, fault>>
  BY DEF stream, memory
<1>2. SaverTypes'
  BY <1>1 DEF SaverInv, SaverTypes, Ended
<1>3. HashedInv'
  BY <1>1 DEF SaverInv, HashedInv
<1>4. FileInv'
  BY <1>1 DEF SaverInv, FileInv, All, Begins
<1>5. MemoryInv'
  BY <1>1 DEF SaverInv, MemoryInv
<1>6. LeftInv'
  BY <1>1 DEF SaverInv, LeftInv, Ended, Begins
<1>7. FaultInv'
  BY <1>1 DEF SaverInv, FaultInv, Ended
<1> QED
  BY <1>1, <1>2, <1>3, <1>4, <1>5, <1>6, <1>7 DEF SaverInv, Ended

\* The header, from the beginning of the stream.
LEMMA HeaderReadIs ==
    ASSUME SaverInv, at = 0
    PROVE  \/ Len(target.pieces) = 0 /\ HeaderRead = << >>
           \/ Len(target.pieces) > 0 /\ HeaderRead = <<target.pieces[1]>> /\ Len(HeaderRead) = 1
<1> DEFINE d == target.pieces
           h == Read(d, 0, 1)
<1>1. d \in Seq(Pieces) /\ Len(d) \in Nat
  BY Sorts DEF SaverInv
<1> HIDE DEF d
<1>2. 0 \in 0..Len(d) /\ 1 \in Nat
  BY <1>1
<1>3. /\ Read(d, 0, 1) \in Seq(Pieces)
      /\ Len(Read(d, 0, 1)) = IF 1 <= Len(d) - 0 THEN 1 ELSE Len(d) - 0
      /\ \A i \in 1..(IF 1 <= Len(d) - 0 THEN 1 ELSE Len(d) - 0) : Read(d, 0, 1)[i] = d[0 + i]
  BY <1>1, <1>2, ReadIs
<1>4. HeaderRead = h
  BY DEF HeaderRead, d
<1> HIDE DEF h
<1>5. CASE Len(d) = 0
  <2>1. h \in Seq(Pieces) /\ Len(h) = 0
    BY <1>3, <1>5 DEF h
  <2> QED
    BY <1>4, <1>5, <2>1, EmptySeq DEF d
<1>6. CASE Len(d) # 0
  <2>1. h \in Seq(Pieces) /\ Len(h) = 1 /\ h[1] = d[1]
    <3>1. 1 <= Len(d) - 0 /\ 1 \in 1..1 /\ 0 + 1 = 1
      BY <1>1, <1>6
    <3> QED
      BY <1>3, <3>1 DEF h
  <2>2. h = <<d[1]>>
    BY <2>1
  <2> QED
    BY <1>1, <1>4, <1>6, <2>1, <2>2 DEF d
<1> QED
  BY <1>5, <1>6

\* What is left behind the header.
LEMMA RestIs ==
    ASSUME SaverInv, at = 1, Len(target.pieces) >= 1
    PROVE  /\ Rest \in Seq(Pieces) /\ Len(Rest) = Len(target.pieces) - 1
           /\ \A i \in 1..(Len(target.pieces) - 1) : Rest[i] = target.pieces[i + 1]
<1> DEFINE d == target.pieces
           n == Len(d)
<1>1. d \in Seq(Pieces) /\ n \in Nat /\ n >= 1
  BY Sorts DEF SaverInv
<1> HIDE DEF d
<1>2. 1 \in 0..Len(d)
  BY <1>1
<1>3. ~(n <= Len(d) - 1)
  BY <1>1
<1> HIDE DEF n
<1>4. /\ Read(d, 1, n) \in Seq(Pieces)
      /\ Len(Read(d, 1, n)) = IF n <= Len(d) - 1 THEN n ELSE Len(d) - 1
      /\ \A i \in 1..(IF n <= Len(d) - 1 THEN n ELSE Len(d) - 1) : Read(d, 1, n)[i] = d[1 + i]
  BY <1>1, <1>2, ReadIs
<1>5. Rest = Read(d, 1, n)
  BY DEF Rest, d, n
<1>6. \A i \in 1..(Len(d) - 1) : 1 + i = i + 1
  OBVIOUS
<1> QED
  BY <1>3, <1>4, <1>5, <1>6 DEF d

\* Whatever is behind a stream that is the new object's is that object.
LEMMA WholeRest ==
    ASSUME SaverInv, at = 1, target.pieces = W
    PROVE  /\ Rest = Object("new") /\ Holds("new") /\ ~Holds("old")
<1>1. /\ W \in Seq(Pieces) /\ Len(W) = N + 1 /\ N \in Nat /\ N > 0
      /\ \A i \in 1..N : W[i + 1] = Object("new")[i]
  BY WIs, Counts
<1>2. Object("new") \in Seq(Pieces) /\ Len(Object("new")) = N
  BY ObjectIs DEF N
<1>3. Rest = Object("new")
  <2>1. Len(target.pieces) >= 1 /\ Len(target.pieces) - 1 = N
    BY <1>1
  <2>2. Rest \in Seq(Pieces) /\ Len(Rest) = N /\ \A i \in 1..N : Rest[i] = W[i + 1]
    BY <2>1, RestIs
  <2> QED
    BY <1>1, <1>2, <2>2, SeqEqual
<1>4. 1 \in 0..Len(W)
  BY <1>1
<1>5. Holds("new")
  <2> DEFINE u == Read(W, 1, N)
  <2>1. /\ u \in Seq(Pieces) /\ Len(u) = IF N <= Len(W) - 1 THEN N ELSE Len(W) - 1
        /\ \A i \in 1..(IF N <= Len(W) - 1 THEN N ELSE Len(W) - 1) : u[i] = W[1 + i]
    BY <1>1, <1>4, ReadIs
  <2> HIDE DEF u
  <2>2. N <= Len(W) - 1 /\ \A i \in 1..N : 1 + i = i + 1
    BY <1>1
  <2>3. Len(u) = N /\ \A i \in 1..N : u[i] = Object("new")[i]
    BY <1>1, <2>1, <2>2
  <2>4. u = Object("new")
    BY <1>2, <2>1, <2>3, SeqEqual
  <2> QED
    BY <2>4 DEF Holds, u, N
<1>6. ~Holds("old")
  <2> DEFINE n == 2 * Blocks["old"]
             u == Read(W, 1, n)
             l == IF n <= Len(W) - 1 THEN n ELSE Len(W) - 1
  <2>1. n \in Nat /\ n > 0 /\ \A i \in 1..n : Object("old")[i] = [object |-> "old", part |-> i]
    BY ObjectIs
  <2> HIDE DEF n
  <2>2. Len(u) = l /\ \A i \in 1..l : u[i] = W[1 + i]
    BY <1>1, <1>4, <2>1, ReadIs
  <2> HIDE DEF u
  <2>3. 1 \in 1..l /\ 1 \in 1..n /\ 1 \in 1..N /\ 1 + 1 = 1 + 1
    BY <1>1, <2>1
  <2>4. u[1] = Object("new")[1]
    BY <1>1, <2>2, <2>3
  <2>5. Object("new")[1] = [object |-> "new", part |-> 1]
    BY <2>3, ObjectIs DEF N
  <2>6. u # Object("old")
    <3>1. Object("old")[1] = [object |-> "old", part |-> 1]
      BY <2>1, <2>3
    <3>2. [object |-> "old", part |-> 1] # [object |-> "new", part |-> 1]
      <4>1. [object |-> "old", part |-> 1].object = "old" /\ [object |-> "new", part |-> 1].object = "new"
        OBVIOUS
      <4> QED
        BY <4>1
    <3> QED
      BY <2>4, <2>5, <3>1, <3>2
  <2> QED
    BY <2>6 DEF Holds, u, n
<1> QED
  BY <1>3, <1>5, <1>6

LEMMA ReadHeaderKeeps == IInv /\ ReadHeader => IInv'
<1> SUFFICES ASSUME IInv, ReadHeader PROVE IInv'
  OBVIOUS
<1>1. /\ Ended /\ loader = "idle" /\ validate' \in BOOLEAN /\ at' = at + Len(HeaderRead)
      /\ stored' \in StoredHashes /\ loader' = (IF validate' THEN "validate" ELSE "decode")
      /\ UNCHANGED <<kind, stream, hashed, saver, result, fault>>
  BY DEF ReadHeader
<1>2. SaverInv /\ at = 0
  BY <1>1 DEF IInv, LoaderInv
<1>3. SaverInv' /\ Ended' /\ target' = target
  BY <1>1, <1>2, SaverSame DEF stream
<1>4. Len(target.pieces) > 0 /\ HeaderRead = <<target.pieces[1]>> /\ at' = 1
  <2>1. HeaderRead # << >>
    BY <1>1 DEF StoredHashes
  <2> QED
    BY <1>1, <1>2, <2>1, HeaderReadIs
<1>5. Len(target.pieces) \in Nat
  BY <1>2, Sorts DEF SaverInv
<1>6. /\ stored' \in {target.hash, NoHash, Digest(<<Damaged>>)}
      /\ stored' # target.hash => target.pieces[1] = Damaged
  BY <1>1, <1>4 DEF StoredHashes
<1>7. LoaderTypes'
  BY <1>1, <1>3, <1>4, <1>5 DEF IInv, LoaderTypes
<1>8. LoaderInv'
  BY <1>1, <1>3, <1>4, <1>5, <1>6 DEF LoaderInv
<1>9. ValidatedIsIntact' /\ SavedReadsBack'
  BY <1>1 DEF ValidatedIsIntact, SavedReadsBack
<1> QED
  BY <1>3, <1>7, <1>8, <1>9 DEF IInv

\* The new object's stream is in the file or the memory when a save has returned.
LEMMA ReturnedWhole ==
    ASSUME SaverInv, saver = "returned", fault # "damaged"
    PROVE  /\ target.pieces = W /\ target.pieces[1] = Header /\ Len(target.pieces) > 0
           /\ Header # Damaged
           /\ target.hash = IF fault = "none" THEN Digest(Object("new")) ELSE NoHash
<1>1. Ended
  BY DEF Ended
<1>2. target.pieces = W /\ target.hash = IF fault = "none" THEN Digest(Object("new")) ELSE NoHash
  BY <1>1 DEF SaverInv, LeftInv
<1> QED
  BY <1>2, WIs, WholeIs, Counts

LEMMA RefuseHeaderKeeps == IInv /\ RefuseHeader => IInv'
<1> SUFFICES ASSUME IInv, RefuseHeader PROVE IInv'
  OBVIOUS
<1>1. /\ Ended /\ loader = "idle" /\ HeaderRead # <<Header>> /\ loader' = "threw"
      /\ UNCHANGED <<kind, stream, hashed, saver, validate, at, stored, result, fault>>
  BY DEF RefuseHeader
<1>2. SaverInv /\ at = 0
  BY <1>1 DEF IInv, LoaderInv
<1>3. SaverInv' /\ Ended' /\ target' = target
  BY <1>1, <1>2, SaverSame DEF stream
<1>4. LoaderTypes'
  BY <1>1, <1>3 DEF IInv, LoaderTypes
<1>5. LoaderInv'
  BY <1>1, <1>3 DEF LoaderInv
<1>6. ValidatedIsIntact'
  BY <1>1 DEF ValidatedIsIntact
<1>7. SavedReadsBack'
  <2>1. saver = "returned" => fault = "damaged"
    BY <1>1, <1>2, HeaderReadIs, ReturnedWhole
  <2> QED
    BY <1>1, <2>1 DEF SavedReadsBack
<1> QED
  BY <1>3, <1>4, <1>5, <1>6, <1>7 DEF IInv

LEMMA CheckHashKeeps == IInv /\ CheckHash => IInv'
<1> SUFFICES ASSUME IInv, CheckHash PROVE IInv'
  OBVIOUS
<1>1. /\ loader = "validate"
      /\ loader' = (IF Matches(Digest(Rest)) THEN "decode" ELSE "threw")
      /\ UNCHANGED <<kind, stream, hashed, saver, validate, at, stored, result, fault>>
  BY DEF CheckHash
<1>2. /\ SaverInv /\ Ended /\ at = 1 /\ Len(target.pieces) >= 1 /\ validate
      /\ stored \in {target.hash, NoHash, Digest(<<Damaged>>)}
      /\ stored # target.hash => target.pieces[1] = Damaged
  BY <1>1 DEF IInv, LoaderInv
<1>3. SaverInv' /\ Ended' /\ target' = target /\ Rest' = Rest
  <2>1. target' = target
    BY <1>1 DEF stream
  <2> QED
    BY <1>1, <1>2, <2>1, SaverSame DEF Rest
<1>4. LoaderTypes'
  BY <1>1, <1>3 DEF IInv, LoaderTypes
<1>5. LoaderInv'
  BY <1>1, <1>2, <1>3 DEF LoaderInv, Matches
<1>6. ValidatedIsIntact'
  BY <1>1 DEF ValidatedIsIntact
<1>7. SavedReadsBack'
  <2> SUFFICES ASSUME saver = "returned", loader' = "threw", fault # "damaged"
               PROVE  fault = "checksum lost"
    BY <1>1, <1>2 DEF SavedReadsBack
  <2>1. /\ target.pieces = W /\ stored = target.hash
        /\ target.hash = IF fault = "none" THEN Digest(Object("new")) ELSE NoHash
    BY <1>2, ReturnedWhole
  <2>2. Rest = Object("new")
    BY <1>2, <2>1, WholeRest
  <2>3. ~Matches(Digest(Rest))
    BY <1>1
  <2>4. Digest(Rest) # NoHash
    BY DEF Digest, NoHash
  <2>5. fault # "none"
    BY <2>1, <2>2, <2>3, <2>4 DEF Matches
  <2> QED
    BY <1>2, <2>5 DEF SaverInv, SaverTypes
<1> QED
  BY <1>3, <1>4, <1>5, <1>6, <1>7 DEF IInv

\* The blocks of an object are read from the pieces there are.
LEMMA HoldsFits ==
    ASSUME SaverInv, at = 1, Len(target.pieces) >= 1, NEW o \in {"old", "new"}, Holds(o)
    PROVE  at + 2 * Blocks[o] \in 0..Len(target.pieces)
<1> DEFINE d == target.pieces
           n == 2 * Blocks[o]
           u == Read(d, 1, n)
<1>1. d \in Seq(Pieces) /\ Len(d) \in Nat /\ n \in Nat /\ Len(Object(o)) = n
  BY Sorts, ObjectIs DEF SaverInv
<1>2. u = Object(o)
  BY DEF Holds
<1> HIDE DEF n, d
<1>3. 1 \in 0..Len(d)
  BY <1>1 DEF d
<1>4. Len(u) = IF n <= Len(d) - 1 THEN n ELSE Len(d) - 1
  BY <1>1, <1>3, ReadIs
<1> HIDE DEF u
<1>5. n <= Len(d) - 1
  BY <1>1, <1>2, <1>4
<1> QED
  BY <1>1, <1>5 DEF d, n

LEMMA DecodeKeeps == IInv /\ Decode => IInv'
<1> SUFFICES ASSUME IInv, Decode PROVE IInv'
  OBVIOUS
<1>1. /\ loader = "decode" /\ loader' = "returned"
      /\ UNCHANGED <<kind, stream, hashed, saver, validate, stored, fault>>
  BY DEF Decode
<1>2. PICK o \in {"old", "new"} : Holds(o) /\ result' = Object(o) /\ at' = at + 2 * Blocks[o]
  BY DEF Decode
<1>3. SaverInv /\ Ended /\ at = 1 /\ Len(target.pieces) >= 1
  BY <1>1 DEF IInv, LoaderInv
<1>4. SaverInv' /\ Ended' /\ target' = target
  BY <1>1, <1>3, SaverSame DEF stream
<1>5. LoaderTypes'
  <2>1. at' \in 0..Len(target'.pieces)
    BY <1>2, <1>3, <1>4, HoldsFits
  <2>2. result' \in Seq(Pieces)
    BY <1>2, ObjectIs
  <2> QED
    BY <1>1, <2>1, <2>2 DEF IInv, LoaderTypes
<1>6. LoaderInv'
  BY <1>1, <1>4 DEF LoaderInv
<1>7. ValidatedIsIntact'
  BY <1>2 DEF ValidatedIsIntact, Object
<1>8. SavedReadsBack'
  <2>1. saver = "returned" /\ fault # "damaged" => o = "new"
    BY <1>2, <1>3, ReturnedWhole, WholeRest
  <2> QED
    BY <1>1, <1>2, <2>1 DEF SavedReadsBack, Object
<1> QED
  BY <1>4, <1>5, <1>6, <1>7, <1>8 DEF IInv

LEMMA DecodeFailsKeeps == IInv /\ DecodeFails => IInv'
<1> SUFFICES ASSUME IInv, DecodeFails PROVE IInv'
  OBVIOUS
<1>1. /\ loader = "decode" /\ loader' = "threw"
      /\ target.pieces[1] = Header => \A o \in {"old", "new"} : ~Holds(o)
      /\ UNCHANGED <<kind, stream, hashed, saver, validate, at, stored, result, fault>>
  BY DEF DecodeFails
<1>2. SaverInv /\ Ended /\ at = 1 /\ Len(target.pieces) >= 1
  BY <1>1 DEF IInv, LoaderInv
<1>3. SaverInv' /\ Ended' /\ target' = target
  BY <1>1, <1>2, SaverSame DEF stream
<1>4. LoaderTypes'
  BY <1>1, <1>3 DEF IInv, LoaderTypes
<1>5. LoaderInv'
  BY <1>1, <1>3 DEF LoaderInv
<1>6. ValidatedIsIntact'
  BY <1>1 DEF ValidatedIsIntact
<1>7. SavedReadsBack'
  <2>1. saver = "returned" => fault = "damaged"
    BY <1>1, <1>2, ReturnedWhole, WholeRest
  <2> QED
    BY <1>1, <2>1 DEF SavedReadsBack
<1> QED
  BY <1>3, <1>4, <1>5, <1>6, <1>7 DEF IInv

\* Only one piece is damaged, and no checksum of an object is of a damaged piece.
LEMMA ValidatedNoGarbage ==
    ASSUME IInv, loader = "decode", validate, Damaged \in ToSet(Rest)
    PROVE  FALSE
<1>1. /\ SaverInv /\ Ended /\ at = 1 /\ Len(target.pieces) >= 1
      /\ stored \in {target.hash, NoHash, Digest(<<Damaged>>)}
      /\ stored # target.hash => target.pieces[1] = Damaged
      /\ stored # NoHash /\ stored = Digest(Rest)
  BY DEF IInv, LoaderInv
<1>2. Len(target.pieces) \in Nat
  BY <1>1, Sorts DEF SaverInv
<1>3. /\ Rest \in Seq(Pieces) /\ Len(Rest) = Len(target.pieces) - 1
      /\ \A i \in 1..(Len(target.pieces) - 1) : Rest[i] = target.pieces[i + 1]
  BY <1>1, RestIs
<1>4. PICK k \in DOMAIN Rest : Rest[k] = Damaged
  BY DEF ToSet
<1>5. k \in 1..(Len(target.pieces) - 1)
  BY <1>3, <1>4
<1>6. CASE stored = target.hash
  <2>1. target.hash \in {Digest(Object("old")), Digest(Object("new"))}
    BY <1>1, <1>6 DEF SaverInv, FaultInv
  <2>2. PICK o \in {"old", "new"} : target.hash = Digest(Object(o))
    BY <2>1
  <2>3. Digest(Rest).pieces = Rest /\ Digest(Object(o)).pieces = Object(o)
    BY DEF Digest
  <2>4. Rest = Object(o)
    BY <1>1, <1>6, <2>2, <2>3
  <2>5. k \in 1..(2 * Blocks[o])
    BY <1>3, <1>5, <2>4, ObjectIs
  <2> QED
    BY <1>4, <2>4, <2>5, ObjectIs
<1>7. CASE stored # target.hash
  <2>1. target.pieces[1] = Damaged /\ target.pieces[k + 1] = Damaged
    BY <1>1, <1>3, <1>4, <1>5, <1>7
  <2>2. 1 \in 1..Len(target.pieces) /\ k + 1 \in 1..Len(target.pieces) /\ k + 1 # 1
    BY <1>2, <1>5
  <2>3. fault = "damaged"
    BY <1>1, <2>1, <2>2, LeftIntact
  <2> QED
    BY <1>1, <2>1, <2>2, <2>3 DEF SaverInv, FaultInv
<1> QED
  BY <1>6, <1>7

LEMMA DecodeGarbageKeeps == IInv /\ DecodeGarbage => IInv'
<1> SUFFICES ASSUME IInv, DecodeGarbage PROVE IInv'
  OBVIOUS
<1>1. /\ loader = "decode" /\ loader' = "returned" /\ result' = <<Damaged>>
      /\ Damaged \in ToSet(Rest) /\ \A o \in {"old", "new"} : ~Holds(o)
      /\ UNCHANGED <<kind, stream, hashed, saver, validate, at, stored, fault>>
  BY DEF DecodeGarbage
<1>2. SaverInv /\ Ended /\ at = 1 /\ Len(target.pieces) >= 1
  BY <1>1 DEF IInv, LoaderInv
<1>3. SaverInv' /\ Ended' /\ target' = target
  BY <1>1, <1>2, SaverSame DEF stream
<1>4. LoaderTypes'
  <2>1. Damaged \in Pieces
    BY DEF Pieces
  <2>2. result' \in Seq(Pieces)
    BY <1>1, <2>1
  <2> QED
    BY <1>1, <1>3, <2>2 DEF IInv, LoaderTypes
<1>5. LoaderInv'
  BY <1>1, <1>3 DEF LoaderInv
<1>6. ValidatedIsIntact'
  <2>1. ~validate
    BY <1>1, ValidatedNoGarbage
  <2> QED
    BY <1>1, <2>1 DEF ValidatedIsIntact
<1>7. SavedReadsBack'
  <2>1. saver = "returned" => fault = "damaged"
    BY <1>1, <1>2, ReturnedWhole, WholeRest
  <2> QED
    BY <1>1, <2>1 DEF SavedReadsBack
<1> QED
  BY <1>3, <1>4, <1>5, <1>6, <1>7 DEF IInv

--------------------------------------------------------------------------------
(* The inductive invariant *)

\* As long as nothing is read, the invariant of the loader asks for nothing.
LEMMA IdleKeeps ==
    ASSUME SaverInv', at = 0, loader = "idle", UNCHANGED loading, LoaderTypes
    PROVE  LoaderTypes' /\ LoaderInv' /\ ValidatedIsIntact' /\ SavedReadsBack'
<1>1. loader' = "idle" /\ at' = 0 /\ validate' = validate /\ result' = result
  BY DEF loading
<1>2. 0 \in 0..Len(target'.pieces)
  <2>1. target'.pieces \in Seq(Pieces)
    <3>1. target' \in [pieces : Seq(Pieces), hash : [of : {"nothing", "data"}, pieces : Seq(Pieces)]]
      BY DEF SaverInv, SaverTypes
    <3> QED
      BY <3>1
  <2>2. Len(target'.pieces) \in Nat
    BY <2>1, LenProperties
  <2> QED
    BY <2>2
<1>3. LoaderTypes'
  BY <1>1, <1>2 DEF LoaderTypes
<1> QED
  BY <1>1, <1>3 DEF LoaderInv, ValidatedIsIntact, SavedReadsBack

LEMMA SavingKeeps == IInv /\ (SaveStep \/ Damage) => IInv'
<1> SUFFICES ASSUME IInv, SaveStep \/ Damage PROVE IInv'
  OBVIOUS
<1>1. SaverInv'
  BY SaveStepKeeps, DamageKeeps DEF IInv
<1>2. loader = "idle"
  <2>1. CASE SaveStep
    <3>1. ~Ended
      BY <2>1 DEF SaveStep, Open, OpenFails, WriteHeader, WriteBlock, FinishBlocks, LengthError,
         ObjectThrows, StreamFails, SeekFile, CloseFile, TellMemory, PatchMemory, ResizeMemory,
         Unwind, Crash, Ended
    <3> QED
      BY <3>1 DEF IInv, LoaderInv
  <2>2. CASE Damage
    BY <2>2 DEF Damage
  <2> QED
    BY <2>1, <2>2
<1>3. UNCHANGED loading
  BY DEF SaveStep, Open, OpenFails, WriteHeader, WriteBlock, FinishBlocks, LengthError,
     ObjectThrows, StreamFails, SeekFile, CloseFile, TellMemory, PatchMemory, ResizeMemory,
     Unwind, Crash, Damage, loading
<1>4. at = 0 /\ LoaderTypes
  BY <1>2 DEF IInv, LoaderInv
<1> QED
  BY <1>1, <1>2, <1>3, <1>4, IdleKeeps DEF IInv

LEMMA InitInv == Init => IInv
<1> SUFFICES ASSUME Init PROVE IInv
  OBVIOUS
<1>1. /\ kind \in {"file", "memory"}
      /\ target = Empty \/ (kind = "file" /\ target = SavedFile("old"))
      /\ sizeMax \in SizeMaxes /\ position = 0 /\ end = 0
      /\ buffer = << >> /\ hashed = << >> /\ saver = "start"
      /\ loader = "idle" /\ validate = FALSE /\ at = 0 /\ result = << >> /\ fault = "none"
  BY DEF Init
<1>2. ~Ended
  BY <1>1 DEF Ended
<1>3. SavedFile("old") \in [pieces : Seq(Pieces), hash : [of : {"nothing", "data"}, pieces : Seq(Pieces)]]
      /\ SavedFile("old").hash = Digest(Object("old"))
  BY WholeIs, ObjectIs DEF SavedFile, Digest
<1>4. /\ target \in [pieces : Seq(Pieces), hash : [of : {"nothing", "data"}, pieces : Seq(Pieces)]]
      /\ target.hash \in {NoHash, Digest(Object("old"))}
      /\ kind \in {"file", "memory"} /\ (kind = "file" \/ target = Empty)
  BY <1>1, <1>3, EmptyIs DEF Init
<1>5. SaverTypes
  <2>1. sizeMax \in Nat /\ 0 \in 0..sizeMax
    BY <1>1, SizesNat
  <2>2. << >> \in Seq(Pieces)
    BY EmptyIs
  <2>3. kind = "memory" => position <= Len(target.pieces) /\ Len(target.pieces) <= sizeMax
    BY <1>1, <1>4, <2>1, EmptyIs
  <2> QED
    BY <1>1, <1>4, <2>1, <2>2, <2>3 DEF SaverTypes
<1>6. HashedInv
  BY <1>1, Counts DEF HashedInv
<1>7. FileInv
  BY <1>1 DEF FileInv
<1>8. MemoryInv
  BY <1>1, <1>4, EmptyIs DEF MemoryInv
<1>9. LeftInv /\ FaultInv
  BY <1>1, <1>2, <1>4 DEF LeftInv, FaultInv
<1>10. LoaderTypes
  <2>1. result \in Seq(Pieces) /\ target.pieces \in Seq(Pieces)
    BY <1>1, <1>4, EmptyIs
  <2>2. 0 \in 0..Len(target.pieces)
    <3>1. Len(target.pieces) \in Nat
      BY <2>1, LenProperties
    <3> QED
      BY <3>1
  <2> QED
    BY <1>1, <2>1, <2>2 DEF LoaderTypes
<1>11. LoaderInv /\ ValidatedIsIntact /\ SavedReadsBack
  BY <1>1 DEF LoaderInv, ValidatedIsIntact, SavedReadsBack
<1> QED
  BY <1>5, <1>6, <1>7, <1>8, <1>9, <1>10, <1>11 DEF IInv, SaverInv

LEMMA NextInv == IInv /\ [Next]_vars => IInv'
<1> SUFFICES ASSUME IInv, [Next]_vars PROVE IInv'
  OBVIOUS
<1>1. CASE SaveStep \/ Damage
  BY <1>1, SavingKeeps
<1>2. CASE LoadStep
  BY <1>2, ReadHeaderKeeps, RefuseHeaderKeeps, CheckHashKeeps, DecodeKeeps, DecodeFailsKeeps,
     DecodeGarbageKeeps DEF LoadStep
<1>3. CASE UNCHANGED vars
  <2>1. UNCHANGED <<kind, stream, target, hashed, saver, loader, validate, at, stored, result, fault>>
    BY <1>3 DEF vars, loading, stream
  <2>2. SaverInv' /\ (Ended' <=> Ended)
    BY <2>1, SaverSame DEF IInv
  <2>3. LoaderTypes'
    BY <2>1 DEF IInv, LoaderTypes
  <2>4. LoaderInv'
    BY <2>1, <2>2 DEF IInv, LoaderInv, Rest
  <2>5. ValidatedIsIntact' /\ SavedReadsBack'
    BY <2>1 DEF IInv, ValidatedIsIntact, SavedReadsBack, Object
  <2> QED
    BY <2>2, <2>3, <2>4, <2>5 DEF IInv
<1> QED
  BY <1>1, <1>2, <1>3 DEF Next, Terminated

LEMMA Inductive == Spec => []IInv
<1> QED
  BY InitInv, NextInv, PTL DEF Spec

--------------------------------------------------------------------------------
(* What follows *)

\* Nothing is written outside of the memory there is, and the reader stays
\* within what is left: SaveLoad's type invariant, for every size_t.
THEOREM TypeCorrect == Spec => []TypeOK
<1>1. IInv => TypeOK
  <2> SUFFICES ASSUME IInv PROVE TypeOK
    OBVIOUS
  <2>1. SaverTypes /\ LoaderTypes /\ Len(hashed) <= 2 * Blocks["new"]
    BY DEF IInv, SaverInv, HashedInv, N
  <2> QED
    BY <2>1 DEF TypeOK, SaverTypes, LoaderTypes
<1> QED
  BY <1>1, Inductive, PTL

\* write_qx_hash is the last write: at every moment a file that carries a
\* checksum carries all that the checksum is of, and so does returned memory.
THEOREM HashLast == Spec => []ChecksumIsLast
<1>1. IInv => ChecksumIsLast
  <2> SUFFICES ASSUME IInv, target.hash # NoHash, fault # "damaged", kind = "file" \/ Ended
               PROVE  target.pieces = <<Header>> \o target.hash.pieces
    BY DEF ChecksumIsLast
  <2>1. target = SavedFile("old") \/ (target.pieces = W /\ target.hash = Digest(Object("new")))
    <3>1. CASE Ended
      BY <3>1 DEF IInv, SaverInv, LeftInv
    <3>2. CASE ~Ended
      <4>1. kind = "file" /\ saver \in {"start", "open", "blocks", "hash", "patch", "resize", "unwind"}
        BY <3>2 DEF IInv, SaverInv, SaverTypes, Ended
      <4>2. saver = "start"
        BY <4>1, EmptyIs DEF IInv, SaverInv, FileInv
      <4> QED
        BY <4>1, <4>2, EmptyIs DEF IInv, SaverInv, FileInv
    <3> QED
      BY <3>1, <3>2
  <2>2. SavedFile("old").hash.pieces = Object("old") /\ SavedFile("old").pieces = Whole("old")
    BY DEF SavedFile, Digest
  <2>3. Digest(Object("new")).pieces = Object("new")
    BY DEF Digest
  <2> QED
    BY <2>1, <2>2, <2>3 DEF W, Whole
<1> QED
  BY <1>1, Inductive, PTL

\* A save that fails, at whatever step, leaves a beginning of the new stream, or
\* a file it could not open.
THEOREM FailurePrefix == Spec => []FailureLeavesPrefix
<1>1. IInv => FailureLeavesPrefix
  <2> SUFFICES ASSUME IInv, saver \in {"threw", "crashed"}, fault # "damaged"
               PROVE  IsPrefix(target.pieces, Whole("new")) \/ target = SavedFile("old")
    BY DEF FailureLeavesPrefix
  <2>1. target = SavedFile("old") \/ Begins(target.pieces)
    BY DEF IInv, SaverInv, LeftInv, Ended
  <2>2. target.pieces \in Seq(Pieces)
    BY Sorts DEF IInv, SaverInv
  <2> QED
    BY <2>1, <2>2, BeginsPrefix DEF W
<1> QED
  BY <1>1, Inductive, PTL

\* A save that returns has left the whole object, however its writes were
\* buffered and however its memory grew.
THEOREM SavedWhole == Spec => []NoSilentLoss
<1>1. IInv => NoSilentLoss
  BY ReturnedWhole DEF IInv, NoSilentLoss, W
<1> QED
  BY <1>1, Inductive, PTL

\* A validated read returns an object as it was saved, or throws, wherever a
\* save has stopped and whichever piece has been damaged since.
THEOREM ValidatedIntact == Spec => []ValidatedIsIntact
<1>1. IInv => ValidatedIsIntact
  BY DEF IInv
<1> QED
  BY <1>1, Inductive, PTL

\* What a save that returned has left, read_qdata_object reads back as the object.
THEOREM ReadBack == Spec => []SavedReadsBack
<1>1. IInv => SavedReadsBack
  BY DEF IInv
<1> QED
  BY <1>1, Inductive, PTL
================================================================================
