----------------------------- MODULE XXH3Stream -----------------------------
(***************************************************************************)
(* The streaming interface of XXH3_64bits, which computes the checksum of  *)
(* a file while its blocks go by: XXH3_64bits_reset, _update and _digest   *)
(* over an XXH3_state_t.  The caller hands over the input in chunks of any *)
(* length; an internal buffer keeps between one and BufferSize bytes back, *)
(* because only a digest knows which stripe is the last one.               *)
(*                                                                         *)
(* The bytes of the stream are named by their position in it.  A call of   *)
(* XXH3_update or XXH3_digest_long that does more than one thing is a      *)
(* series of steps: pc is where it is, and the w* variables are its local  *)
(* copies of the accumulators.                                             *)
(***************************************************************************)
EXTENDS XXH3

CONSTANTS
  BufferStripes, \* XXH3_INTERNALBUFFER_STRIPES, 4
  Chunks,        \* the lengths a caller passes to update
  MaxUpdates     \* bound: the calls of update on one state

ASSUME StreamAssumption ==
  /\ BufferStripes \in Nat \ {0}
  /\ StripeLen <= MidSizeMax
  /\ MidSizeMax <= BufferStripes * StripeLen
  /\ Chunks \subseteq Nat
  /\ MaxUpdates \in Nat

BufferSize == BufferStripes * StripeLen  \* XXH3_INTERNALBUFFER_SIZE

\* A byte of the buffer that no byte of this stream has been copied to.
Stale == -1

NoHash == [none |-> TRUE]

VARIABLES
  totalLen, bufferedSize, buffer,      \* XXH3_state_t
  stripes, scrambles,                  \* XXH3_state_t::acc
  nbStripesSoFar,
  pc,                                  \* where the call is; "idle" between calls
  input, bEnd,                         \* the rest of the input of the update
  wStripes, wScrambles, wSoFar,        \* the accumulators the call works on
  job,                                 \* the call of XXH3_consumeStripes
  hash,                                \* what the last digest returned
  updates                              \* counts the updates, for the bound

state == <<totalLen, bufferedSize, buffer, stripes, scrambles, nbStripesSoFar>>
work  == <<wStripes, wScrambles, wSoFar>>
vars  == <<totalLen, bufferedSize, buffer, stripes, scrambles, nbStripesSoFar,
           pc, input, bEnd, wStripes, wScrambles, wSoFar, job, hash, updates>>

NoJob == [from |-> "none", at |-> 0, left |-> 0, thisIter |-> 0, key |-> 0, back |-> "idle"]

\* XXH3_createState leaves the buffer as malloc returned it, XXH3_reset_internal
\* as the stream before left it.
Fresh(t, b, s, c, n) == t = 0 /\ b = 0 /\ s = <<>> /\ c = <<>> /\ n = 0

Init ==
  /\ Fresh(totalLen, bufferedSize, stripes, scrambles, nbStripesSoFar)
  /\ buffer = [o \in 0..(BufferSize - 1) |-> Stale]
  /\ pc = "idle" /\ input = 0 /\ bEnd = 0
  /\ wStripes = <<>> /\ wScrambles = <<>> /\ wSoFar = 0
  /\ job = NoJob /\ hash = NoHash /\ updates = 0

Reset ==
  /\ pc = "idle"
  /\ Fresh(totalLen', bufferedSize', stripes', scrambles', nbStripesSoFar')
  /\ buffer' = [o \in 0..(BufferSize - 1) |-> Stale]
  /\ hash' = NoHash
  /\ UNCHANGED <<pc, input, bEnd, work, job, updates>>

-----------------------------------------------------------------------------
(* XXH3_consumeStripes                                                     *)

\* The bytes it reads: those of the buffer, or those of the caller's input.
Source(from) == IF from = "buffer" THEN buffer ELSE [p \in 0..(bEnd - 1) |-> p]

\* Entry: the initial partial block, when the stripes complete it.
Consume(from, at, nbStripes, back) ==
  /\ job' = [from |-> from, at |-> at, left |-> nbStripes,
             thisIter |-> StripesPerBlock - wSoFar', key |-> wSoFar', back |-> back]
  /\ pc' = IF nbStripes >= StripesPerBlock - wSoFar' THEN "blocks" ELSE "partial"

\* One round of the do-while: the rest of a block, then a scramble.
ConsumeBlock ==
  /\ pc = "blocks"
  /\ wStripes' = Accumulate(wStripes, Source(job.from), job.at, job.key, job.thisIter)
  /\ wScrambles' = ScrambleAcc(wScrambles, wStripes')
  /\ LET left == job.left - job.thisIter
     IN /\ job' = [job EXCEPT !.at = @ + job.thisIter * StripeLen, !.left = left,
                              !.thisIter = StripesPerBlock, !.key = 0]
        /\ IF left >= StripesPerBlock
           THEN UNCHANGED <<pc, wSoFar>>
           ELSE pc' = "partial" /\ wSoFar' = 0
  /\ UNCHANGED <<state, input, bEnd, hash, updates>>

\* The stripes that do not complete a block, and the return: the pointer past
\* the stripes is the new input of the caller that passed its input.
ConsumePartial ==
  /\ pc = "partial"
  /\ wStripes' = Accumulate(wStripes, Source(job.from), job.at, job.key, job.left)
  /\ wSoFar' = wSoFar + job.left
  /\ pc' = job.back
  /\ input' = IF job.back = "tail" THEN job.at + job.left * StripeLen ELSE input
  /\ bufferedSize' = IF job.back = "bulk" THEN 0 ELSE bufferedSize
  /\ job' = NoJob
  /\ UNCHANGED <<totalLen, buffer, stripes, scrambles, nbStripesSoFar, bEnd,
                 wScrambles, hash, updates>>

-----------------------------------------------------------------------------
(* XXH3_update                                                             *)

\* memcpy of len bytes of the input, from position "from", to the buffer.
CopyTo(offset, from, len) ==
  [o \in 0..(BufferSize - 1) |->
     IF offset <= o /\ o < offset + len THEN from + o - offset ELSE buffer[o]]

\* Mutant of UpdateSmall: what is buffered already is not counted.
UpdateSmallOverfull(len) ==
  /\ pc = "idle" /\ updates < MaxUpdates
  /\ len <= BufferSize
  /\ totalLen' = totalLen + len
  /\ buffer' = CopyTo(bufferedSize, totalLen, len)
  /\ bufferedSize' = bufferedSize + len
  /\ hash' = NoHash /\ updates' = updates + 1
  /\ UNCHANGED <<stripes, scrambles, nbStripesSoFar, pc, input, bEnd, work, job>>

\* An input that still fits the buffer is only copied.
UpdateSmall(len) ==
  /\ pc = "idle" /\ updates < MaxUpdates
  /\ len <= BufferSize - bufferedSize
  /\ totalLen' = totalLen + len
  /\ buffer' = CopyTo(bufferedSize, totalLen, len)
  /\ bufferedSize' = bufferedSize + len
  /\ hash' = NoHash /\ updates' = updates + 1
  /\ UNCHANGED <<stripes, scrambles, nbStripesSoFar, pc, input, bEnd, work, job>>

\* Otherwise the buffer is completed, when there is something in it, and
\* consumed.  The accumulators are copied to the stack first.
UpdateLarge(len) ==
  /\ pc = "idle" /\ updates < MaxUpdates
  /\ len > BufferSize - bufferedSize
  /\ totalLen' = totalLen + len
  /\ bEnd' = totalLen + len
  /\ wStripes' = stripes /\ wScrambles' = scrambles /\ wSoFar' = nbStripesSoFar
  /\ hash' = NoHash /\ updates' = updates + 1
  /\ LET loadSize == BufferSize - bufferedSize
     IN IF bufferedSize > 0
        THEN /\ buffer' = CopyTo(bufferedSize, totalLen, loadSize)
             /\ input' = totalLen + loadSize
             /\ Consume("buffer", 0, BufferStripes, "bulk")
        ELSE /\ input' = totalLen
             /\ pc' = "bulk"
             /\ UNCHANGED <<buffer, job>>
  /\ UNCHANGED <<bufferedSize, stripes, scrambles, nbStripesSoFar>>

\* More than a buffer left: all of its stripes but the last are consumed
\* from the input itself.
UpdateBulk ==
  /\ pc = "bulk" /\ bEnd - input > BufferSize
  /\ UNCHANGED <<state, input, bEnd, work, hash, updates>>
  /\ Consume("input", input, (bEnd - 1 - input) \div StripeLen, "tail")

\* Mutant of UpdateTail: the copy is left out.
UpdateTailUncopied ==
  /\ pc = "tail"
  /\ pc' = "remainder"
  /\ UNCHANGED <<state, input, bEnd, work, job, hash, updates>>

\* The stripe before the rest goes to the end of the buffer: a digest of less
\* than a stripe in the buffer needs it.
UpdateTail ==
  /\ pc = "tail"
  /\ buffer' = CopyTo(BufferSize - StripeLen, input - StripeLen, StripeLen)
  /\ pc' = "remainder"
  /\ UNCHANGED <<totalLen, bufferedSize, stripes, scrambles, nbStripesSoFar,
                 input, bEnd, work, job, hash, updates>>

\* What is left goes to the buffer, and the accumulators back to the state.
UpdateRemainder ==
  /\ \/ pc = "remainder"
     \/ pc = "bulk" /\ bEnd - input <= BufferSize
  /\ buffer' = CopyTo(0, input, bEnd - input)
  /\ bufferedSize' = bEnd - input
  /\ stripes' = wStripes /\ scrambles' = wScrambles /\ nbStripesSoFar' = wSoFar
  /\ pc' = "idle" /\ input' = 0 /\ bEnd' = 0
  /\ wStripes' = <<>> /\ wScrambles' = <<>> /\ wSoFar' = 0
  /\ UNCHANGED <<totalLen, job, hash, updates>>

-----------------------------------------------------------------------------
(* XXH3_64bits_digest                                                      *)

Slice(v, len) == [o \in 0..(len - 1) |-> v[o]]

\* A short input is still in the buffer as a whole.
DigestShort ==
  /\ pc = "idle" /\ hash = NoHash
  /\ totalLen <= MidSizeMax
  /\ hash' = ShortHash(Slice(buffer, totalLen), totalLen)
  /\ UNCHANGED <<state, pc, input, bEnd, work, job, updates>>

\* XXH3_digest_long, on a local copy of the accumulators: the stripes of the
\* buffer but the last one.
DigestLong ==
  /\ pc = "idle" /\ hash = NoHash
  /\ totalLen > MidSizeMax
  /\ wStripes' = stripes /\ wScrambles' = scrambles /\ wSoFar' = nbStripesSoFar
  /\ IF bufferedSize >= StripeLen
     THEN Consume("buffer", 0, (bufferedSize - 1) \div StripeLen, "last")
     ELSE pc' = "last" /\ UNCHANGED job
  /\ UNCHANGED <<state, input, bEnd, hash, updates>>

\* The last stripe ends where the buffered bytes end.  When they are less than
\* a stripe it begins with the bytes at the end of the buffer.
LastStripe ==
  IF bufferedSize >= StripeLen
  THEN Stripe(buffer, bufferedSize - StripeLen)
  ELSE LET catchupSize == StripeLen - bufferedSize
       IN [k \in 1..StripeLen |->
             IF k <= catchupSize THEN buffer[BufferSize - catchupSize + k - 1]
             ELSE buffer[k - catchupSize - 1]]

DigestLast ==
  /\ pc = "last"
  /\ hash' = [len |-> totalLen, stripes |-> wStripes, scrambles |-> wScrambles,
              last |-> LastStripe]
  /\ pc' = "idle"
  /\ wStripes' = <<>> /\ wScrambles' = <<>> /\ wSoFar' = 0
  /\ UNCHANGED <<state, input, bEnd, job, updates>>

-----------------------------------------------------------------------------
Next ==
  \/ Reset
  \/ \E len \in Chunks : UpdateSmall(len) \/ UpdateLarge(len)
  \/ ConsumeBlock \/ ConsumePartial
  \/ UpdateBulk \/ UpdateTail \/ UpdateRemainder
  \/ DigestShort \/ DigestLong \/ DigestLast

Spec == Init /\ [][Next]_vars

-----------------------------------------------------------------------------
(* Properties                                                              *)

\* The whole stream as one contiguous input.
Whole == [p \in 0..(totalLen - 1) |-> p]

\* Types, and that no counter of the calls goes below zero.
TypeOK ==
  /\ totalLen \in Nat /\ bufferedSize \in 0..BufferSize
  /\ buffer \in [0..(BufferSize - 1) -> Nat \cup {Stale}]
  /\ nbStripesSoFar \in 0..(StripesPerBlock - 1)
  /\ wSoFar \in 0..(StripesPerBlock - 1)
  /\ pc \in {"idle", "blocks", "partial", "bulk", "tail", "remainder", "last"}
  /\ input \in Nat /\ bEnd \in Nat
  /\ job \in [from : {"none", "buffer", "input"}, at : Nat, left : Nat,
              thisIter : 0..StripesPerBlock, key : 0..(StripesPerBlock - 1),
              back : {"idle", "bulk", "tail", "last"}]

\* However the stream was cut into chunks, and whether or not it was digested
\* before, a digest is XXH3_64bits of the whole stream: the writer, which
\* hashes blocks, and a check of the file, which hashes other pieces, agree.
DigestIsOneShot == hash # NoHash => hash = Hash64(Whole, totalLen)

\* Every byte of the stream goes into its digest, and nothing else does: no
\* byte left in the buffer by an earlier stream or an earlier update.
EveryByteHashed == hash # NoHash => BytesRead(hash) = 0..(totalLen - 1)

=============================================================================
