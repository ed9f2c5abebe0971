----------------------------- MODULE XXH3Kernels -----------------------------
(***************************************************************************)
(* The two steps of the XXH3 accumulators, XXH3_accumulate_512 and         *)
(* XXH3_scrambleAcc, as each instruction set computes them: portable C,    *)
(* SSE2, AVX2, AVX-512 and NEON.  A build has one of them, and the hash it *)
(* stores in a file is checked by other builds.                            *)
(*                                                                         *)
(* A lane is a word of two halves of HalfBits bits, 32 in the code, with   *)
(* arithmetic modulo the word; a register is a sequence of lanes.          *)
(***************************************************************************)
EXTENDS Integers, Sequences

CONSTANTS
  HalfBits,   \* 32
  ShiftBits,  \* 47, the shift of a scramble
  Prime32,    \* XXH_PRIME32_1
  NeonLanes   \* XXH3_NEON_LANES: the lanes NEON computes, the others being scalar

AccNb == 8  \* XXH_ACC_NB

Pow2[k \in 0..(2 * HalfBits)] == IF k = 0 THEN 1 ELSE 2 * Pow2[k - 1]
Half == Pow2[HalfBits]
WordMod == Pow2[2 * HalfBits]

ASSUME KernelAssumption ==
  /\ HalfBits \in Nat \ {0} /\ ShiftBits \in 0..(2 * HalfBits)
  /\ Prime32 \in 1..(Half - 1)
  /\ NeonLanes \in {2, 4, 6, 8}

\* Eight lanes as they lie in memory.
Lanes(f) == <<f[1], f[2], f[3], f[4], f[5], f[6], f[7], f[8]>>

Low(x) == x % Half
High(x) == x \div Half

\* a ^ b, of the lowest k bits and of the whole words.
Bit(x, k) == (x \div Pow2[k]) % 2
XorOf[k \in 0..(2 * HalfBits)] ==
  [a \in 0..(WordMod - 1) |-> [b \in 0..(WordMod - 1) |->
     IF k = 0 THEN 0
     ELSE XorOf[k - 1][a][b] + ((Bit(a, k - 1) + Bit(b, k - 1)) % 2) * Pow2[k - 1]]]
XorTable == XorOf[2 * HalfBits]

-----------------------------------------------------------------------------
(* The portable rounds, on lane numbers from 0.                            *)

\* lane ^ 1
Neighbour(lane) == IF lane % 2 = 0 THEN lane + 1 ELSE lane - 1

\* XXH3_scalarRound
ScalarRound(acc, data, key, lane) ==
  LET dataKey == XorTable[data[lane + 1]][key[lane + 1]]
      mixed   == [acc EXCEPT ![Neighbour(lane) + 1] = (@ + data[lane + 1]) % WordMod]
  IN [mixed EXCEPT ![lane + 1] = (Low(dataKey) * High(dataKey) + @) % WordMod]

\* XXH3_scalarScrambleRound
ScalarScrambleRound(acc, key, lane) ==
  [acc EXCEPT ![lane + 1] =
     (XorTable[XorTable[@][@ \div Pow2[ShiftBits]]][key[lane + 1]] * Prime32) % WordMod]

\* The rounds of the lanes from "first" on, one after the other.
ScalarRounds(acc, data, key, first) ==
  LET upTo[lane \in 0..AccNb] ==
        IF lane <= first THEN acc ELSE ScalarRound(upTo[lane - 1], data, key, lane - 1)
  IN upTo[AccNb]

ScalarScrambleRounds(acc, key, first) ==
  LET upTo[lane \in 0..AccNb] ==
        IF lane <= first THEN acc ELSE ScalarScrambleRound(upTo[lane - 1], key, lane - 1)
  IN upTo[AccNb]

Accumulate512Scalar(acc, data, key) == ScalarRounds(acc, data, key, 0)
ScrambleScalar(acc, key) == ScalarScrambleRounds(acc, key, 0)

-----------------------------------------------------------------------------
(* Vector instructions.                                                    *)

\* The i-th register of n lanes in memory, and memory made of registers.
Load(memory, i, n) == SubSeq(memory, i * n + 1, (i + 1) * n)
Store(registers, size) ==
  Lanes([l \in 1..AccNb |-> registers[(l - 1) \div size][((l - 1) % size) + 1]])

XorV(a, b) == [l \in DOMAIN a |-> XorTable[a[l]][b[l]]]
AddV(a, b) == [l \in DOMAIN a |-> (a[l] + b[l]) % WordMod]
ShiftRightV(a, n) == [l \in DOMAIN a |-> a[l] \div Pow2[n]]
ShiftLeftV(a, n) == [l \in DOMAIN a |-> (a[l] * Pow2[n]) % WordMod]

\* mul_epu32: the low halves of the lanes multiplied.
MulLowV(a, b) == [l \in DOMAIN a |-> Low(a[l]) * Low(b[l])]

\* shuffle_epi32: in every pair of lanes, the four halves picked by "pick",
\* lowest first (_MM_SHUFFLE names them highest first).
ShuffleV(a, pick) ==
  LET half(l, h) == IF h % 2 = 0 THEN Low(a[l - ((l - 1) % 2) + (h \div 2)])
                    ELSE High(a[l - ((l - 1) % 2) + (h \div 2)])
      at(l) == 2 * ((l - 1) % 2)
  IN [l \in DOMAIN a |-> half(l, pick[at(l) + 1]) + Half * half(l, pick[at(l) + 2])]

SwapV(a) == ShuffleV(a, <<2, 3, 0, 1>>)   \* _MM_SHUFFLE(1, 0, 3, 2)

\* Mutant of HighByShuffle: the operands of _MM_SHUFFLE lowest first.
HighByShuffleReversed(a) == ShuffleV(a, <<0, 3, 0, 1>>)

HighByShuffle(a) == ShuffleV(a, <<1, 0, 3, 0>>)   \* _MM_SHUFFLE(0, 3, 0, 1)

HighByShift(a) == ShiftRightV(a, HalfBits)

\* By its registers' size: SSE2 shuffles, the wider ones shift.
HighOf(a, n) == IF n = 2 THEN HighByShuffle(a) ELSE HighByShift(a)

PrimeV(n) == [l \in 1..n |-> Prime32 + Half * Prime32]   \* set1_epi32

-----------------------------------------------------------------------------
(* x86: one register of n lanes at a time; the instruction sets differ in  *)
(* the size of a register, and SSE2 in how it gets the high halves.        *)

AccumulateX86(acc, data, key, n) ==
  LET register(i) ==
        LET dataVec == Load(data, i, n)
            dataKey == XorV(dataVec, Load(key, i, n))
            product == MulLowV(dataKey, HighOf(dataKey, n))
        IN AddV(product, AddV(Load(acc, i, n), SwapV(dataVec)))
  IN Store([i \in 0..(AccNb \div n - 1) |-> register(i)], n)

ScrambleX86(acc, key, n) ==
  LET register(i) ==
        LET accVec  == Load(acc, i, n)
            dataKey == XorV(XorV(accVec, ShiftRightV(accVec, ShiftBits)), Load(key, i, n))
            prodLow == MulLowV(dataKey, PrimeV(n))
            prodHigh == MulLowV(HighOf(dataKey, n), PrimeV(n))
        IN AddV(prodLow, ShiftLeftV(prodHigh, HalfBits))
  IN Store([i \in 0..(AccNb \div n - 1) |-> register(i)], n)

Accumulate512Sse2(acc, data, key) == AccumulateX86(acc, data, key, 2)
ScrambleSse2(acc, key) == ScrambleX86(acc, key, 2)
Accumulate512Avx2(acc, data, key) == AccumulateX86(acc, data, key, 4)
ScrambleAvx2(acc, key) == ScrambleX86(acc, key, 4)
Accumulate512Avx512(acc, data, key) == AccumulateX86(acc, data, key, 8)
ScrambleAvx512(acc, key) == ScrambleX86(acc, key, 8)

-----------------------------------------------------------------------------
(* NEON: the lanes from NeonLanes on by the portable rounds, the registers *)
(* of the others two at a time, and one that is left over by itself.       *)

ExtV(a) == <<a[2], a[1]>>   \* vextq_u64

\* Two registers: vuzpq_u32 gathers the four low and the four high halves,
\* vmlal multiplies the lower two of them and the upper two.
NeonPair(acc1, acc2, data1, data2, key1, key2) ==
  LET keyed == XorV(data1, key1) \o XorV(data2, key2)
      low   == [l \in 1..4 |-> Low(keyed[l])]
      high  == [l \in 1..4 |-> High(keyed[l])]
      sum1  == [l \in 1..2 |-> (ExtV(data1)[l] + low[l] * high[l]) % WordMod]
      sum2  == [l \in 1..2 |-> (ExtV(data2)[l] + low[l + 2] * high[l + 2]) % WordMod]
  IN <<AddV(acc1, sum1), AddV(acc2, sum2)>>

NeonSingle(acc, data, key) ==
  LET keyed == XorV(data, key)
      sum   == [l \in 1..2 |-> (ExtV(data)[l] + Low(keyed[l]) * High(keyed[l])) % WordMod]
  IN AddV(acc, sum)

Accumulate512Neon(acc, data, key) ==
  LET scalar == ScalarRounds(acc, data, key, NeonLanes)
      a(i) == Load(scalar, i, 2)
      d(i) == Load(data, i, 2)
      k(i) == Load(key, i, 2)
      pair(i) == NeonPair(a(i), a(i + 1), d(i), d(i + 1), k(i), k(i + 1))
      register(i) ==
        IF 2 * i >= NeonLanes THEN a(i)
        ELSE IF i % 2 = 1 THEN pair(i - 1)[2]
        ELSE IF i + 1 < NeonLanes \div 2 THEN pair(i)[1]
        ELSE NeonSingle(a(i), d(i), k(i))
  IN Store([i \in 0..3 |-> register(i)], 2)

\* The high halves are multiplied where they stand, by { 0, prime, 0, prime }.
ScrambleNeon(acc, key) ==
  LET scalar == ScalarScrambleRounds(acc, key, NeonLanes)
      register(i) ==
        LET accVec  == Load(scalar, i, 2)
            dataKey == XorV(XorV(accVec, ShiftRightV(accVec, ShiftBits)), Load(key, i, 2))
            prodHigh == [l \in 1..2 |-> Half * ((High(dataKey[l]) * Prime32) % Half)]
        IN IF 2 * i >= NeonLanes THEN accVec
           ELSE [l \in 1..2 |-> (prodHigh[l] + Low(dataKey[l]) * Prime32) % WordMod]
  IN Store([i \in 0..3 |-> register(i)], 2)

-----------------------------------------------------------------------------
Kernels == {"scalar", "sse2", "avx2", "avx512", "neon"}

Accumulate512(kernel, acc, data, key) ==
  CASE kernel = "scalar" -> Accumulate512Scalar(acc, data, key)
    [] kernel = "sse2"   -> Accumulate512Sse2(acc, data, key)
    [] kernel = "avx2"   -> Accumulate512Avx2(acc, data, key)
    [] kernel = "avx512" -> Accumulate512Avx512(acc, data, key)
    [] kernel = "neon"   -> Accumulate512Neon(acc, data, key)

Scramble(kernel, acc, key) ==
  CASE kernel = "scalar" -> ScrambleScalar(acc, key)
    [] kernel = "sse2"   -> ScrambleSse2(acc, key)
    [] kernel = "avx2"   -> ScrambleAvx2(acc, key)
    [] kernel = "avx512" -> ScrambleAvx512(acc, key)
    [] kernel = "neon"   -> ScrambleNeon(acc, key)

=============================================================================
