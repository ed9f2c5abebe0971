------------------------- MODULE BlockCompressor_proofs -------------------------
(***************************************************************************)
(* Shuffle for blocks of any size, and BlockCompressor for objects of any  *)
(* number of blocks, checked by TLAPS.  Every build stores a block in the  *)
(* same order and undoes the order of every other; a block that is decoded *)
(* is the block that was written; the reader rejects nothing but what was  *)
(* lost or what the header denies.                                         *)
(*                                                                         *)
(* A byte of a register is named by its lane and its offset in the lane,   *)
(* At(L, o).  The kernels are followed instruction by instruction from     *)
(* these names; what their loops do with a buffer is then compared with    *)
(* Planes and Elements, the orders the plain loops are written in.         *)
(***************************************************************************)
EXTENDS BlockCompressor, Integers, FiniteSetTheorems, TLAPS

--------------------------------------------------------------------------------
(* Quotients and remainders *)

\* Quotient and remainder are determined by n, q * n + r and the bounds of r.
LEMMA DivisionUnique ==
    ASSUME NEW n \in Nat \ {0}, NEW q \in Nat, NEW r \in 0..(n - 1),
           NEW d \in Nat, NEW m \in 0..(n - 1), q * n + r = d * n + m
    PROVE  q = d /\ r = m
<1>1. (q - d) * n = m - r
  OBVIOUS
<1>2. CASE q > d
  <2>1. (q - d) * n >= n
    BY <1>2
  <2> QED
    BY <1>1, <2>1
<1>3. CASE q < d
  <2>1. (d - q) * n >= n
    BY <1>3
  <2>2. (d - q) * n = r - m
    BY <1>1
  <2> QED
    BY <2>1, <2>2
<1>4. CASE q = d
  BY <1>1, <1>4
<1> QED
  BY <1>2, <1>3, <1>4

LEMMA Division ==
    ASSUME NEW n \in Nat \ {0}, NEW p \in Nat
    PROVE  p = (p \div n) * n + (p % n) /\ p % n \in 0..(n - 1) /\ p \div n \in Nat
  OBVIOUS

LEMMA DivMod ==
    ASSUME NEW n \in Nat \ {0}, NEW q \in Nat, NEW r \in 0..(n - 1)
    PROVE  (q * n + r) \div n = q /\ (q * n + r) % n = r
<1>1. q * n + r \in Nat
  OBVIOUS
<1> QED
  BY <1>1, Division, DivisionUnique

\* A quotient is below m when the dividend is below m * n.
LEMMA QuotientBound ==
    ASSUME NEW n \in Nat \ {0}, NEW m \in Nat, NEW p \in 0..(m * n - 1)
    PROVE  m # 0 /\ p \div n \in 0..(m - 1)
<1> DEFINE q == p \div n
<1>1. q \in Nat /\ q * n <= p /\ p < m * n /\ p \in Nat
  BY Division
<1> HIDE DEF q
<1>2. (m - q) * n > 0
  BY <1>1
<1>3. q < m
  <2>1. CASE q >= m
    <3>1. (q - m) * n >= 0
      BY <1>1, <2>1
    <3> QED
      BY <1>1, <1>2, <3>1
  <2> QED
    BY <1>1, <2>1
<1>4. m # 0
  BY <1>1, <1>3
<1> QED
  BY <1>1, <1>3, <1>4 DEF q

--------------------------------------------------------------------------------
(* Registers and the instructions on them: the byte at offset o of lane L of a *)
(* result is the byte of an operand at an offset the instruction determines.  *)

ElementSizes == {1, 2, 4, 8}
At(L, o) == 16 * L + o

\* An array of t registers of z lanes of 16 bytes.
Registers(x, t, z) ==
    /\ DOMAIN x = Upto(t)
    /\ \A reg \in Upto(t) : DOMAIN x[reg] = Upto(16 * z)

\* Where unpacking elements of e bytes takes the byte at offset o of a lane from,
\* and from which operand.
From(e, h, o) == 8 * h + (o \div (2 * e)) * e + (o % e)
Turn(e, o) == (o \div e) % 2

LEMMA FromTurn ==
    ASSUME NEW o \in Upto(16), NEW h \in 0..1
    PROVE  /\ From(1, h, o) = 8 * h + (o \div 2) /\ Turn(1, o) = o % 2
           /\ From(2, h, o) = 8 * h + 2 * (o \div 4) + (o % 2) /\ Turn(2, o) = (o \div 2) % 2
           /\ From(4, h, o) = 8 * h + 4 * (o \div 8) + (o % 4) /\ Turn(4, o) = (o \div 4) % 2
           /\ From(8, h, o) = 8 * h + (o % 8) /\ Turn(8, o) = o \div 8
<1>0. o \in Nat /\ o < 16
  BY DEF Upto
<1>1. From(1, h, o) = 8 * h + (o \div 2) /\ Turn(1, o) = o % 2
  BY <1>0 DEF From, Turn
<1>2. From(2, h, o) = 8 * h + 2 * (o \div 4) + (o % 2) /\ Turn(2, o) = (o \div 2) % 2
  BY <1>0 DEF From, Turn
<1>3. From(4, h, o) = 8 * h + 4 * (o \div 8) + (o % 4) /\ Turn(4, o) = (o \div 4) % 2
  BY <1>0 DEF From, Turn
<1>4. From(8, h, o) = 8 * h + (o % 8) /\ Turn(8, o) = o \div 8
  BY <1>0 DEF From, Turn
<1> QED
  BY <1>1, <1>2, <1>3, <1>4

LEMMA LaneOffset ==
    ASSUME NEW L \in Nat, NEW o \in Upto(16)
    PROVE  At(L, o) \div 16 = L /\ At(L, o) % 16 = o /\ At(L, o) - o = 16 * L /\ At(L, o) % 4 = o % 4
  BY DEF At, Upto

LEMMA InLane ==
    ASSUME NEW z \in 1..2, NEW L \in Upto(z), NEW o \in Upto(16)
    PROVE  At(L, o) \in Upto(16 * z) /\ L \in Nat
  BY DEF At, Upto

LEMMA UnpackDomain == \A e, h, a, b : DOMAIN Unpack(e, h, a, b) = DOMAIN a
  BY DEF Unpack

LEMMA TurnInt ==
    ASSUME NEW e \in ElementSizes, NEW o \in Upto(16)
    PROVE  /\ Turn(e, o) \in 0..1
           /\ (o \div (2 * e)) * e \in Int /\ o % e \in Int
<1>0. o \in Nat /\ o < 16
  BY DEF Upto
<1>1. CASE e = 1
  BY <1>0, <1>1 DEF Turn
<1>2. CASE e = 2
  BY <1>0, <1>2 DEF Turn
<1>3. CASE e = 4
  BY <1>0, <1>3 DEF Turn
<1>4. CASE e = 8
  BY <1>0, <1>4 DEF Turn
<1> QED
  BY <1>1, <1>2, <1>3, <1>4 DEF ElementSizes

\* Where the bytes of unpacking are from.
LEMMA UnpackAt ==
    ASSUME NEW e \in ElementSizes, NEW h \in 0..1, NEW a, NEW b,
           NEW L \in Nat, NEW o \in Upto(16), At(L, o) \in DOMAIN a
    PROVE  /\ Turn(e, o) = 0 => Unpack(e, h, a, b)[At(L, o)] = a[At(L, From(e, h, o))]
           /\ Turn(e, o) = 1 => Unpack(e, h, a, b)[At(L, o)] = b[At(L, From(e, h, o))]
<1> DEFINE i == At(L, o)
           Picked(base, p) == LET f == base + 8 * h + (p \div (2 * e)) * e + (p % e)
                            IN  IF (p \div e) % 2 = 0 THEN a[f] ELSE b[f]
<1>1. i % 16 = o /\ i - o = 16 * L
  BY LaneOffset
<1>2. Unpack(e, h, a, b)[i] = Picked(i - (i % 16), i % 16)
  BY DEF Unpack
<1> HIDE DEF i, Picked
<1>3. Unpack(e, h, a, b)[i] = Picked(16 * L, o)
  BY <1>1, <1>2
<1> DEFINE u == (o \div (2 * e)) * e
           v == o % e
<1>4. u \in Int /\ v \in Int
  BY TurnInt
<1>5. Picked(16 * L, o) = IF Turn(e, o) = 0 THEN a[16 * L + 8 * h + u + v] ELSE b[16 * L + 8 * h + u + v]
  BY DEF Picked, Turn
<1>6. From(e, h, o) = 8 * h + u + v
  BY DEF From
<1> HIDE DEF u, v
<1>7. 16 * L + 8 * h + u + v = At(L, From(e, h, o))
  BY <1>4, <1>6 DEF At
<1> QED
  BY <1>3, <1>5, <1>7 DEF i

\* Where the bytes of shuffle_epi32 are from, given the field of the double word.
LEMMA Epi32At ==
    ASSUME NEW a, NEW f, NEW L \in Nat, NEW o \in Upto(16), At(L, o) \in DOMAIN a,
           NEW q \in Nat, f[(o \div 4) + 1] = q
    PROVE  ShuffleEpi32(a, f)[At(L, o)] = a[At(L, 4 * q + (o % 4))]
<1> DEFINE i == At(L, o)
           Picked(lane, p, m) == a[16 * lane + 4 * f[(p \div 4) + 1] + m]
<1>1. i \div 16 = L /\ i % 16 = o /\ i % 4 = o % 4
  BY LaneOffset
<1>2. ShuffleEpi32(a, f)[i] = Picked(i \div 16, i % 16, i % 4)
  BY DEF ShuffleEpi32
<1> HIDE DEF i, Picked
<1>3. ShuffleEpi32(a, f)[i] = Picked(L, o, o % 4)
  BY <1>1, <1>2
<1>4. 16 * L + 4 * q + (o % 4) = At(L, 4 * q + (o % 4))
  BY DEF At, Upto
<1> QED
  BY <1>3, <1>4 DEF i, Picked

\* Where the bytes of Zip are from.
LEMMA ZipAt ==
    ASSUME NEW e \in ElementSizes, NEW x, NEW low, NEW step \in Nat, NEW r \in Nat, r \in DOMAIN x,
           NEW L \in Nat, NEW o \in Upto(16), NEW l \in Nat, low[(r \div 2) + 1] = l,
           At(L, o) \in DOMAIN x[l]
    PROVE  Zip(x, e, low, step)[r][At(L, o)]
             = x[l + step * Turn(e, o)][At(L, From(e, r % 2, o))]
<1> DEFINE a == x[l]
           b == x[l + step]
           h == r % 2
<1>1. Zip(x, e, low, step)[r] = Unpack(e, h, a, b)
  BY DEF Zip
<1>2. h \in 0..1
  OBVIOUS
<1>3. At(L, o) \in DOMAIN a
  OBVIOUS
<1> HIDE DEF a, b, h
<1>4. /\ Turn(e, o) = 0 => Unpack(e, h, a, b)[At(L, o)] = a[At(L, From(e, h, o))]
      /\ Turn(e, o) = 1 => Unpack(e, h, a, b)[At(L, o)] = b[At(L, From(e, h, o))]
  BY <1>2, <1>3, UnpackAt
<1>5. CASE Turn(e, o) = 0
  <2>1. l + step * Turn(e, o) = l
    BY <1>5
  <2> QED
    BY <1>1, <1>4, <1>5, <2>1 DEF a, h
<1>6. CASE Turn(e, o) = 1
  <2>1. l + step * Turn(e, o) = l + step
    BY <1>6
  <2> QED
    BY <1>1, <1>4, <1>6, <2>1 DEF b, h
<1> QED
  BY <1>5, <1>6, TurnInt

\* The same for all registers and lanes.
LEMMA ZipStep ==
    ASSUME NEW e \in ElementSizes, NEW x, NEW low, NEW step \in Nat, NEW t \in Nat, NEW z \in 1..2,
           Registers(x, t, z),
           \A r \in Upto(t) : low[(r \div 2) + 1] \in Upto(t)
    PROVE  /\ Registers(Zip(x, e, low, step), t, z)
           /\ \A r \in Upto(t), L \in Upto(z), o \in Upto(16) :
                Zip(x, e, low, step)[r][At(L, o)]
                  = x[low[(r \div 2) + 1] + step * Turn(e, o)][At(L, From(e, r % 2, o))]
<1> DEFINE y == Zip(x, e, low, step)
<1>1. DOMAIN y = Upto(t)
  BY DEF Zip, Registers
<1>2. ASSUME NEW r \in Upto(t) PROVE DOMAIN y[r] = Upto(16 * z)
  <2> DEFINE l == low[(r \div 2) + 1]
  <2>1. y[r] = Unpack(e, r % 2, x[l], x[l + step])
    BY DEF Zip, Registers
  <2>2. DOMAIN x[l] = Upto(16 * z)
    BY DEF Registers
  <2> HIDE DEF l, y
  <2>3. DOMAIN Unpack(e, r % 2, x[l], x[l + step]) = DOMAIN x[l]
    BY UnpackDomain
  <2> QED
    BY <2>1, <2>2, <2>3
<1>3. ASSUME NEW r \in Upto(t), NEW L \in Upto(z), NEW o \in Upto(16)
      PROVE  y[r][At(L, o)] = x[low[(r \div 2) + 1] + step * Turn(e, o)][At(L, From(e, r % 2, o))]
  <2>1. PICK l \in Upto(t) : l = low[(r \div 2) + 1]
    OBVIOUS
  <2>2. r \in Nat /\ l \in Nat /\ L \in Nat
    BY DEF Upto
  <2>3. At(L, o) \in DOMAIN x[l] /\ r \in DOMAIN x
    <3>1. At(L, o) \in Upto(16 * z)
      BY InLane
    <3> QED
      BY <3>1 DEF Registers
  <2> HIDE DEF y
  <2>4. Zip(x, e, low, step)[r][At(L, o)] = x[l + step * Turn(e, o)][At(L, From(e, r % 2, o))]
    BY <2>1, <2>2, <2>3, ZipAt
  <2> QED
    BY <2>1, <2>4, Zenon DEF y
<1> HIDE DEF y
<1>4. Registers(y, t, z)
  BY <1>1, <1>2 DEF Registers
<1> QED
  BY <1>3, <1>4, Zenon DEF y

\* Fields the kernels select, given as tuples, as functions of their position.
LEMMA Halved ==
    ASSUME NEW r \in Nat
    PROVE  /\ r < 8 => /\ r \div 2 \in 0..3 /\ (r \div 2) \div 2 = r \div 4
                       /\ r \div 4 \in 0..3 /\ r \div 4 < 2
           /\ r < 4 => r \div 2 \in 0..1
           /\ r = 4 * (r \div 4) + (r % 4) /\ r % 4 \in Nat
  OBVIOUS

LEMMA Pair == \A b \in Nat, c \in 0..1 : (2 * b + c) \div 2 = b /\ (2 * b + c) % 2 = c
  OBVIOUS

LEMMA OffsetBits ==
    ASSUME NEW o \in Nat, o < 16
    PROVE  /\ (o % 4) \div 2 = (o \div 2) % 2
           /\ o % 4 = 2 * ((o \div 2) % 2) + (o % 2)
           /\ (o % 8) \div 2 = (o \div 2) % 4
           /\ (o \div 2) % 4 = 2 * ((o \div 4) % 2) + ((o \div 2) % 2)
<1>1. (o % 4) \div 2 = (o \div 2) % 2
  OBVIOUS
<1>2. (o \div 2) % 4 = 2 * ((o \div 4) % 2) + ((o \div 2) % 2)
  OBVIOUS
<1>3. (o % 8) \div 2 = (o \div 2) % 4
  OBVIOUS
<1>4. o % 4 = 2 * ((o \div 2) % 2) + (o % 2)
  OBVIOUS
<1> QED
  BY <1>1, <1>2, <1>3, <1>4

LEMMA LowRegisters ==
    ASSUME NEW q \in 0..3
    PROVE  /\ <<0, 2, 4, 6>>[q + 1] = 2 * q
           /\ <<0, 1, 4, 5>>[q + 1] = 4 * (q \div 2) + (q % 2)
           /\ <<0, 1, 2, 3>>[q + 1] = q
           /\ q < 2 => /\ <<0, 2>>[q + 1] = 2 * q
                        /\ <<0, 1>>[q + 1] = q
                        /\ <<2, 3, 0, 1>>[q + 1] = 2 + q
                        /\ <<0, 2, 1, 3>>[q + 1] = 2 * q
                        /\ <<1, 3, 0, 2>>[q + 1] = 2 * q + 1
<1>1. CASE q = 0
  BY <1>1
<1>2. CASE q = 1
  BY <1>2
<1>3. CASE q = 2
  BY <1>3
<1>4. CASE q = 3
  BY <1>4
<1> QED
  BY <1>1, <1>2, <1>3, <1>4

\* The low half of a register in turns with its high half.
LEMMA FoldAt ==
    ASSUME NEW e \in {1, 2}, NEW a, NEW z \in 1..2, DOMAIN a = Upto(16 * z),
           NEW L \in Upto(z), NEW o \in Upto(16)
    PROVE  Unpack(e, 0, a, ShuffleEpi32(a, <<2, 3, 0, 1>>))[At(L, o)]
             = a[At(L, 8 * Turn(e, o) + From(e, 0, o))]
<1>1. PICK p \in Upto(16) : p = From(e, 0, o) /\ p < 8
  <2>1. From(1, 0, o) = o \div 2 /\ From(2, 0, o) = 2 * (o \div 4) + (o % 2)
    <3>1. /\ From(1, 0, o) = 8 * 0 + (o \div 2)
          /\ From(2, 0, o) = 8 * 0 + 2 * (o \div 4) + (o % 2)
      BY FromTurn
    <3> QED
      BY <3>1 DEF Upto
  <2>2. o \div 2 \in 0..7 /\ 2 * (o \div 4) + (o % 2) \in 0..7
    BY DEF Upto
  <2>3. From(e, 0, o) \in 0..7
    BY <2>1, <2>2
  <2> QED
    BY <2>3 DEF Upto
<1> DEFINE f == <<2, 3, 0, 1>>
           b == ShuffleEpi32(a, f)
<1>2. PICK q \in Nat : q = f[(p \div 4) + 1] /\ 4 * q + (p % 4) = 8 + p
  <2>1. p \div 4 \in 0..3 /\ p \div 4 < 2 /\ p = 4 * (p \div 4) + (p % 4) /\ p % 4 \in Nat
    <3>1. p \in Nat
      BY DEF Upto
    <3> QED
      BY <1>1, <3>1, Halved
  <2>2. f[(p \div 4) + 1] = 2 + (p \div 4)
    BY <2>1, LowRegisters
  <2> HIDE DEF f
  <2> QED
    BY <2>1, <2>2
<1> HIDE DEF f
<1>3. At(L, p) \in DOMAIN a /\ At(L, o) \in DOMAIN a /\ L \in Nat
  BY InLane
<1>4. b[At(L, p)] = a[At(L, 8 + p)]
  BY <1>2, <1>3, Epi32At
<1> HIDE DEF b
<1>5. e \in ElementSizes /\ 0 \in 0..1
  BY DEF ElementSizes
<1>6. /\ Turn(e, o) = 0 => Unpack(e, 0, a, b)[At(L, o)] = a[At(L, From(e, 0, o))]
      /\ Turn(e, o) = 1 => Unpack(e, 0, a, b)[At(L, o)] = b[At(L, From(e, 0, o))]
  BY <1>3, <1>5, UnpackAt
<1>7. CASE Turn(e, o) = 0
  <2>1. 8 * Turn(e, o) + From(e, 0, o) = From(e, 0, o)
    BY <1>1, <1>7 DEF Upto
  <2> QED
    BY <1>6, <1>7, <2>1 DEF b, f
<1>8. CASE Turn(e, o) = 1
  <2>1. 8 * Turn(e, o) + From(e, 0, o) = 8 + p
    BY <1>1, <1>8 DEF Upto
  <2> QED
    BY <1>1, <1>4, <1>6, <1>8, <2>1 DEF b, f
<1>9. Turn(e, o) \in 0..1
  BY <1>5, TurnInt
<1> QED
  BY <1>7, <1>8, <1>9

--------------------------------------------------------------------------------
(* The steps of the shuffling kernels.  Each lemma has the step's registers in  *)
(* terms of those it starts from, then in terms of x, those that were loaded.   *)

\* The steps of unpacking for elements of eight bytes.
LEMMA Words8 ==
    ASSUME NEW x, NEW z \in 1..2, Registers(x, 8, z), NEW y, Registers(y, 8, z),
           \A r \in Upto(8), L \in Upto(z), o \in Upto(16) :
             y[r][At(L, o)] = x[r][At(L, 8 * (o % 2) + (o \div 2))]
    PROVE  /\ Registers(Zip(y, 2, <<0, 2, 4, 6>>, 1), 8, z)
           /\ \A r \in Upto(8), L \in Upto(z), o \in Upto(16) :
                Zip(y, 2, <<0, 2, 4, 6>>, 1)[r][At(L, o)]
                  = x[2 * (r \div 2) + ((o \div 2) % 2)][At(L, 8 * (o % 2) + 4 * (r % 2) + (o \div 4))]
<1> DEFINE low == <<0, 2, 4, 6>>
<1>1. \A s \in Upto(8) : low[(s \div 2) + 1] = 2 * (s \div 2) /\ 2 * (s \div 2) \in Upto(8)
  BY LowRegisters, Halved DEF Upto
<1> HIDE DEF low
<1>2. PICK e \in ElementSizes, s \in Nat, t \in Nat : e = 2 /\ s = 1 /\ t = 8
  BY DEF ElementSizes
<1>3. /\ Registers(Zip(y, e, low, s), t, z)
      /\ \A r \in Upto(t), L \in Upto(z), o \in Upto(16) :
           Zip(y, e, low, s)[r][At(L, o)]
             = y[low[(r \div 2) + 1] + s * Turn(e, o)][At(L, From(e, r % 2, o))]
  BY <1>1, <1>2, ZipStep
<1>4. ASSUME NEW r \in Upto(8), NEW L \in Upto(z), NEW o \in Upto(16)
      PROVE  Zip(y, 2, low, 1)[r][At(L, o)]
               = x[2 * (r \div 2) + ((o \div 2) % 2)][At(L, 8 * (o % 2) + 4 * (r % 2) + (o \div 4))]
  <2>1. PICK q \in Upto(8), p \in Upto(16) :
          q = 2 * (r \div 2) + ((o \div 2) % 2) /\ p = 8 * (r % 2) + 2 * (o \div 4) + (o % 2)
    <3>1. 2 * (r \div 2) + ((o \div 2) % 2) \in Upto(8)
      BY DEF Upto
    <3>2. 8 * (r % 2) + 2 * (o \div 4) + (o % 2) \in Upto(16)
      BY DEF Upto
    <3> QED
      BY <3>1, <3>2
  <2>2. From(e, r % 2, o) = p /\ low[(r \div 2) + 1] + s * Turn(e, o) = q
    <3>1. r % 2 \in 0..1
      BY DEF Upto
    <3>2. From(2, r % 2, o) = 8 * (r % 2) + 2 * (o \div 4) + (o % 2) /\ Turn(2, o) = (o \div 2) % 2
      BY <3>1, FromTurn
    <3>3. low[(r \div 2) + 1] = 2 * (r \div 2)
      BY <1>1
    <3>4. s * Turn(e, o) = (o \div 2) % 2
      BY <1>2, <3>2 DEF Upto
    <3> QED
      BY <1>2, <2>1, <3>2, <3>3, <3>4, Zenon
  <2>3. Zip(y, 2, low, 1)[r][At(L, o)] = y[q][At(L, p)]
    <3>1. Zip(y, e, low, s)[r][At(L, o)]
            = y[low[(r \div 2) + 1] + s * Turn(e, o)][At(L, From(e, r % 2, o))]
      BY <1>2, <1>3
    <3> QED
      BY <1>2, <2>2, <3>1
  <2>4. y[q][At(L, p)] = x[q][At(L, 8 * (p % 2) + (p \div 2))]
    OBVIOUS
  <2>5. /\ q = 2 * (r \div 2) + ((o \div 2) % 2)
        /\ 8 * (p % 2) + (p \div 2) = 8 * (o % 2) + 4 * (r % 2) + (o \div 4)
    <3>1. q = 2 * (r \div 2) + ((o \div 2) % 2)
      BY <2>1 DEF Upto
    <3>2. 8 * (p % 2) + (p \div 2) = 8 * (o % 2) + 4 * (r % 2) + (o \div 4)
      BY <2>1 DEF Upto
    <3> QED
      BY <3>1, <3>2
  <2> QED
    BY <2>1, <2>3, <2>4, <2>5, Zenon
<1> QED
  BY <1>2, <1>3, <1>4, Zenon DEF low

LEMMA Doubles8 ==
    ASSUME NEW x, NEW z \in 1..2, Registers(x, 8, z), NEW y, Registers(y, 8, z),
           \A r \in Upto(8), L \in Upto(z), o \in Upto(16) :
             y[r][At(L, o)] = x[2 * (r \div 2) + ((o \div 2) % 2)][At(L, 8 * (o % 2) + 4 * (r % 2) + (o \div 4))]
    PROVE  /\ Registers(Zip(y, 4, <<0, 1, 4, 5>>, 2), 8, z)
           /\ \A r \in Upto(8), L \in Upto(z), o \in Upto(16) :
                Zip(y, 4, <<0, 1, 4, 5>>, 2)[r][At(L, o)]
                  = x[4 * (r \div 4) + ((o \div 2) % 4)][At(L, 8 * (o % 2) + 4 * ((r \div 2) % 2) + 2 * (r % 2) + (o \div 8))]
<1> DEFINE low == <<0, 1, 4, 5>>
<1>1. \A s \in Upto(8) : low[(s \div 2) + 1] = 4 * (s \div 4) + ((s \div 2) % 2) /\ 4 * (s \div 4) + ((s \div 2) % 2) \in Upto(8)
  BY LowRegisters, Halved DEF Upto
<1> HIDE DEF low
<1>2. PICK e \in ElementSizes, s \in Nat, t \in Nat : e = 4 /\ s = 2 /\ t = 8
  BY DEF ElementSizes
<1>3. /\ Registers(Zip(y, e, low, s), t, z)
      /\ \A r \in Upto(t), L \in Upto(z), o \in Upto(16) :
           Zip(y, e, low, s)[r][At(L, o)]
             = y[low[(r \div 2) + 1] + s * Turn(e, o)][At(L, From(e, r % 2, o))]
  BY <1>1, <1>2, ZipStep
<1>4. ASSUME NEW r \in Upto(8), NEW L \in Upto(z), NEW o \in Upto(16)
      PROVE  Zip(y, 4, low, 2)[r][At(L, o)]
               = x[4 * (r \div 4) + ((o \div 2) % 4)][At(L, 8 * (o % 2) + 4 * ((r \div 2) % 2) + 2 * (r % 2) + (o \div 8))]
  <2>1. PICK q \in Upto(8), p \in Upto(16) :
          q = 4 * (r \div 4) + ((r \div 2) % 2) + 2 * ((o \div 4) % 2) /\ p = 8 * (r % 2) + 4 * (o \div 8) + (o % 4)
    <3>1. 4 * (r \div 4) + ((r \div 2) % 2) + 2 * ((o \div 4) % 2) \in Upto(8)
      BY DEF Upto
    <3>2. 8 * (r % 2) + 4 * (o \div 8) + (o % 4) \in Upto(16)
      BY DEF Upto
    <3> QED
      BY <3>1, <3>2
  <2>2. From(e, r % 2, o) = p /\ low[(r \div 2) + 1] + s * Turn(e, o) = q
    <3>1. r % 2 \in 0..1
      BY DEF Upto
    <3>2. From(4, r % 2, o) = 8 * (r % 2) + 4 * (o \div 8) + (o % 4) /\ Turn(4, o) = (o \div 4) % 2
      BY <3>1, FromTurn
    <3>3. low[(r \div 2) + 1] = 4 * (r \div 4) + ((r \div 2) % 2)
      BY <1>1
    <3>4. s * Turn(e, o) = 2 * ((o \div 4) % 2)
      BY <1>2, <3>2 DEF Upto
    <3> QED
      BY <1>2, <2>1, <3>2, <3>3, <3>4, Zenon
  <2>3. Zip(y, 4, low, 2)[r][At(L, o)] = y[q][At(L, p)]
    <3>1. Zip(y, e, low, s)[r][At(L, o)]
            = y[low[(r \div 2) + 1] + s * Turn(e, o)][At(L, From(e, r % 2, o))]
      BY <1>2, <1>3
    <3> QED
      BY <1>2, <2>2, <3>1
  <2>4. y[q][At(L, p)] = x[2 * (q \div 2) + ((p \div 2) % 2)][At(L, 8 * (p % 2) + 4 * (q % 2) + (p \div 4))]
    OBVIOUS
  <2>5. /\ 2 * (q \div 2) + ((p \div 2) % 2) = 4 * (r \div 4) + ((o \div 2) % 4)
        /\ 8 * (p % 2) + 4 * (q % 2) + (p \div 4) = 8 * (o % 2) + 4 * ((r \div 2) % 2) + 2 * (r % 2) + (o \div 8)
    <3>1. q \div 2 = 2 * (r \div 4) + ((o \div 4) % 2)
      BY <2>1 DEF Upto
    <3>2. q % 2 = (r \div 2) % 2
      BY <2>1 DEF Upto
    <3>3. p % 2 = o % 2
      BY <2>1 DEF Upto
    <3>4. p \div 4 = 2 * (r % 2) + (o \div 8)
      BY <2>1 DEF Upto
    <3>5. p \div 2 = 4 * (r % 2) + 2 * (o \div 8) + ((o % 4) \div 2)
      BY <2>1 DEF Upto
    <3>6. (p \div 2) % 2 = (o \div 2) % 2
      BY <3>5, OffsetBits DEF Upto
    <3>7. (o \div 2) % 4 = 2 * ((o \div 4) % 2) + ((o \div 2) % 2)
      BY OffsetBits DEF Upto
    <3>8. 2 * (q \div 2) + ((p \div 2) % 2) = 4 * (r \div 4) + ((o \div 2) % 4)
      BY <2>1, <3>1, <3>2, <3>3, <3>4, <3>5, <3>6, <3>7 DEF Upto
    <3>9. 8 * (p % 2) + 4 * (q % 2) + (p \div 4) = 8 * (o % 2) + 4 * ((r \div 2) % 2) + 2 * (r % 2) + (o \div 8)
      BY <2>1, <3>1, <3>2, <3>3, <3>4, <3>5, <3>6, <3>7 DEF Upto
    <3> QED
      BY <3>8, <3>9
  <2> QED
    BY <2>1, <2>3, <2>4, <2>5, Zenon
<1> QED
  BY <1>2, <1>3, <1>4, Zenon DEF low

LEMMA Quads8 ==
    ASSUME NEW x, NEW z \in 1..2, Registers(x, 8, z), NEW y, Registers(y, 8, z),
           \A r \in Upto(8), L \in Upto(z), o \in Upto(16) :
             y[r][At(L, o)] = x[4 * (r \div 4) + ((o \div 2) % 4)][At(L, 8 * (o % 2) + 4 * ((r \div 2) % 2) + 2 * (r % 2) + (o \div 8))]
    PROVE  /\ Registers(Zip(y, 8, <<0, 1, 2, 3>>, 4), 8, z)
           /\ \A r \in Upto(8), L \in Upto(z), o \in Upto(16) :
                Zip(y, 8, <<0, 1, 2, 3>>, 4)[r][At(L, o)]
                  = x[o \div 2][At(L, 8 * (o % 2) + r)]
<1> DEFINE low == <<0, 1, 2, 3>>
<1>1. \A s \in Upto(8) : low[(s \div 2) + 1] = s \div 2 /\ s \div 2 \in Upto(8)
  BY LowRegisters, Halved DEF Upto
<1> HIDE DEF low
<1>2. PICK e \in ElementSizes, s \in Nat, t \in Nat : e = 8 /\ s = 4 /\ t = 8
  BY DEF ElementSizes
<1>3. /\ Registers(Zip(y, e, low, s), t, z)
      /\ \A r \in Upto(t), L \in Upto(z), o \in Upto(16) :
           Zip(y, e, low, s)[r][At(L, o)]
             = y[low[(r \div 2) + 1] + s * Turn(e, o)][At(L, From(e, r % 2, o))]
  BY <1>1, <1>2, ZipStep
<1>4. ASSUME NEW r \in Upto(8), NEW L \in Upto(z), NEW o \in Upto(16)
      PROVE  Zip(y, 8, low, 4)[r][At(L, o)]
               = x[o \div 2][At(L, 8 * (o % 2) + r)]
  <2>1. PICK q \in Upto(8), p \in Upto(16) :
          q = (r \div 2) + 4 * (o \div 8) /\ p = 8 * (r % 2) + (o % 8)
    <3>1. (r \div 2) + 4 * (o \div 8) \in Upto(8)
      BY DEF Upto
    <3>2. 8 * (r % 2) + (o % 8) \in Upto(16)
      BY DEF Upto
    <3> QED
      BY <3>1, <3>2
  <2>2. From(e, r % 2, o) = p /\ low[(r \div 2) + 1] + s * Turn(e, o) = q
    <3>1. r % 2 \in 0..1
      BY DEF Upto
    <3>2. From(8, r % 2, o) = 8 * (r % 2) + (o % 8) /\ Turn(8, o) = o \div 8
      BY <3>1, FromTurn
    <3>3. low[(r \div 2) + 1] = r \div 2
      BY <1>1
    <3>4. s * Turn(e, o) = 4 * (o \div 8)
      BY <1>2, <3>2 DEF Upto
    <3> QED
      BY <1>2, <2>1, <3>2, <3>3, <3>4, Zenon
  <2>3. Zip(y, 8, low, 4)[r][At(L, o)] = y[q][At(L, p)]
    <3>1. Zip(y, e, low, s)[r][At(L, o)]
            = y[low[(r \div 2) + 1] + s * Turn(e, o)][At(L, From(e, r % 2, o))]
      BY <1>2, <1>3
    <3> QED
      BY <1>2, <2>2, <3>1
  <2>4. y[q][At(L, p)] = x[4 * (q \div 4) + ((p \div 2) % 4)][At(L, 8 * (p % 2) + 4 * ((q \div 2) % 2) + 2 * (q % 2) + (p \div 8))]
    OBVIOUS
  <2>5. /\ 4 * (q \div 4) + ((p \div 2) % 4) = o \div 2
        /\ 8 * (p % 2) + 4 * ((q \div 2) % 2) + 2 * (q % 2) + (p \div 8) = 8 * (o % 2) + r
    <3>1. q \div 4 = o \div 8
      BY <2>1 DEF Upto
    <3>2. (q \div 2) % 2 = r \div 4
      <4>1. q \div 2 = 2 * (o \div 8) + (r \div 4)
        BY <2>1 DEF Upto
      <4>2. o \div 8 \in Nat /\ r \div 4 \in 0..1
        BY DEF Upto
      <4> QED
        BY <4>1, <4>2, Pair
    <3>3. q % 2 = (r \div 2) % 2
      BY <2>1 DEF Upto
    <3>4. p % 2 = o % 2
      BY <2>1 DEF Upto
    <3>5. p \div 8 = r % 2
      BY <2>1 DEF Upto
    <3>6. p \div 2 = 4 * (r % 2) + ((o % 8) \div 2)
      BY <2>1 DEF Upto
    <3>7. (p \div 2) % 4 = (o \div 2) % 4
      BY <3>6, OffsetBits DEF Upto
    <3>8. r = 4 * (r \div 4) + 2 * ((r \div 2) % 2) + (r % 2)
      BY DEF Upto
    <3>9. o \div 2 = 4 * (o \div 8) + ((o \div 2) % 4)
      BY DEF Upto
    <3>10. 4 * (q \div 4) + ((p \div 2) % 4) = o \div 2
      BY <2>1, <3>1, <3>2, <3>3, <3>4, <3>5, <3>6, <3>7, <3>8, <3>9 DEF Upto
    <3>11. 8 * (p % 2) + 4 * ((q \div 2) % 2) + 2 * (q % 2) + (p \div 8) = 8 * (o % 2) + r
      BY <2>1, <3>1, <3>2, <3>3, <3>4, <3>5, <3>6, <3>7, <3>8, <3>9 DEF Upto
    <3> QED
      BY <3>10, <3>11
  <2> QED
    BY <2>1, <2>3, <2>4, <2>5, Zenon
<1> QED
  BY <1>2, <1>3, <1>4, Zenon DEF low

\* The steps of unpacking for elements of four bytes.
LEMMA Doubles4 ==
    ASSUME NEW x, NEW z \in 1..2, Registers(x, 4, z), NEW y, Registers(y, 4, z),
           \A r \in Upto(4), L \in Upto(z), o \in Upto(16) :
             y[r][At(L, o)] = x[r][At(L, 4 * (o % 4) + (o \div 4))]
    PROVE  /\ Registers(Zip(y, 4, <<0, 2>>, 1), 4, z)
           /\ \A r \in Upto(4), L \in Upto(z), o \in Upto(16) :
                Zip(y, 4, <<0, 2>>, 1)[r][At(L, o)]
                  = x[2 * (r \div 2) + ((o \div 4) % 2)][At(L, 4 * (o % 4) + 2 * (r % 2) + (o \div 8))]
<1> DEFINE low == <<0, 2>>
<1>1. \A s \in Upto(4) : low[(s \div 2) + 1] = 2 * (s \div 2) /\ 2 * (s \div 2) \in Upto(4)
  BY LowRegisters, Halved DEF Upto
<1> HIDE DEF low
<1>2. PICK e \in ElementSizes, s \in Nat, t \in Nat : e = 4 /\ s = 1 /\ t = 4
  BY DEF ElementSizes
<1>3. /\ Registers(Zip(y, e, low, s), t, z)
      /\ \A r \in Upto(t), L \in Upto(z), o \in Upto(16) :
           Zip(y, e, low, s)[r][At(L, o)]
             = y[low[(r \div 2) + 1] + s * Turn(e, o)][At(L, From(e, r % 2, o))]
  BY <1>1, <1>2, ZipStep
<1>4. ASSUME NEW r \in Upto(4), NEW L \in Upto(z), NEW o \in Upto(16)
      PROVE  Zip(y, 4, low, 1)[r][At(L, o)]
               = x[2 * (r \div 2) + ((o \div 4) % 2)][At(L, 4 * (o % 4) + 2 * (r % 2) + (o \div 8))]
  <2>1. PICK q \in Upto(4), p \in Upto(16) :
          q = 2 * (r \div 2) + ((o \div 4) % 2) /\ p = 8 * (r % 2) + 4 * (o \div 8) + (o % 4)
    <3>1. 2 * (r \div 2) + ((o \div 4) % 2) \in Upto(4)
      BY DEF Upto
    <3>2. 8 * (r % 2) + 4 * (o \div 8) + (o % 4) \in Upto(16)
      BY DEF Upto
    <3> QED
      BY <3>1, <3>2
  <2>2. From(e, r % 2, o) = p /\ low[(r \div 2) + 1] + s * Turn(e, o) = q
    <3>1. r % 2 \in 0..1
      BY DEF Upto
    <3>2. From(4, r % 2, o) = 8 * (r % 2) + 4 * (o \div 8) + (o % 4) /\ Turn(4, o) = (o \div 4) % 2
      BY <3>1, FromTurn
    <3>3. low[(r \div 2) + 1] = 2 * (r \div 2)
      BY <1>1
    <3>4. s * Turn(e, o) = (o \div 4) % 2
      BY <1>2, <3>2 DEF Upto
    <3> QED
      BY <1>2, <2>1, <3>2, <3>3, <3>4, Zenon
  <2>3. Zip(y, 4, low, 1)[r][At(L, o)] = y[q][At(L, p)]
    <3>1. Zip(y, e, low, s)[r][At(L, o)]
            = y[low[(r \div 2) + 1] + s * Turn(e, o)][At(L, From(e, r % 2, o))]
      BY <1>2, <1>3
    <3> QED
      BY <1>2, <2>2, <3>1
  <2>4. y[q][At(L, p)] = x[q][At(L, 4 * (p % 4) + (p \div 4))]
    OBVIOUS
  <2>5. /\ q = 2 * (r \div 2) + ((o \div 4) % 2)
        /\ 4 * (p % 4) + (p \div 4) = 4 * (o % 4) + 2 * (r % 2) + (o \div 8)
    <3>1. q = 2 * (r \div 2) + ((o \div 4) % 2)
      BY <2>1 DEF Upto
    <3>2. 4 * (p % 4) + (p \div 4) = 4 * (o % 4) + 2 * (r % 2) + (o \div 8)
      BY <2>1 DEF Upto
    <3> QED
      BY <3>1, <3>2
  <2> QED
    BY <2>1, <2>3, <2>4, <2>5, Zenon
<1> QED
  BY <1>2, <1>3, <1>4, Zenon DEF low

LEMMA Quads4 ==
    ASSUME NEW x, NEW z \in 1..2, Registers(x, 4, z), NEW y, Registers(y, 4, z),
           \A r \in Upto(4), L \in Upto(z), o \in Upto(16) :
             y[r][At(L, o)] = x[2 * (r \div 2) + ((o \div 4) % 2)][At(L, 4 * (o % 4) + 2 * (r % 2) + (o \div 8))]
    PROVE  /\ Registers(Zip(y, 8, <<0, 1>>, 2), 4, z)
           /\ \A r \in Upto(4), L \in Upto(z), o \in Upto(16) :
                Zip(y, 8, <<0, 1>>, 2)[r][At(L, o)]
                  = x[o \div 4][At(L, 4 * (o % 4) + r)]
<1> DEFINE low == <<0, 1>>
<1>1. \A s \in Upto(4) : low[(s \div 2) + 1] = s \div 2 /\ s \div 2 \in Upto(4)
  BY LowRegisters, Halved DEF Upto
<1> HIDE DEF low
<1>2. PICK e \in ElementSizes, s \in Nat, t \in Nat : e = 8 /\ s = 2 /\ t = 4
  BY DEF ElementSizes
<1>3. /\ Registers(Zip(y, e, low, s), t, z)
      /\ \A r \in Upto(t), L \in Upto(z), o \in Upto(16) :
           Zip(y, e, low, s)[r][At(L, o)]
             = y[low[(r \div 2) + 1] + s * Turn(e, o)][At(L, From(e, r % 2, o))]
  BY <1>1, <1>2, ZipStep
<1>4. ASSUME NEW r \in Upto(4), NEW L \in Upto(z), NEW o \in Upto(16)
      PROVE  Zip(y, 8, low, 2)[r][At(L, o)]
               = x[o \div 4][At(L, 4 * (o % 4) + r)]
  <2>1. PICK q \in Upto(4), p \in Upto(16) :
          q = (r \div 2) + 2 * (o \div 8) /\ p = 8 * (r % 2) + (o % 8)
    <3>1. (r \div 2) + 2 * (o \div 8) \in Upto(4)
      BY DEF Upto
    <3>2. 8 * (r % 2) + (o % 8) \in Upto(16)
      BY DEF Upto
    <3> QED
      BY <3>1, <3>2
  <2>2. From(e, r % 2, o) = p /\ low[(r \div 2) + 1] + s * Turn(e, o) = q
    <3>1. r % 2 \in 0..1
      BY DEF Upto
    <3>2. From(8, r % 2, o) = 8 * (r % 2) + (o % 8) /\ Turn(8, o) = o \div 8
      BY <3>1, FromTurn
    <3>3. low[(r \div 2) + 1] = r \div 2
      BY <1>1
    <3>4. s * Turn(e, o) = 2 * (o \div 8)
      BY <1>2, <3>2 DEF Upto
    <3> QED
      BY <1>2, <2>1, <3>2, <3>3, <3>4, Zenon
  <2>3. Zip(y, 8, low, 2)[r][At(L, o)] = y[q][At(L, p)]
    <3>1. Zip(y, e, low, s)[r][At(L, o)]
            = y[low[(r \div 2) + 1] + s * Turn(e, o)][At(L, From(e, r % 2, o))]
      BY <1>2, <1>3
    <3> QED
      BY <1>2, <2>2, <3>1
  <2>4. y[q][At(L, p)] = x[2 * (q \div 2) + ((p \div 4) % 2)][At(L, 4 * (p % 4) + 2 * (q % 2) + (p \div 8))]
    OBVIOUS
  <2>5. /\ 2 * (q \div 2) + ((p \div 4) % 2) = o \div 4
        /\ 4 * (p % 4) + 2 * (q % 2) + (p \div 8) = 4 * (o % 4) + r
    <3>1. PICK a \in 0..1, c \in 0..7, d \in 0..1, e1 \in 0..1 :
            a = o \div 8 /\ c = o % 8 /\ r = 2 * d + e1 /\ o = 8 * a + c
      <4>1. /\ o \div 8 \in 0..1 /\ o % 8 \in 0..7 /\ r \div 2 \in 0..1 /\ r % 2 \in 0..1
            /\ r = 2 * (r \div 2) + (r % 2) /\ o = 8 * (o \div 8) + (o % 8)
        BY DEF Upto
      <4> QED
        BY <4>1
    <3>2. q = d + 2 * a /\ p = 8 * e1 + c
      BY <2>1, <3>1
    <3>3. 2 * (q \div 2) + ((p \div 4) % 2) = o \div 4
      <4>1. q \div 2 = a
        BY <3>2
      <4>2. p \div 4 = 2 * e1 + (c \div 4) /\ c \div 4 \in 0..1
        BY <3>2
      <4>3. (p \div 4) % 2 = c \div 4
        BY <4>2, Pair
      <4>4. o \div 4 = 2 * a + (c \div 4)
        BY <3>1
      <4> QED
        BY <4>1, <4>3, <4>4
    <3>4. 4 * (p % 4) + 2 * (q % 2) + (p \div 8) = 4 * (o % 4) + r
      BY <3>1, <3>2
    <3> QED
      BY <3>3, <3>4
  <2> QED
    BY <2>1, <2>3, <2>4, <2>5, Zenon
<1> QED
  BY <1>2, <1>3, <1>4, Zenon DEF low

\* The first step for elements of eight bytes: the halves of a register in turns.
LEMMA Bytes8 ==
    ASSUME NEW x, NEW z \in 1..2, Registers(x, 8, z), NEW y,
           y = [reg \in DOMAIN x |-> Unpack(1, 0, x[reg], ShuffleEpi32(x[reg], <<2, 3, 0, 1>>))]
    PROVE  /\ Registers(y, 8, z)
           /\ \A r \in Upto(8), L \in Upto(z), o \in Upto(16) :
                y[r][At(L, o)] = x[r][At(L, 8 * (o % 2) + (o \div 2))]
<1>1. Registers(y, 8, z)
  BY UnpackDomain DEF Registers
<1>2. ASSUME NEW r \in Upto(8), NEW L \in Upto(z), NEW o \in Upto(16)
      PROVE  y[r][At(L, o)] = x[r][At(L, 8 * (o % 2) + (o \div 2))]
  <2>1. PICK a : a = x[r]
    OBVIOUS
  <2>2. y[r] = Unpack(1, 0, a, ShuffleEpi32(a, <<2, 3, 0, 1>>)) /\ DOMAIN a = Upto(16 * z)
    BY <2>1 DEF Registers
  <2>3. Unpack(1, 0, a, ShuffleEpi32(a, <<2, 3, 0, 1>>))[At(L, o)] = a[At(L, 8 * Turn(1, o) + From(1, 0, o))]
    BY <2>2, FoldAt
  <2>4. 8 * Turn(1, o) + From(1, 0, o) = 8 * (o % 2) + (o \div 2)
    <3>1. From(1, 0, o) = 8 * 0 + (o \div 2) /\ Turn(1, o) = o % 2
      BY FromTurn
    <3> QED
      BY <3>1 DEF Upto
  <2> QED
    BY <2>1, <2>2, <2>3, <2>4, Zenon
<1> QED
  BY <1>1, <1>2

\* The first steps for elements of four bytes.
LEMMA Bytes4 ==
    ASSUME NEW x, NEW z \in 1..2, Registers(x, 4, z), NEW y,
           y = [reg \in DOMAIN x |-> Unpack(1, 0, ShuffleEpi32(x[reg], <<0, 2, 1, 3>>),
                                                ShuffleEpi32(x[reg], <<1, 3, 0, 2>>))]
    PROVE  /\ Registers(y, 4, z)
           /\ \A r \in Upto(4), L \in Upto(z), o \in Upto(16) :
                y[r][At(L, o)] = x[r][At(L, 8 * (o \div 8) + 4 * (o % 2) + ((o \div 2) % 4))]
<1>1. Registers(y, 4, z)
  <2>1. \A f, a : DOMAIN ShuffleEpi32(a, f) = DOMAIN a
    BY DEF ShuffleEpi32
  <2> QED
    BY <2>1, UnpackDomain DEF Registers
<1>2. ASSUME NEW r \in Upto(4), NEW L \in Upto(z), NEW o \in Upto(16)
      PROVE  y[r][At(L, o)] = x[r][At(L, 8 * (o \div 8) + 4 * (o % 2) + ((o \div 2) % 4))]
  <2> DEFINE f == <<0, 2, 1, 3>>
             g == <<1, 3, 0, 2>>
  <2>1. PICK c, a, b : c = x[r] /\ a = ShuffleEpi32(c, f) /\ b = ShuffleEpi32(c, g)
    OBVIOUS
  <2>2. y[r] = Unpack(1, 0, a, b) /\ DOMAIN c = Upto(16 * z) /\ DOMAIN a = DOMAIN c
    BY <2>1 DEF Registers, ShuffleEpi32
  <2>3. PICK p \in Upto(16), q \in Nat : p = o \div 2 /\ p < 8 /\ q = p \div 4 /\ q < 2
    <3>1. o \div 2 \in Upto(16) /\ o \div 2 < 8 /\ (o \div 2) \div 4 \in Nat /\ (o \div 2) \div 4 < 2
      BY DEF Upto
    <3> QED
      BY <3>1
  <2>4. f[q + 1] = 2 * q /\ g[q + 1] = 2 * q + 1
    <3>1. q \in 0..3
      BY <2>3
    <3> QED
      BY <2>3, <3>1, LowRegisters
  <2> HIDE DEF f, g
  <2>5. At(L, p) \in DOMAIN c /\ At(L, o) \in DOMAIN a /\ L \in Nat
    BY <2>2, InLane
  <2>6. a[At(L, p)] = c[At(L, 4 * (2 * q) + (p % 4))]
    <3>1. PICK m \in Nat : m = 2 * q
      OBVIOUS
    <3>2. ShuffleEpi32(c, f)[At(L, p)] = c[At(L, 4 * m + (p % 4))]
      BY <2>3, <2>4, <2>5, <3>1, Epi32At
    <3> QED
      BY <2>1, <3>1, <3>2, Zenon
  <2>7. b[At(L, p)] = c[At(L, 4 * (2 * q + 1) + (p % 4))]
    <3>1. PICK m \in Nat : m = 2 * q + 1
      OBVIOUS
    <3>2. ShuffleEpi32(c, g)[At(L, p)] = c[At(L, 4 * m + (p % 4))]
      BY <2>3, <2>4, <2>5, <3>1, Epi32At
    <3> QED
      BY <2>1, <3>1, <3>2, Zenon
  <2>8. PICK e \in ElementSizes, h \in 0..1 : e = 1 /\ h = 0
    BY DEF ElementSizes
  <2>9. From(e, h, o) = p /\ Turn(e, o) = o % 2
    <3>1. From(1, h, o) = 8 * h + (o \div 2) /\ Turn(1, o) = o % 2
      BY FromTurn
    <3> QED
      BY <2>3, <2>8, <3>1 DEF Upto
  <2>10. /\ Turn(e, o) = 0 => Unpack(e, h, a, b)[At(L, o)] = a[At(L, From(e, h, o))]
         /\ Turn(e, o) = 1 => Unpack(e, h, a, b)[At(L, o)] = b[At(L, From(e, h, o))]
    BY <2>5, UnpackAt
  <2>11. q = o \div 8 /\ p % 4 = (o \div 2) % 4
    BY <2>3 DEF Upto
  <2>12. CASE o % 2 = 0
    <3>1. 8 * (o \div 8) + 4 * (o % 2) + ((o \div 2) % 4) = 4 * (2 * q) + (p % 4)
      BY <2>11, <2>12 DEF Upto
    <3> QED
      BY <2>1, <2>2, <2>6, <2>8, <2>9, <2>10, <2>12, <3>1
  <2>13. CASE o % 2 = 1
    <3>1. 8 * (o \div 8) + 4 * (o % 2) + ((o \div 2) % 4) = 4 * (2 * q + 1) + (p % 4)
      BY <2>11, <2>13 DEF Upto
    <3> QED
      BY <2>1, <2>2, <2>7, <2>8, <2>9, <2>10, <2>13, <3>1
  <2> QED
    BY <2>12, <2>13 DEF Upto
<1> QED
  BY <1>1, <1>2

LEMMA Words4 ==
    ASSUME NEW x, NEW z \in 1..2, Registers(x, 4, z), NEW b, Registers(b, 4, z),
           \A r \in Upto(4), L \in Upto(z), o \in Upto(16) :
             b[r][At(L, o)] = x[r][At(L, 8 * (o \div 8) + 4 * (o % 2) + ((o \div 2) % 4))],
           NEW y, DOMAIN y = Upto(4),
           \A reg \in Upto(4) : y[reg] = Unpack(2, 0, b[reg], ShuffleEpi32(b[reg], <<2, 3, 0, 1>>))
    PROVE  /\ Registers(y, 4, z)
           /\ \A r \in Upto(4), L \in Upto(z), o \in Upto(16) :
                y[r][At(L, o)] = x[r][At(L, 4 * (o % 4) + (o \div 4))]
<1>1. Registers(y, 4, z)
  BY UnpackDomain DEF Registers
<1>2. ASSUME NEW r \in Upto(4), NEW L \in Upto(z), NEW o \in Upto(16)
      PROVE  y[r][At(L, o)] = x[r][At(L, 4 * (o % 4) + (o \div 4))]
  <2>1. PICK a : a = b[r]
    OBVIOUS
  <2>2. y[r] = Unpack(2, 0, a, ShuffleEpi32(a, <<2, 3, 0, 1>>)) /\ DOMAIN a = Upto(16 * z)
    BY <2>1 DEF Registers
  <2>3. Unpack(2, 0, a, ShuffleEpi32(a, <<2, 3, 0, 1>>))[At(L, o)] = a[At(L, 8 * Turn(2, o) + From(2, 0, o))]
    BY <2>2, FoldAt
  <2>4. PICK p \in Upto(16) : p = 8 * Turn(2, o) + From(2, 0, o)
                              /\ p = 8 * ((o \div 2) % 2) + 2 * (o \div 4) + (o % 2)
    <3>1. From(2, 0, o) = 8 * 0 + 2 * (o \div 4) + (o % 2) /\ Turn(2, o) = (o \div 2) % 2
      BY FromTurn
    <3>2. 8 * ((o \div 2) % 2) + 2 * (o \div 4) + (o % 2) \in Upto(16)
      BY DEF Upto
    <3>3. 8 * Turn(2, o) + From(2, 0, o) = 8 * ((o \div 2) % 2) + 2 * (o \div 4) + (o % 2)
      BY <3>1 DEF Upto
    <3> QED
      BY <3>2, <3>3
  <2>5. a[At(L, p)] = x[r][At(L, 8 * (p \div 8) + 4 * (p % 2) + ((p \div 2) % 4))]
    BY <2>1
  <2>6. 8 * (p \div 8) + 4 * (p % 2) + ((p \div 2) % 4) = 4 * (o % 4) + (o \div 4)
    <3>1. PICK b2 \in 0..1, c \in 0..3, d \in 0..1 : b2 = (o \div 2) % 2 /\ c = o \div 4 /\ d = o % 2
      BY DEF Upto
    <3>2. p = 8 * b2 + 2 * c + d
      BY <2>4, <3>1
    <3>3. p \div 8 = b2
      BY <3>2
    <3>4. p % 2 = d
      BY <3>2
    <3>5. p \div 2 = 4 * b2 + c
      BY <3>2
    <3>6. (p \div 2) % 4 = c
      BY <3>5
    <3>7. o % 4 = 2 * b2 + d
      BY <3>1, OffsetBits DEF Upto
    <3> QED
      BY <3>1, <3>3, <3>4, <3>6, <3>7
  <2> QED
    BY <2>2, <2>3, <2>4, <2>5, <2>6, Zenon
<1> QED
  BY <1>1, <1>2

\* What a round of the kernels makes of its registers.
LEMMA Transpose8At ==
    ASSUME NEW x, NEW z \in 1..2, Registers(x, 8, z)
    PROVE  /\ Registers(Transpose8(x), 8, z)
           /\ \A r \in Upto(8), L \in Upto(z), o \in Upto(16) :
                Transpose8(x)[r][At(L, o)] = x[o \div 2][At(L, 8 * (o % 2) + r)]
<1>1. PICK bytes : bytes = [reg \in DOMAIN x |-> Unpack(1, 0, x[reg], ShuffleEpi32(x[reg], <<2, 3, 0, 1>>))]
  OBVIOUS
<1>2. PICK words : words = Zip(bytes, 2, <<0, 2, 4, 6>>, 1)
  OBVIOUS
<1>3. PICK doubles : doubles = Zip(words, 4, <<0, 1, 4, 5>>, 2)
  OBVIOUS
<1>4. Transpose8(x) = Zip(doubles, 8, <<0, 1, 2, 3>>, 4)
  BY <1>1, <1>2, <1>3, Zenon DEF Transpose8
<1>5. /\ Registers(bytes, 8, z)
      /\ \A r \in Upto(8), L \in Upto(z), o \in Upto(16) :
           bytes[r][At(L, o)] = x[r][At(L, 8 * (o % 2) + (o \div 2))]
  BY <1>1, Bytes8
<1>6. /\ Registers(words, 8, z)
      /\ \A r \in Upto(8), L \in Upto(z), o \in Upto(16) :
           words[r][At(L, o)] = x[2 * (r \div 2) + ((o \div 2) % 2)][At(L, 8 * (o % 2) + 4 * (r % 2) + (o \div 4))]
  BY <1>2, <1>5, Words8
<1>7. /\ Registers(doubles, 8, z)
      /\ \A r \in Upto(8), L \in Upto(z), o \in Upto(16) :
           doubles[r][At(L, o)] = x[4 * (r \div 4) + ((o \div 2) % 4)]
                                   [At(L, 8 * (o % 2) + 4 * ((r \div 2) % 2) + 2 * (r % 2) + (o \div 8))]
  BY <1>3, <1>6, Doubles8
<1> QED
  BY <1>4, <1>7, Quads8

LEMMA Transpose4At ==
    ASSUME NEW x, NEW z \in 1..2, Registers(x, 4, z)
    PROVE  /\ Registers(Transpose4(x), 4, z)
           /\ \A r \in Upto(4), L \in Upto(z), o \in Upto(16) :
                Transpose4(x)[r][At(L, o)] = x[o \div 4][At(L, 4 * (o % 4) + r)]
<1>1. PICK bytes : bytes = [reg \in DOMAIN x |-> Unpack(1, 0, ShuffleEpi32(x[reg], <<0, 2, 1, 3>>),
                                                            ShuffleEpi32(x[reg], <<1, 3, 0, 2>>))]
  OBVIOUS
<1>2. PICK words : words = [reg \in DOMAIN x |->
                              Unpack(2, 0, bytes[reg], ShuffleEpi32(bytes[reg], <<2, 3, 0, 1>>))]
  OBVIOUS
<1>3. PICK doubles : doubles = Zip(words, 4, <<0, 2>>, 1)
  OBVIOUS
<1>4. Transpose4(x) = Zip(doubles, 8, <<0, 1>>, 2)
  BY <1>1, <1>2, <1>3, Zenon DEF Transpose4
<1>5. /\ Registers(bytes, 4, z)
      /\ \A r \in Upto(4), L \in Upto(z), o \in Upto(16) :
           bytes[r][At(L, o)] = x[r][At(L, 8 * (o \div 8) + 4 * (o % 2) + ((o \div 2) % 4))]
  BY <1>1, Bytes4
<1>6. /\ Registers(words, 4, z)
      /\ \A r \in Upto(4), L \in Upto(z), o \in Upto(16) :
           words[r][At(L, o)] = x[r][At(L, 4 * (o % 4) + (o \div 4))]
  <2>1. /\ DOMAIN words = Upto(4)
        /\ \A reg \in Upto(4) : words[reg] = Unpack(2, 0, bytes[reg], ShuffleEpi32(bytes[reg], <<2, 3, 0, 1>>))
    BY <1>2 DEF Registers
  <2> QED
    BY <1>5, <2>1, Words4
<1>7. /\ Registers(doubles, 4, z)
      /\ \A r \in Upto(4), L \in Upto(z), o \in Upto(16) :
           doubles[r][At(L, o)] = x[2 * (r \div 2) + ((o \div 4) % 2)]
                                   [At(L, 4 * (o % 4) + 2 * (r % 2) + (o \div 8))]
  BY <1>3, <1>6, Doubles4
<1> QED
  BY <1>4, <1>7, Quads4

\* Every byte of a register is in a lane.
LEMMA LaneOf ==
    ASSUME NEW z \in 1..2, NEW i \in Upto(16 * z)
    PROVE  \E L \in Upto(z), o \in Upto(16) : i = At(L, o)
<1>1. i \div 16 \in Upto(z) /\ i % 16 \in Upto(16) /\ i = 16 * (i \div 16) + (i % 16)
  BY DEF Upto
<1> QED
  BY <1>1 DEF At

\* A round of each kernel: the registers hold elements one after the other, and
\* byte r of element i goes to offset i of register r.
LEMMA ShuffleRound8Sse2 ==
    ASSUME NEW x, Registers(x, 8, 1), NEW r \in Upto(8), NEW i \in Upto(16)
    PROVE  ShuffleRound("sse2", 8, x)[r][i] = x[(i * 8 + r) \div 16][(i * 8 + r) % 16]
<1>1. ShuffleRound("sse2", 8, x) = Transpose8(x)
  BY DEF ShuffleRound
<1>2. PICK z \in 1..2, L \in Upto(1) : z = 1 /\ L = 0
  BY DEF Upto
<1>3. Transpose8(x)[r][At(L, i)] = x[i \div 2][At(L, 8 * (i % 2) + r)]
  BY <1>2, Transpose8At
<1>4. At(L, i) = i /\ At(L, 8 * (i % 2) + r) = 8 * (i % 2) + r
  BY <1>2 DEF At, Upto
<1>5. (i * 8 + r) \div 16 = i \div 2
  BY DEF Upto
<1>6. (i * 8 + r) % 16 = 8 * (i % 2) + r
  BY DEF Upto
<1> QED
  BY <1>1, <1>3, <1>4, <1>5, <1>6, Zenon

LEMMA ShuffleRound4Sse2 ==
    ASSUME NEW x, Registers(x, 4, 1), NEW r \in Upto(4), NEW i \in Upto(16)
    PROVE  ShuffleRound("sse2", 4, x)[r][i] = x[(i * 4 + r) \div 16][(i * 4 + r) % 16]
<1>1. ShuffleRound("sse2", 4, x) = Transpose4(x)
  BY DEF ShuffleRound
<1>2. PICK z \in 1..2, L \in Upto(1) : z = 1 /\ L = 0
  BY DEF Upto
<1>3. Transpose4(x)[r][At(L, i)] = x[i \div 4][At(L, 4 * (i % 4) + r)]
  BY <1>2, Transpose4At
<1>4. At(L, i) = i /\ At(L, 4 * (i % 4) + r) = 4 * (i % 4) + r
  BY <1>2 DEF At, Upto
<1>5. (i * 4 + r) \div 16 = i \div 4
  BY DEF Upto
<1>6. (i * 4 + r) % 16 = 4 * (i % 4) + r
  BY DEF Upto
<1> QED
  BY <1>1, <1>3, <1>4, <1>5, <1>6, Zenon

\* permute4x64_epi64 moves quad words.
LEMMA Permute4x64At ==
    ASSUME NEW a, NEW f, DOMAIN a = Upto(32), NEW L \in Upto(2), NEW o \in Upto(16),
           NEW q \in Nat, f[2 * L + (o \div 8) + 1] = q
    PROVE  /\ DOMAIN Permute4x64(a, f) = Upto(32)
           /\ Permute4x64(a, f)[At(L, o)] = a[8 * q + (o % 8)]
<1>1. At(L, o) \in Upto(32) /\ At(L, o) \div 8 = 2 * L + (o \div 8) /\ At(L, o) % 8 = o % 8
  <2>1. At(L, o) \in Upto(32)
    BY DEF At, Upto
  <2>2. At(L, o) \div 8 = 2 * L + (o \div 8)
    BY DEF At, Upto
  <2>3. At(L, o) % 8 = o % 8
    BY DEF At, Upto
  <2> QED
    BY <2>1, <2>2, <2>3
<1>2. Permute4x64(a, f)[At(L, o)] = a[8 * f[At(L, o) \div 8 + 1] + (At(L, o) % 8)]
  BY <1>1 DEF Permute4x64
<1>3. DOMAIN Permute4x64(a, f) = Upto(32)
  BY DEF Permute4x64
<1> QED
  BY <1>1, <1>2, <1>3

\* The last step of shuffle8_avx2 merges the lanes of a register.
LEMMA MergeLanes ==
    ASSUME NEW a, DOMAIN a = Upto(32), NEW L \in Upto(2), NEW o \in Upto(16)
    PROVE  Unpack(2, 0, Permute4x64(a, <<0, 2, 1, 3>>), Permute4x64(a, <<2, 0, 3, 1>>))[At(L, o)]
             = a[At((o \div 2) % 2, 8 * L + 2 * (o \div 4) + (o % 2))]
<1> DEFINE f == <<0, 2, 1, 3>>
           g == <<2, 0, 3, 1>>
<1>1. PICK b, c : b = Permute4x64(a, f) /\ c = Permute4x64(a, g)
  OBVIOUS
<1>2. PICK p \in Upto(16) : p = 2 * (o \div 4) + (o % 2) /\ p < 8 /\ p \div 8 = 0 /\ p % 8 = p
  <2>1. 2 * (o \div 4) + (o % 2) \in 0..7
    BY DEF Upto
  <2>2. \A p \in 0..7 : p \in Upto(16) /\ p < 8 /\ p \div 8 = 0 /\ p % 8 = p
    BY DEF Upto
  <2> QED
    BY <2>1, <2>2
<1>3. f[2 * L + 1] = L /\ g[2 * L + 1] = 2 + L /\ L \in Nat
  <2>1. CASE L = 0
    BY <2>1
  <2>2. CASE L = 1
    BY <2>2
  <2> QED
    BY <2>1, <2>2 DEF Upto
<1> HIDE DEF f, g
<1>4. b[At(L, p)] = a[8 * L + p] /\ DOMAIN b = Upto(32)
  <2>1. f[2 * L + (p \div 8) + 1] = L
    BY <1>2, <1>3
  <2> QED
    BY <1>1, <1>2, <1>3, <2>1, Permute4x64At
<1>5. c[At(L, p)] = a[8 * (2 + L) + p]
  <2>1. PICK q \in Nat : q = 2 + L
    BY <1>3
  <2>2. g[2 * L + (p \div 8) + 1] = q
    BY <1>2, <1>3, <2>1
  <2>3. Permute4x64(a, g)[At(L, p)] = a[8 * q + (p % 8)]
    BY <2>2, Permute4x64At
  <2> QED
    BY <1>1, <1>2, <2>1, <2>3
<1>6. PICK e \in ElementSizes, h \in 0..1 : e = 2 /\ h = 0
  BY DEF ElementSizes
<1>7. From(e, h, o) = p /\ Turn(e, o) = (o \div 2) % 2
  <2>1. From(2, h, o) = 8 * h + 2 * (o \div 4) + (o % 2) /\ Turn(2, o) = (o \div 2) % 2
    BY FromTurn
  <2> QED
    BY <1>2, <1>6, <2>1 DEF Upto
<1>8. At(L, o) \in DOMAIN b /\ L \in Nat
  <2>1. At(L, o) \in Upto(32) /\ L \in Nat
    BY DEF At, Upto
  <2> QED
    BY <1>4, <2>1
<1>9. /\ Turn(e, o) = 0 => Unpack(e, h, b, c)[At(L, o)] = b[At(L, From(e, h, o))]
      /\ Turn(e, o) = 1 => Unpack(e, h, b, c)[At(L, o)] = c[At(L, From(e, h, o))]
  BY <1>8, UnpackAt
<1>10. CASE (o \div 2) % 2 = 0
  <2>1. At((o \div 2) % 2, 8 * L + 2 * (o \div 4) + (o % 2)) = 8 * L + p
    BY <1>2, <1>3, <1>10 DEF At, Upto
  <2> QED
    BY <1>1, <1>4, <1>6, <1>7, <1>9, <1>10, <2>1 DEF f, g
<1>11. CASE (o \div 2) % 2 = 1
  <2>1. At((o \div 2) % 2, 8 * L + 2 * (o \div 4) + (o % 2)) = 8 * (2 + L) + p
    BY <1>2, <1>3, <1>11 DEF At, Upto
  <2> QED
    BY <1>1, <1>5, <1>6, <1>7, <1>9, <1>11, <2>1 DEF f, g
<1> QED
  BY <1>10, <1>11 DEF Upto

LEMMA ShuffleRound8Avx2 ==
    ASSUME NEW x, Registers(x, 8, 2), NEW r \in Upto(8), NEW i \in Upto(32)
    PROVE  ShuffleRound("avx2", 8, x)[r][i] = x[(i * 8 + r) \div 32][(i * 8 + r) % 32]
<1>1. PICK quads : quads = Transpose8(x)
  OBVIOUS
<1>2. PICK z \in 1..2 : z = 2
  OBVIOUS
<1>3. /\ Registers(quads, 8, z)
      /\ \A reg \in Upto(8), L \in Upto(z), o \in Upto(16) :
           quads[reg][At(L, o)] = x[o \div 2][At(L, 8 * (o % 2) + reg)]
  BY <1>1, <1>2, Transpose8At
<1>4. PICK a : a = quads[r]
  OBVIOUS
<1>5. DOMAIN a = Upto(32)
  BY <1>2, <1>3, <1>4 DEF Registers
<1>6. ShuffleRound("avx2", 8, x)[r]
        = Unpack(2, 0, Permute4x64(a, <<0, 2, 1, 3>>), Permute4x64(a, <<2, 0, 3, 1>>))
  <2>1. ShuffleRound("avx2", 8, x) = Transpose8Avx2(x)
    BY DEF ShuffleRound
  <2> QED
    BY <1>1, <1>4, <2>1 DEF Transpose8Avx2, Registers
<1>7. PICK L \in Upto(2), o \in Upto(16) : i = At(L, o)
  BY <1>2, LaneOf
<1>8. PICK M \in Upto(2), p \in Upto(16) : M = (o \div 2) % 2 /\ p = 8 * L + 2 * (o \div 4) + (o % 2)
  <2>1. (o \div 2) % 2 \in Upto(2)
    BY DEF Upto
  <2>2. 8 * L + 2 * (o \div 4) + (o % 2) \in Upto(16)
    BY DEF Upto
  <2> QED
    BY <2>1, <2>2
<1>9. ShuffleRound("avx2", 8, x)[r][i] = a[At(M, p)]
  BY <1>5, <1>6, <1>7, <1>8, MergeLanes
<1>10. a[At(M, p)] = x[p \div 2][At(M, 8 * (p % 2) + r)]
  BY <1>2, <1>3, <1>4
<1>11. p \div 2 = 4 * L + (o \div 4) /\ p % 2 = o % 2
  <2>1. p \div 2 = 4 * L + (o \div 4)
    BY <1>8 DEF Upto
  <2>2. p % 2 = o % 2
    BY <1>8 DEF Upto
  <2> QED
    BY <2>1, <2>2
<1>12. (i * 8 + r) \div 32 = 4 * L + (o \div 4)
  BY <1>7 DEF At, Upto
<1>13. (i * 8 + r) % 32 = At(M, 8 * (o % 2) + r)
  BY <1>7, <1>8 DEF At, Upto
<1> QED
  BY <1>9, <1>10, <1>11, <1>12, <1>13

LEMMA ShuffleRound4Avx2 ==
    ASSUME NEW x, Registers(x, 4, 2), NEW r \in Upto(4), NEW i \in Upto(32)
    PROVE  ShuffleRound("avx2", 4, x)[r][i] = x[(i * 4 + r) \div 32][(i * 4 + r) % 32]
<1>1. PICK quads : quads = Transpose4(x)
  OBVIOUS
<1>2. PICK z \in 1..2 : z = 2
  OBVIOUS
<1>3. /\ Registers(quads, 4, z)
      /\ \A reg \in Upto(4), L \in Upto(z), o \in Upto(16) :
           quads[reg][At(L, o)] = x[o \div 4][At(L, 4 * (o % 4) + reg)]
  BY <1>1, <1>2, Transpose4At
<1>4. PICK a : a = quads[r]
  OBVIOUS
<1>5. DOMAIN a = Upto(32)
  BY <1>2, <1>3, <1>4 DEF Registers
<1> DEFINE f == <<0, 4, 1, 5, 2, 6, 3, 7>>
<1>6. ShuffleRound("avx2", 4, x)[r] = PermuteVar8x32(a, f)
  <2>1. ShuffleRound("avx2", 4, x) = Transpose4Avx2(x)
    BY DEF ShuffleRound
  <2> QED
    BY <1>1, <1>4, <2>1 DEF Transpose4Avx2, Registers
<1>7. PermuteVar8x32(a, f)[i] = a[4 * f[(i \div 4) + 1] + (i % 4)]
  BY <1>5 DEF PermuteVar8x32
<1>8. f[(i \div 4) + 1] = (i \div 8) + 4 * ((i \div 4) % 2)
  <2>1. ASSUME NEW m \in 0..7 PROVE f[m + 1] = (m \div 2) + 4 * (m % 2)
    <3>1. CASE m = 0  BY <3>1
    <3>2. CASE m = 1  BY <3>2
    <3>3. CASE m = 2  BY <3>3
    <3>4. CASE m = 3  BY <3>4
    <3>5. CASE m = 4  BY <3>5
    <3>6. CASE m = 5  BY <3>6
    <3>7. CASE m = 6  BY <3>7
    <3>8. CASE m = 7  BY <3>8
    <3> QED
      BY <3>1, <3>2, <3>3, <3>4, <3>5, <3>6, <3>7, <3>8
  <2> HIDE DEF f
  <2>2. i \div 4 \in 0..7 /\ (i \div 4) \div 2 = i \div 8
    BY DEF Upto
  <2> QED
    BY <2>1, <2>2
<1> HIDE DEF f
<1>9. PICK L \in Upto(2), o \in Upto(16) : i = At(L, o)
  BY <1>2, LaneOf
<1>10. PICK M \in Upto(2), p \in Upto(16) : M = (o \div 4) % 2 /\ p = 8 * L + 4 * (o \div 8) + (o % 4)
  <2>1. (o \div 4) % 2 \in Upto(2)
    BY DEF Upto
  <2>2. 8 * L + 4 * (o \div 8) + (o % 4) \in Upto(16)
    BY DEF Upto
  <2> QED
    BY <2>1, <2>2
<1>11. 4 * ((i \div 8) + 4 * ((i \div 4) % 2)) + (i % 4) = At(M, p)
  <2>1. i \div 8 = 2 * L + (o \div 8)
    BY <1>9 DEF At, Upto
  <2>2. (i \div 4) % 2 = (o \div 4) % 2
    BY <1>9 DEF At, Upto
  <2>3. i % 4 = o % 4
    BY <1>9 DEF At, Upto
  <2> QED
    BY <1>10, <2>1, <2>2, <2>3 DEF At, Upto
<1>12. ShuffleRound("avx2", 4, x)[r][i] = a[At(M, p)]
  BY <1>6, <1>7, <1>8, <1>11
<1>13. a[At(M, p)] = x[p \div 4][At(M, 4 * (p % 4) + r)]
  BY <1>2, <1>3, <1>4
<1>14. p \div 4 = 2 * L + (o \div 8) /\ p % 4 = o % 4
  <2>1. p \div 4 = 2 * L + (o \div 8)
    BY <1>10 DEF Upto
  <2>2. p % 4 = o % 4
    BY <1>10 DEF Upto
  <2> QED
    BY <2>1, <2>2
<1>15. (i * 4 + r) \div 32 = 2 * L + (o \div 8)
  BY <1>9 DEF At, Upto
<1>16. (i * 4 + r) % 32 = At(M, 4 * (o % 4) + r)
  BY <1>9, <1>10 DEF At, Upto
<1> QED
  BY <1>12, <1>13, <1>14, <1>15, <1>16

--------------------------------------------------------------------------------
(* The steps of the unshuffling kernels *)

\* Halves: register r is from the registers of pair r % (t \div 2).
LEMMA HalvesStep ==
    ASSUME NEW e \in ElementSizes, NEW x, NEW t \in Nat, NEW half \in Nat \ {0}, t = 2 * half,
           NEW z \in 1..2, Registers(x, t, z)
    PROVE  /\ Registers(Halves(x, e), t, z)
           /\ \A r \in Upto(t), L \in Upto(z), o \in Upto(16) :
                Halves(x, e)[r][At(L, o)]
                  = x[2 * (r % half) + Turn(e, o)][At(L, From(e, r \div half, o))]
<1> DEFINE last == CHOOSE r \in DOMAIN x : r + 1 \notin DOMAIN x
           y == Halves(x, e)
<1>1. last = t - 1
  <2>1. \A r \in Upto(t) : r + 1 \notin Upto(t) <=> r = t - 1
    BY DEF Upto
  <2>2. t - 1 \in Upto(t) /\ DOMAIN x = Upto(t)
    BY DEF Registers, Upto
  <2> QED
    BY <2>1, <2>2
<1>2. (last + 1) \div 2 = half
  <2> HIDE DEF last
  <2>1. last + 1 = 2 * half
    BY <1>1
  <2>2. (2 * half) \div 2 = half
    OBVIOUS
  <2> QED
    BY <2>1, <2>2, Zenon
<1>3. \A r \in Upto(t) :
        y[r] = Unpack(e, r \div half, x[2 * (r % half)], x[2 * (r % half) + 1])
  <2> DEFINE R(m, r) == Unpack(e, r \div m, x[2 * (r % m)], x[2 * (r % m) + 1])
  <2>1. \A r \in DOMAIN x : y[r] = R((last + 1) \div 2, r)
    BY DEF Halves
  <2> HIDE DEF R, last, y
  <2>2. \A r \in Upto(t) : y[r] = R(half, r)
    BY <1>2, <2>1 DEF Registers
  <2> QED
    BY <2>2 DEF R
<1>4. DOMAIN y = Upto(t)
  BY DEF Halves, Registers
<1> HIDE DEF last, y
<1>5. ASSUME NEW r \in Upto(t)
      PROVE  r \div half \in 0..1 /\ 2 * (r % half) \in Upto(t) /\ r % half \in Nat
  <2>1. r \in Nat /\ r < 2 * half
    BY DEF Upto
  <2>2. r = (r \div half) * half + (r % half) /\ r % half \in 0..(half - 1) /\ r \div half \in Nat
    BY <2>1, Division
  <2>3. r \div half \in 0..1
    <3>1. PICK q \in Nat, m \in 0..(half - 1) : q = r \div half /\ m = r % half
      BY <2>2
    <3>2. q * half <= r
      BY <2>1, <2>2, <3>1
    <3>3. CASE q >= 2
      <4>1. (q - 2) * half >= 0
        BY <3>3
      <4> QED
        BY <2>1, <3>2, <4>1
    <3> QED
      BY <3>1, <3>3
  <2> QED
    BY <2>2, <2>3 DEF Upto
<1>6. ASSUME NEW r \in Upto(t) PROVE DOMAIN y[r] = Upto(16 * z)
  <2>1. DOMAIN x[2 * (r % half)] = Upto(16 * z)
    BY <1>5 DEF Registers
  <2> QED
    BY <1>3, <2>1, UnpackDomain
<1>7. ASSUME NEW r \in Upto(t), NEW L \in Upto(z), NEW o \in Upto(16)
      PROVE  y[r][At(L, o)] = x[2 * (r % half) + Turn(e, o)][At(L, From(e, r \div half, o))]
  <2>0. PICK h \in 0..1, l \in Upto(t) : h = r \div half /\ l = 2 * (r % half)
    BY <1>5
  <2>1. PICK a, b : a = x[l] /\ b = x[l + 1]
    OBVIOUS
  <2>2. y[r] = Unpack(e, h, a, b) /\ DOMAIN a = Upto(16 * z)
    BY <1>3, <2>0, <2>1 DEF Registers
  <2>3. At(L, o) \in DOMAIN a /\ L \in Nat
    BY <2>2, InLane
  <2>4. /\ Turn(e, o) = 0 => Unpack(e, h, a, b)[At(L, o)] = a[At(L, From(e, h, o))]
        /\ Turn(e, o) = 1 => Unpack(e, h, a, b)[At(L, o)] = b[At(L, From(e, h, o))]
    BY <2>3, UnpackAt
  <2>5. CASE Turn(e, o) = 0
    <3>1. 2 * (r % half) + Turn(e, o) = l
      BY <1>5, <2>0, <2>5
    <3> QED
      BY <2>0, <2>1, <2>2, <2>4, <2>5, <3>1
  <2>6. CASE Turn(e, o) = 1
    <3>1. 2 * (r % half) + Turn(e, o) = l + 1
      BY <1>5, <2>0, <2>6
    <3> QED
      BY <2>0, <2>1, <2>2, <2>4, <2>6, <3>1
  <2> QED
    BY <2>5, <2>6, TurnInt
<1>8. Registers(y, t, z)
  BY <1>4, <1>6 DEF Registers
<1> QED
  BY <1>7, <1>8, Zenon DEF y

\* The steps of taking halves for elements of eight bytes.
LEMMA HalvesOnce8 ==
    ASSUME NEW x, NEW z \in 1..2, Registers(x, 8, z), NEW y, Registers(y, 8, z),
           \A r \in Upto(8), L \in Upto(z), o \in Upto(16) :
             y[r][At(L, o)] = x[r][At(L, o)]
    PROVE  /\ Registers(Halves(y, 1), 8, z)
           /\ \A r \in Upto(8), L \in Upto(z), o \in Upto(16) :
                Halves(y, 1)[r][At(L, o)]
                  = x[2 * (r % 4) + (o % 2)][At(L, 8 * (r \div 4) + (o \div 2))]
<1>1. PICK e \in ElementSizes, t \in Nat, half \in Nat \ {0} : e = 1 /\ t = 8 /\ half = 4
  BY DEF ElementSizes
<1>2. /\ Registers(Halves(y, e), t, z)
      /\ \A r \in Upto(t), L \in Upto(z), o \in Upto(16) :
           Halves(y, e)[r][At(L, o)]
             = y[2 * (r % half) + Turn(e, o)][At(L, From(e, r \div half, o))]
  BY <1>1, HalvesStep
<1>3. ASSUME NEW r \in Upto(8), NEW L \in Upto(z), NEW o \in Upto(16)
      PROVE  Halves(y, 1)[r][At(L, o)]
               = x[2 * (r % 4) + (o % 2)][At(L, 8 * (r \div 4) + (o \div 2))]
  <2>1. PICK q \in Upto(8), p \in Upto(16) :
          q = 2 * (r % 4) + (o % 2) /\ p = 8 * (r \div 4) + (o \div 2)
    <3>1. 2 * (r % 4) + (o % 2) \in Upto(8)
      BY DEF Upto
    <3>2. 8 * (r \div 4) + (o \div 2) \in Upto(16)
      BY DEF Upto
    <3> QED
      BY <3>1, <3>2
  <2>2. From(e, r \div half, o) = p /\ 2 * (r % half) + Turn(e, o) = q
    <3>1. r \div 4 \in 0..1
      BY DEF Upto
    <3>2. From(1, r \div 4, o) = 8 * (r \div 4) + (o \div 2) /\ Turn(1, o) = o % 2
      BY <3>1, FromTurn
    <3> QED
      BY <1>1, <2>1, <3>2, Zenon
  <2>3. Halves(y, 1)[r][At(L, o)] = y[q][At(L, p)]
    <3>1. Halves(y, e)[r][At(L, o)] = y[2 * (r % half) + Turn(e, o)][At(L, From(e, r \div half, o))]
      BY <1>1, <1>2
    <3> QED
      BY <1>1, <2>2, <3>1
  <2>4. y[q][At(L, p)] = x[q][At(L, p)]
    OBVIOUS
  <2>5. /\ q = 2 * (r % 4) + (o % 2)
        /\ p = 8 * (r \div 4) + (o \div 2)
    <3>1. q = 2 * (r % 4) + (o % 2)
      BY <2>1 DEF Upto
    <3>2. p = 8 * (r \div 4) + (o \div 2)
      BY <2>1 DEF Upto
    <3> QED
      BY <3>1, <3>2
  <2> QED
    BY <2>1, <2>3, <2>4, <2>5, Zenon
<1> QED
  BY <1>1, <1>2, <1>3, Zenon

LEMMA HalvesTwice8 ==
    ASSUME NEW x, NEW z \in 1..2, Registers(x, 8, z), NEW y, Registers(y, 8, z),
           \A r \in Upto(8), L \in Upto(z), o \in Upto(16) :
             y[r][At(L, o)] = x[2 * (r % 4) + (o % 2)][At(L, 8 * (r \div 4) + (o \div 2))]
    PROVE  /\ Registers(Halves(y, 2), 8, z)
           /\ \A r \in Upto(8), L \in Upto(z), o \in Upto(16) :
                Halves(y, 2)[r][At(L, o)]
                  = x[4 * (r % 2) + (o % 4)][At(L, 8 * ((r % 4) \div 2) + 4 * (r \div 4) + (o \div 4))]
<1>1. PICK e \in ElementSizes, t \in Nat, half \in Nat \ {0} : e = 2 /\ t = 8 /\ half = 4
  BY DEF ElementSizes
<1>2. /\ Registers(Halves(y, e), t, z)
      /\ \A r \in Upto(t), L \in Upto(z), o \in Upto(16) :
           Halves(y, e)[r][At(L, o)]
             = y[2 * (r % half) + Turn(e, o)][At(L, From(e, r \div half, o))]
  BY <1>1, HalvesStep
<1>3. ASSUME NEW r \in Upto(8), NEW L \in Upto(z), NEW o \in Upto(16)
      PROVE  Halves(y, 2)[r][At(L, o)]
               = x[4 * (r % 2) + (o % 4)][At(L, 8 * ((r % 4) \div 2) + 4 * (r \div 4) + (o \div 4))]
  <2>1. PICK q \in Upto(8), p \in Upto(16) :
          q = 2 * (r % 4) + ((o \div 2) % 2) /\ p = 8 * (r \div 4) + 2 * (o \div 4) + (o % 2)
    <3>1. 2 * (r % 4) + ((o \div 2) % 2) \in Upto(8)
      BY DEF Upto
    <3>2. 8 * (r \div 4) + 2 * (o \div 4) + (o % 2) \in Upto(16)
      BY DEF Upto
    <3> QED
      BY <3>1, <3>2
  <2>2. From(e, r \div half, o) = p /\ 2 * (r % half) + Turn(e, o) = q
    <3>1. r \div 4 \in 0..1
      BY DEF Upto
    <3>2. From(2, r \div 4, o) = 8 * (r \div 4) + 2 * (o \div 4) + (o % 2) /\ Turn(2, o) = (o \div 2) % 2
      BY <3>1, FromTurn
    <3> QED
      BY <1>1, <2>1, <3>2, Zenon
  <2>3. Halves(y, 2)[r][At(L, o)] = y[q][At(L, p)]
    <3>1. Halves(y, e)[r][At(L, o)] = y[2 * (r % half) + Turn(e, o)][At(L, From(e, r \div half, o))]
      BY <1>1, <1>2
    <3> QED
      BY <1>1, <2>2, <3>1
  <2>4. y[q][At(L, p)] = x[2 * (q % 4) + (p % 2)][At(L, 8 * (q \div 4) + (p \div 2))]
    OBVIOUS
  <2>5. /\ 2 * (q % 4) + (p % 2) = 4 * (r % 2) + (o % 4)
        /\ 8 * (q \div 4) + (p \div 2) = 8 * ((r % 4) \div 2) + 4 * (r \div 4) + (o \div 4)
    <3>1. q % 4 = 2 * (r % 2) + ((o \div 2) % 2)
      BY <2>1 DEF Upto
    <3>2. q \div 4 = (r % 4) \div 2
      BY <2>1 DEF Upto
    <3>3. p % 2 = o % 2
      BY <2>1 DEF Upto
    <3>4. p \div 2 = 4 * (r \div 4) + (o \div 4)
      BY <2>1 DEF Upto
    <3>5. o % 4 = 2 * ((o \div 2) % 2) + (o % 2)
      BY DEF Upto
    <3>6. 2 * (q % 4) + (p % 2) = 4 * (r % 2) + (o % 4)
      BY <2>1, <3>1, <3>2, <3>3, <3>4, <3>5 DEF Upto
    <3>7. 8 * (q \div 4) + (p \div 2) = 8 * ((r % 4) \div 2) + 4 * (r \div 4) + (o \div 4)
      BY <2>1, <3>1, <3>2, <3>3, <3>4, <3>5 DEF Upto
    <3> QED
      BY <3>6, <3>7
  <2> QED
    BY <2>1, <2>3, <2>4, <2>5, Zenon
<1> QED
  BY <1>1, <1>2, <1>3, Zenon

LEMMA HalvesThrice8 ==
    ASSUME NEW x, NEW z \in 1..2, Registers(x, 8, z), NEW y, Registers(y, 8, z),
           \A r \in Upto(8), L \in Upto(z), o \in Upto(16) :
             y[r][At(L, o)] = x[4 * (r % 2) + (o % 4)][At(L, 8 * ((r % 4) \div 2) + 4 * (r \div 4) + (o \div 4))]
    PROVE  /\ Registers(Halves(y, 4), 8, z)
           /\ \A r \in Upto(8), L \in Upto(z), o \in Upto(16) :
                Halves(y, 4)[r][At(L, o)]
                  = x[o % 8][At(L, 8 * (r % 2) + 4 * ((r % 4) \div 2) + 2 * (r \div 4) + (o \div 8))]
<1>1. PICK e \in ElementSizes, t \in Nat, half \in Nat \ {0} : e = 4 /\ t = 8 /\ half = 4
  BY DEF ElementSizes
<1>2. /\ Registers(Halves(y, e), t, z)
      /\ \A r \in Upto(t), L \in Upto(z), o \in Upto(16) :
           Halves(y, e)[r][At(L, o)]
             = y[2 * (r % half) + Turn(e, o)][At(L, From(e, r \div half, o))]
  BY <1>1, HalvesStep
<1>3. ASSUME NEW r \in Upto(8), NEW L \in Upto(z), NEW o \in Upto(16)
      PROVE  Halves(y, 4)[r][At(L, o)]
               = x[o % 8][At(L, 8 * (r % 2) + 4 * ((r % 4) \div 2) + 2 * (r \div 4) + (o \div 8))]
  <2>1. PICK q \in Upto(8), p \in Upto(16) :
          q = 2 * (r % 4) + ((o \div 4) % 2) /\ p = 8 * (r \div 4) + 4 * (o \div 8) + (o % 4)
    <3>1. 2 * (r % 4) + ((o \div 4) % 2) \in Upto(8)
      BY DEF Upto
    <3>2. 8 * (r \div 4) + 4 * (o \div 8) + (o % 4) \in Upto(16)
      BY DEF Upto
    <3> QED
      BY <3>1, <3>2
  <2>2. From(e, r \div half, o) = p /\ 2 * (r % half) + Turn(e, o) = q
    <3>1. r \div 4 \in 0..1
      BY DEF Upto
    <3>2. From(4, r \div 4, o) = 8 * (r \div 4) + 4 * (o \div 8) + (o % 4) /\ Turn(4, o) = (o \div 4) % 2
      BY <3>1, FromTurn
    <3> QED
      BY <1>1, <2>1, <3>2, Zenon
  <2>3. Halves(y, 4)[r][At(L, o)] = y[q][At(L, p)]
    <3>1. Halves(y, e)[r][At(L, o)] = y[2 * (r % half) + Turn(e, o)][At(L, From(e, r \div half, o))]
      BY <1>1, <1>2
    <3> QED
      BY <1>1, <2>2, <3>1
  <2>4. y[q][At(L, p)] = x[4 * (q % 2) + (p % 4)][At(L, 8 * ((q % 4) \div 2) + 4 * (q \div 4) + (p \div 4))]
    OBVIOUS
  <2>5. /\ 4 * (q % 2) + (p % 4) = o % 8
        /\ 8 * ((q % 4) \div 2) + 4 * (q \div 4) + (p \div 4) = 8 * (r % 2) + 4 * ((r % 4) \div 2) + 2 * (r \div 4) + (o \div 8)
    <3>1. q % 2 = (o \div 4) % 2
      BY <2>1 DEF Upto
    <3>2. q \div 4 = (r % 4) \div 2
      BY <2>1 DEF Upto
    <3>3. q % 4 = 2 * (r % 2) + ((o \div 4) % 2)
      BY <2>1 DEF Upto
    <3>4. (q % 4) \div 2 = r % 2
      <4>1. r % 2 \in Nat /\ (o \div 4) % 2 \in 0..1
        BY DEF Upto
      <4> QED
        BY <3>3, <4>1, Pair
    <3>5. p % 4 = o % 4
      BY <2>1 DEF Upto
    <3>6. p \div 4 = 2 * (r \div 4) + (o \div 8)
      BY <2>1 DEF Upto
    <3>7. o % 8 = 4 * ((o \div 4) % 2) + (o % 4)
      BY DEF Upto
    <3>8. 4 * (q % 2) + (p % 4) = o % 8
      BY <2>1, <3>1, <3>2, <3>3, <3>4, <3>5, <3>6, <3>7 DEF Upto
    <3>9. 8 * ((q % 4) \div 2) + 4 * (q \div 4) + (p \div 4) = 8 * (r % 2) + 4 * ((r % 4) \div 2) + 2 * (r \div 4) + (o \div 8)
      BY <2>1, <3>1, <3>2, <3>3, <3>4, <3>5, <3>6, <3>7 DEF Upto
    <3> QED
      BY <3>8, <3>9
  <2> QED
    BY <2>1, <2>3, <2>4, <2>5, Zenon
<1> QED
  BY <1>1, <1>2, <1>3, Zenon

LEMMA HalvesPermuted8 ==
    ASSUME NEW x, NEW z \in 1..2, Registers(x, 8, z), NEW y, Registers(y, 8, z),
           \A r \in Upto(8), L \in Upto(z), o \in Upto(16) :
             y[r][At(L, o)] = x[4 * (r % 2) + (o % 4)][At(o \div 8, 8 * ((r % 4) \div 2) + 4 * (r \div 4) + 2 * L + ((o \div 4) % 2))]
    PROVE  /\ Registers(Halves(y, 4), 8, z)
           /\ \A r \in Upto(8), L \in Upto(z), o \in Upto(16) :
                Halves(y, 4)[r][At(L, o)]
                  = x[o % 8][At(r \div 4, 8 * (r % 2) + 4 * ((r % 4) \div 2) + 2 * L + (o \div 8))]
<1>1. PICK e \in ElementSizes, t \in Nat, half \in Nat \ {0} : e = 4 /\ t = 8 /\ half = 4
  BY DEF ElementSizes
<1>2. /\ Registers(Halves(y, e), t, z)
      /\ \A r \in Upto(t), L \in Upto(z), o \in Upto(16) :
           Halves(y, e)[r][At(L, o)]
             = y[2 * (r % half) + Turn(e, o)][At(L, From(e, r \div half, o))]
  BY <1>1, HalvesStep
<1>3. ASSUME NEW r \in Upto(8), NEW L \in Upto(z), NEW o \in Upto(16)
      PROVE  Halves(y, 4)[r][At(L, o)]
               = x[o % 8][At(r \div 4, 8 * (r % 2) + 4 * ((r % 4) \div 2) + 2 * L + (o \div 8))]
  <2>1. PICK q \in Upto(8), p \in Upto(16) :
          q = 2 * (r % 4) + ((o \div 4) % 2) /\ p = 8 * (r \div 4) + 4 * (o \div 8) + (o % 4)
    <3>1. 2 * (r % 4) + ((o \div 4) % 2) \in Upto(8)
      BY DEF Upto
    <3>2. 8 * (r \div 4) + 4 * (o \div 8) + (o % 4) \in Upto(16)
      BY DEF Upto
    <3> QED
      BY <3>1, <3>2
  <2>2. From(e, r \div half, o) = p /\ 2 * (r % half) + Turn(e, o) = q
    <3>1. r \div 4 \in 0..1
      BY DEF Upto
    <3>2. From(4, r \div 4, o) = 8 * (r \div 4) + 4 * (o \div 8) + (o % 4) /\ Turn(4, o) = (o \div 4) % 2
      BY <3>1, FromTurn
    <3> QED
      BY <1>1, <2>1, <3>2, Zenon
  <2>3. Halves(y, 4)[r][At(L, o)] = y[q][At(L, p)]
    <3>1. Halves(y, e)[r][At(L, o)] = y[2 * (r % half) + Turn(e, o)][At(L, From(e, r \div half, o))]
      BY <1>1, <1>2
    <3> QED
      BY <1>1, <2>2, <3>1
  <2>4. y[q][At(L, p)] = x[4 * (q % 2) + (p % 4)][At(p \div 8, 8 * ((q % 4) \div 2) + 4 * (q \div 4) + 2 * L + ((p \div 4) % 2))]
    OBVIOUS
  <2>5. /\ 4 * (q % 2) + (p % 4) = o % 8
        /\ p \div 8 = r \div 4
        /\ 8 * ((q % 4) \div 2) + 4 * (q \div 4) + 2 * L + ((p \div 4) % 2) = 8 * (r % 2) + 4 * ((r % 4) \div 2) + 2 * L + (o \div 8)
    <3>1. q % 2 = (o \div 4) % 2
      BY <2>1 DEF Upto
    <3>2. q \div 4 = (r % 4) \div 2
      BY <2>1 DEF Upto
    <3>3. q % 4 = 2 * (r % 2) + ((o \div 4) % 2)
      BY <2>1 DEF Upto
    <3>4. (q % 4) \div 2 = r % 2
      <4>1. r % 2 \in Nat /\ (o \div 4) % 2 \in 0..1
        BY DEF Upto
      <4> QED
        BY <3>3, <4>1, Pair
    <3>5. p % 4 = o % 4
      BY <2>1 DEF Upto
    <3>6. p \div 4 = 2 * (r \div 4) + (o \div 8)
      BY <2>1 DEF Upto
    <3>7. o % 8 = 4 * ((o \div 4) % 2) + (o % 4)
      BY DEF Upto
    <3>8. (p \div 4) % 2 = o \div 8
      <4>1. r \div 4 \in Nat /\ o \div 8 \in 0..1
        BY DEF Upto
      <4> QED
        BY <3>6, <4>1, Pair
    <3>9. 4 * (q % 2) + (p % 4) = o % 8
      BY <2>1, <3>1, <3>2, <3>3, <3>4, <3>5, <3>6, <3>7, <3>8 DEF Upto
    <3>10. p \div 8 = r \div 4
      BY <2>1, <3>1, <3>2, <3>3, <3>4, <3>5, <3>6, <3>7, <3>8 DEF Upto
    <3>11. 8 * ((q % 4) \div 2) + 4 * (q \div 4) + 2 * L + ((p \div 4) % 2) = 8 * (r % 2) + 4 * ((r % 4) \div 2) + 2 * L + (o \div 8)
      BY <2>1, <3>1, <3>2, <3>3, <3>4, <3>5, <3>6, <3>7, <3>8 DEF Upto
    <3> QED
      BY <3>9, <3>10, <3>11
  <2> QED
    BY <2>1, <2>3, <2>4, <2>5, Zenon
<1> QED
  BY <1>1, <1>2, <1>3, Zenon

\* The steps of taking halves for elements of four bytes.
LEMMA HalvesOnce4 ==
    ASSUME NEW x, NEW z \in 1..2, Registers(x, 4, z), NEW y, Registers(y, 4, z),
           \A r \in Upto(4), L \in Upto(z), o \in Upto(16) :
             y[r][At(L, o)] = x[r][At(L, o)]
    PROVE  /\ Registers(Halves(y, 1), 4, z)
           /\ \A r \in Upto(4), L \in Upto(z), o \in Upto(16) :
                Halves(y, 1)[r][At(L, o)]
                  = x[2 * (r % 2) + (o % 2)][At(L, 8 * (r \div 2) + (o \div 2))]
<1>1. PICK e \in ElementSizes, t \in Nat, half \in Nat \ {0} : e = 1 /\ t = 4 /\ half = 2
  BY DEF ElementSizes
<1>2. /\ Registers(Halves(y, e), t, z)
      /\ \A r \in Upto(t), L \in Upto(z), o \in Upto(16) :
           Halves(y, e)[r][At(L, o)]
             = y[2 * (r % half) + Turn(e, o)][At(L, From(e, r \div half, o))]
  BY <1>1, HalvesStep
<1>3. ASSUME NEW r \in Upto(4), NEW L \in Upto(z), NEW o \in Upto(16)
      PROVE  Halves(y, 1)[r][At(L, o)]
               = x[2 * (r % 2) + (o % 2)][At(L, 8 * (r \div 2) + (o \div 2))]
  <2>1. PICK q \in Upto(4), p \in Upto(16) :
          q = 2 * (r % 2) + (o % 2) /\ p = 8 * (r \div 2) + (o \div 2)
    <3>1. 2 * (r % 2) + (o % 2) \in Upto(4)
      BY DEF Upto
    <3>2. 8 * (r \div 2) + (o \div 2) \in Upto(16)
      BY DEF Upto
    <3> QED
      BY <3>1, <3>2
  <2>2. From(e, r \div half, o) = p /\ 2 * (r % half) + Turn(e, o) = q
    <3>1. r \div 2 \in 0..1
      BY DEF Upto
    <3>2. From(1, r \div 2, o) = 8 * (r \div 2) + (o \div 2) /\ Turn(1, o) = o % 2
      BY <3>1, FromTurn
    <3> QED
      BY <1>1, <2>1, <3>2, Zenon
  <2>3. Halves(y, 1)[r][At(L, o)] = y[q][At(L, p)]
    <3>1. Halves(y, e)[r][At(L, o)] = y[2 * (r % half) + Turn(e, o)][At(L, From(e, r \div half, o))]
      BY <1>1, <1>2
    <3> QED
      BY <1>1, <2>2, <3>1
  <2>4. y[q][At(L, p)] = x[q][At(L, p)]
    OBVIOUS
  <2>5. /\ q = 2 * (r % 2) + (o % 2)
        /\ p = 8 * (r \div 2) + (o \div 2)
    <3>1. q = 2 * (r % 2) + (o % 2)
      BY <2>1 DEF Upto
    <3>2. p = 8 * (r \div 2) + (o \div 2)
      BY <2>1 DEF Upto
    <3> QED
      BY <3>1, <3>2
  <2> QED
    BY <2>1, <2>3, <2>4, <2>5, Zenon
<1> QED
  BY <1>1, <1>2, <1>3, Zenon

LEMMA HalvesTwice4 ==
    ASSUME NEW x, NEW z \in 1..2, Registers(x, 4, z), NEW y, Registers(y, 4, z),
           \A r \in Upto(4), L \in Upto(z), o \in Upto(16) :
             y[r][At(L, o)] = x[2 * (r % 2) + (o % 2)][At(L, 8 * (r \div 2) + (o \div 2))]
    PROVE  /\ Registers(Halves(y, 2), 4, z)
           /\ \A r \in Upto(4), L \in Upto(z), o \in Upto(16) :
                Halves(y, 2)[r][At(L, o)]
                  = x[o % 4][At(L, 8 * (r % 2) + 4 * (r \div 2) + (o \div 4))]
<1>1. PICK e \in ElementSizes, t \in Nat, half \in Nat \ {0} : e = 2 /\ t = 4 /\ half = 2
  BY DEF ElementSizes
<1>2. /\ Registers(Halves(y, e), t, z)
      /\ \A r \in Upto(t), L \in Upto(z), o \in Upto(16) :
           Halves(y, e)[r][At(L, o)]
             = y[2 * (r % half) + Turn(e, o)][At(L, From(e, r \div half, o))]
  BY <1>1, HalvesStep
<1>3. ASSUME NEW r \in Upto(4), NEW L \in Upto(z), NEW o \in Upto(16)
      PROVE  Halves(y, 2)[r][At(L, o)]
               = x[o % 4][At(L, 8 * (r % 2) + 4 * (r \div 2) + (o \div 4))]
  <2>1. PICK q \in Upto(4), p \in Upto(16) :
          q = 2 * (r % 2) + ((o \div 2) % 2) /\ p = 8 * (r \div 2) + 2 * (o \div 4) + (o % 2)
    <3>1. 2 * (r % 2) + ((o \div 2) % 2) \in Upto(4)
      BY DEF Upto
    <3>2. 8 * (r \div 2) + 2 * (o \div 4) + (o % 2) \in Upto(16)
      BY DEF Upto
    <3> QED
      BY <3>1, <3>2
  <2>2. From(e, r \div half, o) = p /\ 2 * (r % half) + Turn(e, o) = q
    <3>1. r \div 2 \in 0..1
      BY DEF Upto
    <3>2. From(2, r \div 2, o) = 8 * (r \div 2) + 2 * (o \div 4) + (o % 2) /\ Turn(2, o) = (o \div 2) % 2
      BY <3>1, FromTurn
    <3> QED
      BY <1>1, <2>1, <3>2, Zenon
  <2>3. Halves(y, 2)[r][At(L, o)] = y[q][At(L, p)]
    <3>1. Halves(y, e)[r][At(L, o)] = y[2 * (r % half) + Turn(e, o)][At(L, From(e, r \div half, o))]
      BY <1>1, <1>2
    <3> QED
      BY <1>1, <2>2, <3>1
  <2>4. y[q][At(L, p)] = x[2 * (q % 2) + (p % 2)][At(L, 8 * (q \div 2) + (p \div 2))]
    OBVIOUS
  <2>5. /\ 2 * (q % 2) + (p % 2) = o % 4
        /\ 8 * (q \div 2) + (p \div 2) = 8 * (r % 2) + 4 * (r \div 2) + (o \div 4)
    <3>1. q % 2 = (o \div 2) % 2
      BY <2>1 DEF Upto
    <3>2. q \div 2 = r % 2
      BY <2>1 DEF Upto
    <3>3. p % 2 = o % 2
      BY <2>1 DEF Upto
    <3>4. p \div 2 = 4 * (r \div 2) + (o \div 4)
      BY <2>1 DEF Upto
    <3>5. o % 4 = 2 * ((o \div 2) % 2) + (o % 2)
      BY DEF Upto
    <3>6. 2 * (q % 2) + (p % 2) = o % 4
      BY <2>1, <3>1, <3>2, <3>3, <3>4, <3>5 DEF Upto
    <3>7. 8 * (q \div 2) + (p \div 2) = 8 * (r % 2) + 4 * (r \div 2) + (o \div 4)
      BY <2>1, <3>1, <3>2, <3>3, <3>4, <3>5 DEF Upto
    <3> QED
      BY <3>6, <3>7
  <2> QED
    BY <2>1, <2>3, <2>4, <2>5, Zenon
<1> QED
  BY <1>1, <1>2, <1>3, Zenon

\* The orders in which registers are stored, as functions of their index.
LEMMA StoreOrders ==
    ASSUME NEW reg \in 0..7
    PROVE  /\ <<0, 4, 2, 6, 1, 5, 3, 7>>[reg + 1] = 4 * (reg % 2) + 2 * ((reg \div 2) % 2) + (reg \div 4)
           /\ <<0, 2, 1, 3, 4, 6, 5, 7>>[reg + 1] = 4 * (reg \div 4) + 2 * (reg % 2) + ((reg \div 2) % 2)
           /\ reg < 4 => <<0, 2, 1, 3>>[reg + 1] = 2 * (reg % 2) + (reg \div 2)
<1>1. CASE reg = 0  BY <1>1
<1>2. CASE reg = 1  BY <1>2
<1>3. CASE reg = 2  BY <1>3
<1>4. CASE reg = 3  BY <1>4
<1>5. CASE reg = 4  BY <1>5
<1>6. CASE reg = 5  BY <1>6
<1>7. CASE reg = 6  BY <1>7
<1>8. CASE reg = 7  BY <1>8
<1> QED
  BY <1>1, <1>2, <1>3, <1>4, <1>5, <1>6, <1>7, <1>8

\* All registers before the first step.
LEMMA Untouched ==
    ASSUME NEW x, NEW t, NEW z
    PROVE  \A r \in Upto(t), L \in Upto(z), o \in Upto(16) : x[r][At(L, o)] = x[r][At(L, o)]
  OBVIOUS

LEMMA HalvesTwice8At ==
    ASSUME NEW x, NEW z \in 1..2, Registers(x, 8, z), NEW words, words = Halves(Halves(x, 1), 2)
    PROVE  /\ Registers(words, 8, z)
           /\ \A r \in Upto(8), L \in Upto(z), o \in Upto(16) :
                words[r][At(L, o)]
                  = x[4 * (r % 2) + (o % 4)][At(L, 8 * ((r % 4) \div 2) + 4 * (r \div 4) + (o \div 4))]
<1>1. PICK y : y = Halves(x, 1)
  OBVIOUS
<1>2. /\ Registers(y, 8, z)
      /\ \A r \in Upto(8), L \in Upto(z), o \in Upto(16) :
           y[r][At(L, o)] = x[2 * (r % 4) + (o % 2)][At(L, 8 * (r \div 4) + (o \div 2))]
  BY <1>1, Untouched, HalvesOnce8
<1>3. words = Halves(y, 2)
  BY <1>1, Zenon
<1> QED
  BY <1>2, <1>3, HalvesTwice8

LEMMA HalvesTwice4At ==
    ASSUME NEW x, NEW z \in 1..2, Registers(x, 4, z), NEW words, words = Halves(Halves(x, 1), 2)
    PROVE  /\ Registers(words, 4, z)
           /\ \A r \in Upto(4), L \in Upto(z), o \in Upto(16) :
                words[r][At(L, o)] = x[o % 4][At(L, 8 * (r % 2) + 4 * (r \div 2) + (o \div 4))]
<1>1. PICK y : y = Halves(x, 1)
  OBVIOUS
<1>2. /\ Registers(y, 4, z)
      /\ \A r \in Upto(4), L \in Upto(z), o \in Upto(16) :
           y[r][At(L, o)] = x[2 * (r % 2) + (o % 2)][At(L, 8 * (r \div 2) + (o \div 2))]
  BY <1>1, Untouched, HalvesOnce4
<1>3. words = Halves(y, 2)
  BY <1>1, Zenon
<1> QED
  BY <1>2, <1>3, HalvesTwice4

\* A round of each kernel: the registers, stored one after the other, hold byte i
\* of register r as byte r of element i.
LEMMA UnshuffleRound8Sse2 ==
    ASSUME NEW x, Registers(x, 8, 1), NEW reg \in Upto(8), NEW i \in Upto(16)
    PROVE  UnshuffleRound("sse2", 8, x)[reg][i] = x[(reg * 16 + i) % 8][(reg * 16 + i) \div 8]
<1> DEFINE g == <<0, 4, 2, 6, 1, 5, 3, 7>>
<1>1. PICK z \in 1..2, L \in Upto(1) : z = 1 /\ L = 0
  BY DEF Upto
<1>2. PICK words, doubles : words = Halves(Halves(x, 1), 2) /\ doubles = Halves(words, 4)
  OBVIOUS
<1>3. UnshuffleRound("sse2", 8, x)[reg] = doubles[g[reg + 1]]
  <2>1. UnshuffleRound("sse2", 8, x) = Restore8(x)
    BY DEF UnshuffleRound
  <2>2. Restore8(x) = [j \in DOMAIN x |-> doubles[g[j + 1]]]
    BY <1>2, Zenon DEF Restore8
  <2> HIDE DEF g
  <2> QED
    BY <2>1, <2>2 DEF Registers
<1>4. PICK r \in Upto(8) : r = g[reg + 1] /\ r = 4 * (reg % 2) + 2 * ((reg \div 2) % 2) + (reg \div 4)
  <2>1. reg \in 0..7
    BY DEF Upto
  <2>2. g[reg + 1] = 4 * (reg % 2) + 2 * ((reg \div 2) % 2) + (reg \div 4)
    BY <2>1, StoreOrders
  <2> HIDE DEF g
  <2>3. 4 * (reg % 2) + 2 * ((reg \div 2) % 2) + (reg \div 4) \in Upto(8)
    BY DEF Upto
  <2> QED
    BY <2>2, <2>3
<1> HIDE DEF g
<1>5. /\ Registers(words, 8, z)
      /\ \A m \in Upto(8), M \in Upto(z), o \in Upto(16) :
           words[m][At(M, o)]
             = x[4 * (m % 2) + (o % 4)][At(M, 8 * ((m % 4) \div 2) + 4 * (m \div 4) + (o \div 4))]
  BY <1>1, <1>2, HalvesTwice8At
<1>6. \A m \in Upto(8), M \in Upto(z), o \in Upto(16) :
        doubles[m][At(M, o)]
          = x[o % 8][At(M, 8 * (m % 2) + 4 * ((m % 4) \div 2) + 2 * (m \div 4) + (o \div 8))]
  <2>1. Registers(x, 8, z) /\ doubles = Halves(words, 4)
    BY <1>1, <1>2
  <2> QED
    BY <1>5, <2>1, HalvesThrice8
<1>7. doubles[r][At(L, i)] = x[i % 8][At(L, 8 * (r % 2) + 4 * ((r % 4) \div 2) + 2 * (r \div 4) + (i \div 8))]
  BY <1>1, <1>6
<1>8. At(L, i) = i
  BY <1>1 DEF At, Upto
<1>9. At(L, 8 * (r % 2) + 4 * ((r % 4) \div 2) + 2 * (r \div 4) + (i \div 8)) = (reg * 16 + i) \div 8
  <2>1. r % 2 = reg \div 4
    BY <1>4 DEF Upto
  <2>2. (r % 4) \div 2 = (reg \div 2) % 2
    <3>1. r % 4 = 2 * ((reg \div 2) % 2) + (reg \div 4)
      BY <1>4 DEF Upto
    <3>2. (reg \div 2) % 2 \in Nat /\ reg \div 4 \in 0..1
      BY DEF Upto
    <3> QED
      BY <3>1, <3>2, Pair
  <2>3. r \div 4 = reg % 2
    BY <1>4 DEF Upto
  <2>4. (reg * 16 + i) \div 8 = 2 * reg + (i \div 8)
    BY DEF Upto
  <2>5. 8 * (reg \div 4) + 4 * ((reg \div 2) % 2) + 2 * (reg % 2) = 2 * reg
    BY DEF Upto
  <2>6. At(L, 8 * (reg \div 4) + 4 * ((reg \div 2) % 2) + 2 * (reg % 2) + (i \div 8)) = 2 * reg + (i \div 8)
    BY <1>1, <2>5 DEF At, Upto
  <2> QED
    BY <2>1, <2>2, <2>3, <2>4, <2>6
<1>10. (reg * 16 + i) % 8 = i % 8
  BY DEF Upto
<1> QED
  BY <1>3, <1>4, <1>7, <1>8, <1>9, <1>10, Zenon

LEMMA UnshuffleRound4Sse2 ==
    ASSUME NEW x, Registers(x, 4, 1), NEW reg \in Upto(4), NEW i \in Upto(16)
    PROVE  UnshuffleRound("sse2", 4, x)[reg][i] = x[(reg * 16 + i) % 4][(reg * 16 + i) \div 4]
<1> DEFINE g == <<0, 2, 1, 3>>
<1>1. PICK z \in 1..2, L \in Upto(1) : z = 1 /\ L = 0
  BY DEF Upto
<1>2. PICK words : words = Halves(Halves(x, 1), 2)
  OBVIOUS
<1>3. UnshuffleRound("sse2", 4, x)[reg] = words[g[reg + 1]]
  <2>1. UnshuffleRound("sse2", 4, x) = Restore4(x)
    BY DEF UnshuffleRound
  <2>2. Restore4(x) = [j \in DOMAIN x |-> words[g[j + 1]]]
    BY <1>2, Zenon DEF Restore4
  <2> HIDE DEF g
  <2> QED
    BY <2>1, <2>2 DEF Registers
<1>4. PICK r \in Upto(4) : r = g[reg + 1] /\ r = 2 * (reg % 2) + (reg \div 2)
  <2>1. reg \in 0..7 /\ reg < 4
    BY DEF Upto
  <2>2. g[reg + 1] = 2 * (reg % 2) + (reg \div 2)
    BY <2>1, StoreOrders
  <2> HIDE DEF g
  <2>3. 2 * (reg % 2) + (reg \div 2) \in Upto(4)
    BY DEF Upto
  <2> QED
    BY <2>2, <2>3
<1> HIDE DEF g
<1>5. \A m \in Upto(4), M \in Upto(z), o \in Upto(16) :
        words[m][At(M, o)] = x[o % 4][At(M, 8 * (m % 2) + 4 * (m \div 2) + (o \div 4))]
  BY <1>1, <1>2, HalvesTwice4At
<1>6. words[r][At(L, i)] = x[i % 4][At(L, 8 * (r % 2) + 4 * (r \div 2) + (i \div 4))]
  BY <1>1, <1>5
<1>7. At(L, i) = i
  BY <1>1 DEF At, Upto
<1>8. At(L, 8 * (r % 2) + 4 * (r \div 2) + (i \div 4)) = (reg * 16 + i) \div 4
  <2>1. r % 2 = reg \div 2
    BY <1>4 DEF Upto
  <2>2. r \div 2 = reg % 2
    BY <1>4 DEF Upto
  <2>3. (reg * 16 + i) \div 4 = 4 * reg + (i \div 4)
    BY DEF Upto
  <2>4. 8 * (reg \div 2) + 4 * (reg % 2) = 4 * reg
    BY DEF Upto
  <2>5. At(L, 8 * (reg \div 2) + 4 * (reg % 2) + (i \div 4)) = 4 * reg + (i \div 4)
    BY <1>1, <2>4 DEF At, Upto
  <2> QED
    BY <2>1, <2>2, <2>3, <2>5
<1>9. (reg * 16 + i) % 4 = i % 4
  BY DEF Upto
<1> QED
  BY <1>3, <1>4, <1>6, <1>7, <1>8, <1>9, Zenon

\* The step of unshuffle8_avx2 that crosses lanes.
LEMMA Permuted8 ==
    ASSUME NEW x, Registers(x, 8, 2), NEW words, Registers(words, 8, 2),
           \A r \in Upto(8), L \in Upto(2), o \in Upto(16) :
             words[r][At(L, o)]
               = x[4 * (r % 2) + (o % 4)][At(L, 8 * ((r % 4) \div 2) + 4 * (r \div 4) + (o \div 4))],
           NEW y, DOMAIN y = Upto(8),
           \A r \in Upto(8) : y[r] = Permute4x64(words[r], <<0, 2, 1, 3>>)
    PROVE  /\ Registers(y, 8, 2)
           /\ \A r \in Upto(8), L \in Upto(2), o \in Upto(16) :
                y[r][At(L, o)] = x[4 * (r % 2) + (o % 4)]
                  [At(o \div 8, 8 * ((r % 4) \div 2) + 4 * (r \div 4) + 2 * L + ((o \div 4) % 2))]
<1>1. Registers(y, 8, 2)
  BY DEF Registers, Permute4x64
<1>2. ASSUME NEW r \in Upto(8), NEW L \in Upto(2), NEW o \in Upto(16)
      PROVE  y[r][At(L, o)] = x[4 * (r % 2) + (o % 4)]
               [At(o \div 8, 8 * ((r % 4) \div 2) + 4 * (r \div 4) + 2 * L + ((o \div 4) % 2))]
  <2> DEFINE f == <<0, 2, 1, 3>>
  <2>1. PICK a : a = words[r] /\ DOMAIN a = Upto(32)
    BY DEF Registers
  <2>2. PICK q \in Nat : q = f[2 * L + (o \div 8) + 1] /\ q = 2 * (o \div 8) + L
    <3>1. PICK reg \in 0..7 : reg = 2 * L + (o \div 8) /\ reg < 4 /\ reg % 2 = o \div 8 /\ reg \div 2 = L
      <4>1. 2 * L + (o \div 8) \in 0..7 /\ 2 * L + (o \div 8) < 4
        BY DEF Upto
      <4>2. (2 * L + (o \div 8)) % 2 = o \div 8
        BY DEF Upto
      <4>3. (2 * L + (o \div 8)) \div 2 = L
        BY DEF Upto
      <4> QED
        BY <4>1, <4>2, <4>3
    <3>2. f[reg + 1] = 2 * (reg % 2) + (reg \div 2)
      BY <3>1, StoreOrders
    <3> HIDE DEF f
    <3>3. 2 * (o \div 8) + L \in Nat
      BY DEF Upto
    <3> QED
      BY <3>1, <3>2, <3>3
  <2> HIDE DEF f
  <2>3. y[r][At(L, o)] = a[8 * q + (o % 8)]
    <3>1. f[2 * L + (o \div 8) + 1] = q
      BY <2>2
    <3>2. DOMAIN a = Upto(32)
      BY <2>1
    <3>3. Permute4x64(a, f)[At(L, o)] = a[8 * q + (o % 8)]
      BY <3>1, <3>2, Permute4x64At
    <3> QED
      BY <2>1, <3>3 DEF f
  <2>4. PICK M \in Upto(2), p \in Upto(16) : M = o \div 8 /\ p = 8 * L + (o % 8)
    <3>1. o \div 8 \in Upto(2) /\ 8 * L + (o % 8) \in Upto(16)
      BY DEF Upto
    <3> QED
      BY <3>1
  <2>5. 8 * q + (o % 8) = At(M, p)
    BY <2>2, <2>4 DEF At, Upto
  <2>6. a[At(M, p)] = x[4 * (r % 2) + (p % 4)][At(M, 8 * ((r % 4) \div 2) + 4 * (r \div 4) + (p \div 4))]
    BY <2>1
  <2>7. p % 4 = o % 4
    BY <2>4 DEF Upto
  <2>8. p \div 4 = 2 * L + ((o \div 4) % 2)
    BY <2>4 DEF Upto
  <2>9. 8 * ((r % 4) \div 2) + 4 * (r \div 4) + (p \div 4)
          = 8 * ((r % 4) \div 2) + 4 * (r \div 4) + 2 * L + ((o \div 4) % 2)
    BY <2>8 DEF Upto
  <2> QED
    BY <2>3, <2>4, <2>5, <2>6, <2>7, <2>9, Zenon
<1> QED
  BY <1>1, <1>2

LEMMA UnshuffleRound8Avx2 ==
    ASSUME NEW x, Registers(x, 8, 2), NEW reg \in Upto(8), NEW i \in Upto(32)
    PROVE  UnshuffleRound("avx2", 8, x)[reg][i] = x[(reg * 32 + i) % 8][(reg * 32 + i) \div 8]
<1> DEFINE g == <<0, 2, 1, 3, 4, 6, 5, 7>>
<1>1. PICK z \in 1..2 : z = 2
  OBVIOUS
<1>2. PICK words : words = Halves(Halves(x, 1), 2)
  OBVIOUS
<1>3. PICK y : y = [j \in DOMAIN x |-> Permute4x64(words[j], <<0, 2, 1, 3>>)]
  OBVIOUS
<1>4. PICK doubles : doubles = Halves(y, 4)
  OBVIOUS
<1>5. UnshuffleRound("avx2", 8, x)[reg] = doubles[g[reg + 1]]
  <2>1. UnshuffleRound("avx2", 8, x) = Restore8Avx2(x)
    BY DEF UnshuffleRound
  <2>2. Restore8Avx2(x) = [j \in DOMAIN x |-> doubles[g[j + 1]]]
    BY <1>2, <1>3, <1>4, Zenon DEF Restore8Avx2
  <2> HIDE DEF g
  <2> QED
    BY <2>1, <2>2 DEF Registers
<1>6. PICK r \in Upto(8) : r = g[reg + 1] /\ r = 4 * (reg \div 4) + 2 * (reg % 2) + ((reg \div 2) % 2)
  <2>1. reg \in 0..7
    BY DEF Upto
  <2>2. g[reg + 1] = 4 * (reg \div 4) + 2 * (reg % 2) + ((reg \div 2) % 2)
    BY <2>1, StoreOrders
  <2> HIDE DEF g
  <2>3. 4 * (reg \div 4) + 2 * (reg % 2) + ((reg \div 2) % 2) \in Upto(8)
    BY DEF Upto
  <2> QED
    BY <2>2, <2>3
<1> HIDE DEF g
<1>7. /\ Registers(words, 8, z)
      /\ \A m \in Upto(8), M \in Upto(z), o \in Upto(16) :
           words[m][At(M, o)]
             = x[4 * (m % 2) + (o % 4)][At(M, 8 * ((m % 4) \div 2) + 4 * (m \div 4) + (o \div 4))]
  BY <1>1, <1>2, HalvesTwice8At
<1>8. DOMAIN y = Upto(8) /\ \A m \in Upto(8) : y[m] = Permute4x64(words[m], <<0, 2, 1, 3>>)
  BY <1>3 DEF Registers
<1>9. /\ Registers(y, 8, z)
      /\ \A m \in Upto(8), M \in Upto(z), o \in Upto(16) :
           y[m][At(M, o)] = x[4 * (m % 2) + (o % 4)]
             [At(o \div 8, 8 * ((m % 4) \div 2) + 4 * (m \div 4) + 2 * M + ((o \div 4) % 2))]
  BY <1>1, <1>7, <1>8, Permuted8
<1>10. \A m \in Upto(8), M \in Upto(z), o \in Upto(16) :
         doubles[m][At(M, o)]
           = x[o % 8][At(m \div 4, 8 * (m % 2) + 4 * ((m % 4) \div 2) + 2 * M + (o \div 8))]
  BY <1>1, <1>4, <1>9, HalvesPermuted8
<1>11. PICK L \in Upto(2), o \in Upto(16) : i = At(L, o)
  BY <1>1, LaneOf
<1>12. doubles[r][At(L, o)]
         = x[o % 8][At(r \div 4, 8 * (r % 2) + 4 * ((r % 4) \div 2) + 2 * L + (o \div 8))]
  BY <1>1, <1>10
<1>13. At(r \div 4, 8 * (r % 2) + 4 * ((r % 4) \div 2) + 2 * L + (o \div 8)) = (reg * 32 + i) \div 8
  <2>1. r \div 4 = reg \div 4
    BY <1>6 DEF Upto
  <2>2. r % 2 = (reg \div 2) % 2
    BY <1>6 DEF Upto
  <2>3. (r % 4) \div 2 = reg % 2
    <3>1. r % 4 = 2 * (reg % 2) + ((reg \div 2) % 2)
      BY <1>6 DEF Upto
    <3>2. reg % 2 \in Nat /\ (reg \div 2) % 2 \in 0..1
      BY DEF Upto
    <3> QED
      BY <3>1, <3>2, Pair
  <2>4. (reg * 32 + i) \div 8 = 4 * reg + 2 * L + (o \div 8)
    BY <1>11 DEF At, Upto
  <2>5. 16 * (reg \div 4) + 8 * ((reg \div 2) % 2) + 4 * (reg % 2) = 4 * reg
    BY DEF Upto
  <2>6. At(reg \div 4, 8 * ((reg \div 2) % 2) + 4 * (reg % 2) + 2 * L + (o \div 8)) = 4 * reg + 2 * L + (o \div 8)
    BY <2>5 DEF At, Upto
  <2> QED
    BY <2>1, <2>2, <2>3, <2>4, <2>6
<1>14. (reg * 32 + i) % 8 = o % 8
  BY <1>11 DEF At, Upto
<1> QED
  BY <1>5, <1>6, <1>11, <1>12, <1>13, <1>14, Zenon

LEMMA UnshuffleRound4Avx2 ==
    ASSUME NEW x, Registers(x, 4, 2), NEW reg \in Upto(4), NEW i \in Upto(32)
    PROVE  UnshuffleRound("avx2", 4, x)[reg][i] = x[(reg * 32 + i) % 4][(reg * 32 + i) \div 4]
<1>1. PICK z \in 1..2 : z = 2
  OBVIOUS
<1>2. PICK words : words = Halves(Halves(x, 1), 2)
  OBVIOUS
<1>3. /\ Registers(words, 4, z)
      /\ \A m \in Upto(4), M \in Upto(z), o \in Upto(16) :
           words[m][At(M, o)] = x[o % 4][At(M, 8 * (m % 2) + 4 * (m \div 2) + (o \div 4))]
  BY <1>1, <1>2, HalvesTwice4At
<1>4. PICK a, b : a = words[reg % 2] /\ b = words[(reg % 2) + 2]
  OBVIOUS
<1>5. UnshuffleRound("avx2", 4, x)[reg] = Permute2x128(a, b, reg \div 2)
  <2>1. UnshuffleRound("avx2", 4, x) = Restore4Avx2(x)
    BY DEF UnshuffleRound
  <2>2. Restore4Avx2(x) = [j \in DOMAIN x |-> Permute2x128(words[j % 2], words[(j % 2) + 2], j \div 2)]
    BY <1>2, Zenon DEF Restore4Avx2
  <2> QED
    BY <1>4, <2>1, <2>2 DEF Registers
<1>6. PICK L \in Upto(2), o \in Upto(16) : i = At(L, o)
  BY <1>1, LaneOf
<1>7. PICK M \in Upto(2), m \in Upto(4) : M = reg \div 2 /\ m = (reg % 2) + 2 * L
  <2>1. reg \div 2 \in Upto(2) /\ (reg % 2) + 2 * L \in Upto(4)
    BY DEF Upto
  <2> QED
    BY <2>1
<1>8. UnshuffleRound("avx2", 4, x)[reg][i] = words[m][At(M, o)]
  <2>1. i \in DOMAIN a
    <3>1. reg % 2 \in Upto(4)
      BY DEF Upto
    <3> QED
      BY <1>1, <1>3, <1>4, <3>1 DEF Registers
  <2>2. Permute2x128(a, b, M)[i] = IF i < 16 THEN a[16 * M + i] ELSE b[16 * M + i - 16]
    BY <2>1 DEF Permute2x128
  <2>3. CASE L = 0
    <3>1. i < 16 /\ 16 * M + i = At(M, o) /\ m = reg % 2
      BY <1>6, <1>7, <2>3 DEF At, Upto
    <3> QED
      BY <1>4, <1>5, <1>7, <2>2, <3>1
  <2>4. CASE L = 1
    <3>1. ~(i < 16) /\ 16 * M + i - 16 = At(M, o) /\ m = (reg % 2) + 2
      BY <1>6, <1>7, <2>4 DEF At, Upto
    <3> QED
      BY <1>4, <1>5, <1>7, <2>2, <3>1
  <2> QED
    BY <2>3, <2>4 DEF Upto
<1>9. words[m][At(M, o)] = x[o % 4][At(M, 8 * (m % 2) + 4 * (m \div 2) + (o \div 4))]
  BY <1>1, <1>3
<1>10. At(M, 8 * (m % 2) + 4 * (m \div 2) + (o \div 4)) = (reg * 32 + i) \div 4
  <2>1. m % 2 = reg % 2
    BY <1>7 DEF Upto
  <2>2. m \div 2 = L
    BY <1>7 DEF Upto
  <2>3. (reg * 32 + i) \div 4 = 8 * reg + 4 * L + (o \div 4)
    BY <1>6 DEF At, Upto
  <2>4. At(M, 8 * (reg % 2) + 4 * L + (o \div 4)) = 8 * reg + 4 * L + (o \div 4)
    BY <1>7 DEF At, Upto
  <2> QED
    BY <2>1, <2>2, <2>3, <2>4
<1>11. (reg * 32 + i) % 4 = o % 4
  BY <1>6 DEF At, Upto
<1> QED
  BY <1>8, <1>9, <1>10, <1>11, Zenon

--------------------------------------------------------------------------------
(* The loops of the kernels, and the blocks they make *)

VectorBuilds == {"sse2", "avx2"}
KernelSizes == {4, 8}

\* A round of a shuffling kernel: its registers hold Width elements of t bytes one
\* after the other, and get byte r of every element into register r.
LEMMA ShuffleRoundAt ==
    ASSUME NEW build \in VectorBuilds, NEW t \in KernelSizes, NEW x, NEW w, w = Width(build),
           DOMAIN x = Upto(t), \A reg \in Upto(t) : DOMAIN x[reg] = Upto(w),
           NEW r \in Upto(t), NEW i \in Upto(w)
    PROVE  ShuffleRound(build, t, x)[r][i] = x[(i * t + r) \div w][(i * t + r) % w]
<1>1. CASE build = "sse2"
  <2>1. w = 16
    BY <1>1 DEF Width
  <2>2. CASE t = 4
    BY <1>1, <2>1, <2>2, ShuffleRound4Sse2 DEF Registers
  <2>3. CASE t = 8
    BY <1>1, <2>1, <2>3, ShuffleRound8Sse2 DEF Registers
  <2> QED
    BY <2>2, <2>3 DEF KernelSizes
<1>2. CASE build = "avx2"
  <2>1. w = 32
    BY <1>2 DEF Width
  <2>2. CASE t = 4
    BY <1>2, <2>1, <2>2, ShuffleRound4Avx2 DEF Registers
  <2>3. CASE t = 8
    BY <1>2, <2>1, <2>3, ShuffleRound8Avx2 DEF Registers
  <2> QED
    BY <2>2, <2>3 DEF KernelSizes
<1> QED
  BY <1>1, <1>2 DEF VectorBuilds

LEMMA UnshuffleRoundAt ==
    ASSUME NEW build \in VectorBuilds, NEW t \in KernelSizes, NEW x, NEW w, w = Width(build),
           DOMAIN x = Upto(t), \A reg \in Upto(t) : DOMAIN x[reg] = Upto(w),
           NEW reg \in Upto(t), NEW i \in Upto(w)
    PROVE  UnshuffleRound(build, t, x)[reg][i] = x[(reg * w + i) % t][(reg * w + i) \div t]
<1>1. CASE build = "sse2"
  <2>1. w = 16
    BY <1>1 DEF Width
  <2>2. CASE t = 4
    BY <1>1, <2>1, <2>2, UnshuffleRound4Sse2 DEF Registers
  <2>3. CASE t = 8
    BY <1>1, <2>1, <2>3, UnshuffleRound8Sse2 DEF Registers
  <2> QED
    BY <2>2, <2>3 DEF KernelSizes
<1>2. CASE build = "avx2"
  <2>1. w = 32
    BY <1>2 DEF Width
  <2>2. CASE t = 4
    BY <1>2, <2>1, <2>2, UnshuffleRound4Avx2 DEF Registers
  <2>3. CASE t = 8
    BY <1>2, <2>1, <2>3, UnshuffleRound8Avx2 DEF Registers
  <2> QED
    BY <2>2, <2>3 DEF KernelSizes
<1> QED
  BY <1>1, <1>2 DEF VectorBuilds

LEMMA KernelNumbers ==
    ASSUME NEW build \in VectorBuilds, NEW t \in KernelSizes
    PROVE  Width(build) \in Nat \ {0} /\ t \in Nat \ {0}
  BY DEF VectorBuilds, KernelSizes, Width

\* The bytes of the plain loops: plane r holds byte r of every element.
Planes(src, t, n, positions) == [p \in positions |-> src[(p % n) * t + p \div n]]
Elements(src, t, n, positions) == [p \in positions |-> src[(p % t) * n + p \div t]]

\* A kernel's loop over m chunks of elements does what the plain loops would.
LEMMA ShuffleKernelAt ==
    ASSUME NEW build \in VectorBuilds, NEW t \in KernelSizes, NEW src, NEW n \in Nat, NEW m \in Nat,
           NEW v \in Nat, v = m * Width(build), v <= n
    PROVE  ShuffleKernel(build, src, t, v, n) = Planes(src, t, n, {q \in 0..(n * t - 1) : q % n < v})
<1>1. PICK w \in Nat \ {0} : w = Width(build)
  BY KernelNumbers
<1>2. t \in Nat \ {0}
  BY KernelNumbers
<1> DEFINE Loop(u) ==
             LET Loaded(j) == [reg \in 0..(t - 1) |-> [i \in 0..(u - 1) |-> src[j * t + reg * u + i]]]
                 rounds == [j \in {u * c : c \in 0..(v \div u)} \ {v} |-> ShuffleRound(build, t, Loaded(j))]
             IN  [p \in {q \in 0..(n * t - 1) : q % n < v} |->
                     LET i == p % n IN rounds[i - (i % u)][p \div n][i % u]]
           Load(j) == [reg \in 0..(t - 1) |-> [i \in 0..(w - 1) |-> src[j * t + reg * w + i]]]
           Starts == {w * c : c \in 0..(v \div w)} \ {v}
           round == [j \in Starts |-> ShuffleRound(build, t, Load(j))]
           D == {q \in 0..(n * t - 1) : q % n < v}
<1>3. ShuffleKernel(build, src, t, v, n)
        = [p \in D |-> round[(p % n) - ((p % n) % w)][p \div n][(p % n) % w]]
  <2>1. ShuffleKernel(build, src, t, v, n) = Loop(Width(build))
    BY Zenon DEF ShuffleKernel
  <2>2. Loop(w) = [p \in D |-> round[(p % n) - ((p % n) % w)][p \div n][(p % n) % w]]
    BY Zenon
  <2> HIDE DEF Loop, round, D
  <2> QED
    BY <1>1, <2>1, <2>2
<1>4. ASSUME NEW p \in D
      PROVE  round[(p % n) - ((p % n) % w)][p \div n][(p % n) % w] = src[(p % n) * t + p \div n]
  <2>1. p \in 0..(t * n - 1) /\ n \in Nat \ {0} /\ p % n < v /\ p \in Nat
    <3>1. p \in 0..(n * t - 1) /\ p % n < v
      OBVIOUS
    <3> HIDE DEF D
    <3>2. n # 0
      BY <1>2, <3>1
    <3>3. n * t = t * n
      BY <1>2
    <3> QED
      BY <3>1, <3>2, <3>3
  <2> HIDE DEF D, Load, Starts, round
  <2>2. PICK r \in Upto(t), i \in 0..(n - 1) : r = p \div n /\ i = p % n
    <3>1. p \div n \in 0..(t - 1)
      BY <1>2, <2>1, QuotientBound
    <3>2. p % n \in 0..(n - 1)
      BY <2>1, Division
    <3> QED
      BY <3>1, <3>2 DEF Upto
  <2>3. PICK c \in Nat, b \in Upto(w) : c = i \div w /\ b = i % w /\ i = c * w + b
    <3>1. i \in Nat
      OBVIOUS
    <3>2. i = (i \div w) * w + (i % w) /\ i % w \in 0..(w - 1) /\ i \div w \in Nat
      BY <3>1, Division
    <3> QED
      BY <3>2 DEF Upto
  <2>4. c < m
    <3>1. i \in 0..(m * w - 1)
      BY <1>1, <2>1, <2>2
    <3>2. i \div w \in 0..(m - 1)
      BY <3>1, QuotientBound
    <3> QED
      BY <2>3, <3>2
  <2>5. PICK j \in Nat : j = c * w /\ j = i - b
    <3>1. c * w \in Nat /\ c * w = i - b
      BY <2>3 DEF Upto
    <3> QED
      BY <3>1
  <2>6. j \in Starts
    <3>1. v \div w = m
      <4>1. v = m * w + 0 /\ 0 \in 0..(w - 1)
        BY <1>1
      <4> QED
        BY <4>1, DivMod
    <3>2. j = w * c
      BY <2>5
    <3>3. j # v
      BY <2>1, <2>2, <2>5 DEF Upto
    <3> QED
      BY <2>4, <3>1, <3>2, <3>3 DEF Starts
  <2>7. round[j] = ShuffleRound(build, t, Load(j))
    BY <2>6 DEF round
  <2>8. PICK x : x = Load(j)
    OBVIOUS
  <2>9. /\ DOMAIN x = Upto(t) /\ \A reg \in Upto(t) : DOMAIN x[reg] = Upto(w)
        /\ \A reg \in Upto(t), a \in Upto(w) : x[reg][a] = src[j * t + reg * w + a]
    BY <2>8 DEF Load, Upto
  <2>10. ShuffleRound(build, t, x)[r][b] = x[(b * t + r) \div w][(b * t + r) % w]
    BY <1>1, <2>9, ShuffleRoundAt
  <2>11. PICK reg \in Upto(t), a \in Upto(w) : /\ reg = (b * t + r) \div w /\ a = (b * t + r) % w
                                             /\ reg * w + a = b * t + r
    <3>1. b * t + r \in 0..(t * w - 1)
      <4>1. (w - 1 - b) * t >= 0 /\ b * t >= 0
        BY <1>2 DEF Upto
      <4>2. r >= 0 /\ r <= t - 1 /\ r \in Int /\ b \in Int
        BY <1>2 DEF Upto
      <4>3. b * t + r \in Nat /\ b * t + r <= w * t - 1
        BY <1>2, <4>1, <4>2
      <4> QED
        BY <1>2, <4>3
    <3>2. PICK d \in Nat : d = b * t + r
      BY <3>1
    <3>3. d \div w \in 0..(t - 1)
      BY <1>2, <3>1, <3>2, QuotientBound
    <3>4. d = (d \div w) * w + (d % w) /\ d % w \in 0..(w - 1)
      BY Division
    <3> QED
      BY <3>2, <3>3, <3>4 DEF Upto
  <2>12. x[reg][a] = src[j * t + reg * w + a]
    BY <2>9
  <2>13. j * t + reg * w + a = i * t + r
    <3>1. j \in Int /\ b \in Int /\ reg \in Int /\ a \in Int /\ r \in Int /\ t \in Int /\ w \in Int
      BY <1>2 DEF Upto
    <3>2. i = j + b
      BY <2>5, <3>1
    <3>3. i * t = j * t + b * t
      BY <3>1, <3>2
    <3>4. reg * w \in Int /\ b * t \in Int /\ j * t \in Int
      BY <3>1
    <3>5. PICK jt \in Int, bt \in Int, kw \in Int : jt = j * t /\ bt = b * t /\ kw = reg * w
      BY <3>4
    <3>6. jt + kw + a = jt + bt + r
      <4>1. kw + a = bt + r
        BY <2>11, <3>5, Zenon
      <4> QED
        BY <3>1, <4>1
    <3> QED
      BY <3>3, <3>5, <3>6
  <2> QED
    BY <2>2, <2>3, <2>5, <2>7, <2>8, <2>10, <2>11, <2>12, <2>13
<1>5. [p \in D |-> round[(p % n) - ((p % n) % w)][p \div n][(p % n) % w]]
        = [p \in D |-> src[(p % n) * t + p \div n]]
  <2> HIDE DEF D, round
  <2> QED
    BY <1>4
<1> QED
  BY <1>3, <1>5, Zenon DEF Planes

LEMMA UnshuffleKernelAt ==
    ASSUME NEW build \in VectorBuilds, NEW t \in KernelSizes, NEW src, NEW n \in Nat, NEW m \in Nat,
           NEW v \in Nat, v = m * Width(build)
    PROVE  UnshuffleKernel(build, src, t, v, n) = Elements(src, t, n, 0..(v * t - 1))
<1>1. PICK w \in Nat \ {0} : w = Width(build)
  BY KernelNumbers
<1>2. t \in Nat \ {0}
  BY KernelNumbers
<1> DEFINE Loop(u) ==
             LET Loaded(i) == [reg \in 0..(t - 1) |-> [b \in 0..(u - 1) |-> src[i + reg * n + b]]]
                 rounds == [i \in {u * c : c \in 0..(v \div u)} \ {v} |-> UnshuffleRound(build, t, Loaded(i))]
             IN  [p \in 0..(v * t - 1) |->
                     LET q == p % (t * u) IN rounds[(p - q) \div t][q \div u][q % u]]
           Load(i) == [reg \in 0..(t - 1) |-> [b \in 0..(w - 1) |-> src[i + reg * n + b]]]
           Starts == {w * c : c \in 0..(v \div w)} \ {v}
           round == [i \in Starts |-> UnshuffleRound(build, t, Load(i))]
           At3(q, p) == round[(p - q) \div t][q \div w][q % w]
<1>3. UnshuffleKernel(build, src, t, v, n) = [p \in 0..(v * t - 1) |-> At3(p % (t * w), p)]
  <2>1. UnshuffleKernel(build, src, t, v, n) = Loop(Width(build))
    BY Zenon DEF UnshuffleKernel
  <2>2. Loop(w) = [p \in 0..(v * t - 1) |-> At3(p % (t * w), p)]
    BY Zenon
  <2> HIDE DEF Loop, At3
  <2> QED
    BY <1>1, <2>1, <2>2
<1>4. ASSUME NEW p \in 0..(v * t - 1)
      PROVE  At3(p % (t * w), p) = src[(p % t) * n + p \div t]
  <2> HIDE DEF Load, Starts, round
  <2>1. PICK s \in Nat \ {0} : s = t * w
    <3>1. t * w > 0 /\ t * w \in Nat
      BY <1>2
    <3> QED
      BY <3>1
  <2>2. p \in Nat /\ p \in 0..(m * s - 1)
    <3>1. v * t = m * s
      <4>1. v * t = (m * w) * t
        BY <1>1
      <4> QED
        BY <1>2, <2>1, <4>1
    <3> QED
      BY <3>1
  <2>3. PICK c \in 0..(m - 1), q \in 0..(s - 1) : q = p % s /\ p = c * s + q
    <3>1. p \div s \in 0..(m - 1)
      BY <2>2, QuotientBound
    <3>2. p = (p \div s) * s + (p % s) /\ p % s \in 0..(s - 1)
      BY <2>2, Division
    <3> QED
      BY <3>1, <3>2
  <2>4. PICK i \in Nat : i = w * c /\ p - q = i * t + 0
    <3>1. w * c \in Nat
      OBVIOUS
    <3>2. c * s = (w * c) * t
      BY <1>2, <2>1
    <3>3. p - q = c * s
      <4>1. c * s \in Int
        OBVIOUS
      <4> QED
        BY <2>3, <4>1
    <3>4. (w * c) * t \in Int
      BY <1>2
    <3> QED
      BY <3>1, <3>2, <3>3, <3>4
  <2>5. (p - q) \div t = i
    <3>1. 0 \in 0..(t - 1)
      BY <1>2
    <3> QED
      BY <1>2, <2>4, <3>1, DivMod
  <2>6. i \in Starts
    <3>1. v \div w = m
      <4>1. v = m * w + 0 /\ 0 \in 0..(w - 1)
        BY <1>1
      <4> QED
        BY <4>1, DivMod
    <3>2. i # v
      <4>1. (m - c) * w >= w
        <5>1. (m - c - 1) * w >= 0
          OBVIOUS
        <5> QED
          BY <5>1
      <4> QED
        BY <1>1, <2>4, <4>1
    <3> QED
      BY <2>4, <3>1, <3>2 DEF Starts
  <2>7. PICK x : x = Load(i)
    OBVIOUS
  <2>8. round[i] = UnshuffleRound(build, t, x)
    BY <2>6, <2>7 DEF round
  <2>9. /\ DOMAIN x = Upto(t) /\ \A reg \in Upto(t) : DOMAIN x[reg] = Upto(w)
        /\ \A reg \in Upto(t), a \in Upto(w) : x[reg][a] = src[i + reg * n + a]
    BY <2>7 DEF Load, Upto
  <2>10. PICK reg \in Upto(t), b \in Upto(w) : reg = q \div w /\ b = q % w /\ q = reg * w + b
    <3>1. q \in 0..(t * w - 1) /\ q \in Nat
      BY <2>1
    <3>2. q \div w \in 0..(t - 1)
      BY <1>2, <3>1, QuotientBound
    <3>3. q = (q \div w) * w + (q % w) /\ q % w \in 0..(w - 1)
      BY <3>1, Division
    <3> QED
      BY <3>2, <3>3 DEF Upto
  <2>11. UnshuffleRound(build, t, x)[reg][b] = x[(reg * w + b) % t][(reg * w + b) \div t]
    BY <1>1, <2>9, UnshuffleRoundAt
  <2>12. PICK j \in Upto(t), a \in Upto(w) : j = q % t /\ a = q \div t /\ q = a * t + j
    <3>1. q \in 0..(w * t - 1) /\ q \in Nat
      BY <1>2, <2>1
    <3>2. q \div t \in 0..(w - 1)
      BY <1>2, <3>1, QuotientBound
    <3>3. q = (q \div t) * t + (q % t) /\ q % t \in 0..(t - 1)
      BY <1>2, <3>1, Division
    <3> QED
      BY <3>2, <3>3 DEF Upto
  <2>13. UnshuffleRound(build, t, x)[reg][b] = src[i + j * n + a]
    BY <2>9, <2>10, <2>11, <2>12
  <2>14. p \div t = i + a /\ p % t = j
    <3>1. PICK d \in Nat, it \in Int, at \in Int : d = i + a /\ it = i * t /\ at = a * t
      BY <1>2 DEF Upto
    <3>2. p = it + at + j
      <4>1. p - q = it + 0
        BY <2>4, <3>1, Zenon
      <4>2. q = at + j
        BY <2>12, <3>1, Zenon
      <4> QED
        BY <4>1, <4>2, <1>2 DEF Upto
    <3>3. d * t = it + at
      <4>1. a \in Int
        BY DEF Upto
      <4> QED
        BY <1>2, <3>1, <4>1
    <3>4. p = d * t + j /\ j \in 0..(t - 1)
      BY <3>2, <3>3 DEF Upto
    <3>5. p \div t = d /\ p % t = j
      BY <1>2, <3>4, DivMod
    <3> QED
      BY <3>1, <3>5
  <2>15. i + j * n + a = j * n + (i + a)
    <3>1. j * n \in Int /\ a \in Int
      BY DEF Upto
    <3> QED
      BY <3>1
  <2>16. p % (t * w) = q
    BY <2>1, <2>3, Zenon
  <2>17. At3(q, p) = src[i + j * n + a]
    BY <2>5, <2>8, <2>10, <2>13
  <2> HIDE DEF At3
  <2> QED
    BY <2>14, <2>15, <2>16, <2>17, Zenon
<1>5. [p \in 0..(v * t - 1) |-> At3(p % (t * w), p)]
        = [p \in 0..(v * t - 1) |-> src[(p % t) * n + p \div t]]
  <2> HIDE DEF At3
  <2> QED
    BY <1>4
<1> QED
  BY <1>3, <1>5, Zenon DEF Elements

\* The elements a kernel takes are those of whole chunks.
LEMMA VectorizableAt ==
    ASSUME NEW build \in VectorBuilds, NEW t \in KernelSizes, NEW n \in Nat
    PROVE  \E m \in Nat, v \in Nat : /\ v = Vectorizable(build, t, n * t)
                                     /\ v = m * Width(build) /\ v <= n
<1>1. PICK w \in Nat \ {0} : w = Width(build)
  BY KernelNumbers
<1>2. t \in Nat \ {0}
  BY KernelNumbers
<1>3. PICK b \in Nat, s \in Nat \ {0} : b = n * t /\ s = t * w
  <2>1. t * w > 0 /\ t * w \in Nat /\ n * t \in Nat
    BY <1>2
  <2> QED
    BY <2>1
<1>4. PICK m \in Nat : b - (b % s) = m * s /\ m * s <= b
  <2>1. b = (b \div s) * s + (b % s) /\ b % s \in 0..(s - 1) /\ b \div s \in Nat
    BY Division
  <2>2. PICK m \in Nat, r \in 0..(s - 1) : m = b \div s /\ r = b % s /\ b = m * s + r
    BY <2>1
  <2>3. m * s \in Int
    OBVIOUS
  <2>4. b - r = m * s /\ m * s <= b
    BY <2>2, <2>3
  <2> QED
    BY <2>2, <2>4
<1>5. PICK v \in Nat : v = m * w
  OBVIOUS
<1>6. m * s = v * t + 0 /\ 0 \in 0..(t - 1)
  <2>1. m * s = (m * w) * t
    BY <1>2, <1>3
  <2>2. (m * w) * t \in Int
    BY <1>2
  <2> QED
    BY <1>2, <1>5, <2>1, <2>2
<1>7. (m * s) \div t = v
  BY <1>2, <1>6, DivMod
<1>8. Vectorizable(build, t, n * t) = v
  BY <1>1, <1>3, <1>4, <1>7, Zenon DEF Vectorizable
<1>9. v <= n
  <2>1. v * t <= n * t
    BY <1>2, <1>3, <1>4, <1>6
  <2>2. CASE v > n
    <3>1. (v - n) * t > 0
      BY <1>2, <2>2
    <3> QED
      BY <1>2, <2>1, <3>1
  <2> QED
    BY <2>2
<1> QED
  BY <1>1, <1>5, <1>8, <1>9

\* The number of elements in a block of whole elements.
LEMMA WholeElements ==
    ASSUME NEW t \in Nat \ {0}, NEW n \in Nat
    PROVE  (n * t) \div t = n
<1>1. n * t = n * t + 0 /\ 0 \in 0..(t - 1)
  OBVIOUS
<1> QED
  BY <1>1, DivMod

\* The plain loops, from element v on.
LEMMA ShuffleGenericAt ==
    ASSUME NEW t \in Nat \ {0}, NEW n \in Nat, NEW v, NEW src
    PROVE  ShuffleGeneric(src, t, v, n * t) = Planes(src, t, n, {q \in 0..(n * t - 1) : q % n >= v})
<1> DEFINE Result(m) == [p \in {q \in 0..(m * t - 1) : q % m >= v} |-> src[(p % m) * t + p \div m]]
<1>1. ShuffleGeneric(src, t, v, n * t) = Result((n * t) \div t)
  BY Zenon DEF ShuffleGeneric
<1>2. Result(n) = Planes(src, t, n, {q \in 0..(n * t - 1) : q % n >= v})
  BY Zenon DEF Planes
<1> HIDE DEF Result
<1> QED
  BY <1>1, <1>2, WholeElements

LEMMA UnshuffleGenericAt ==
    ASSUME NEW t \in Nat \ {0}, NEW n \in Nat, NEW v, NEW src
    PROVE  UnshuffleGeneric(src, t, v, n * t) = Elements(src, t, n, (v * t)..(n * t - 1))
<1> DEFINE Result(m) == [p \in (v * t)..(m * t - 1) |-> src[(p % t) * m + p \div t]]
<1>1. UnshuffleGeneric(src, t, v, n * t) = Result((n * t) \div t)
  BY Zenon DEF UnshuffleGeneric
<1>2. Result(n) = Elements(src, t, n, (v * t)..(n * t - 1))
  BY Zenon DEF Elements
<1> HIDE DEF Result
<1> QED
  BY <1>1, <1>2, WholeElements

\* Elements of t bytes a build shuffles: any with the plain loops, four and eight
\* bytes with the kernels.
Shufflable(build, t) ==
    (build = "generic" /\ t \in Nat \ {0}) \/ (build \in VectorBuilds /\ t \in KernelSizes)

\* Every build shuffles n elements of t bytes into the same t planes of n bytes.
THEOREM ShuffledIsPlanes ==
    ASSUME NEW build, NEW t, Shufflable(build, t), NEW n \in Nat, NEW src
    PROVE  Shuffled(build, src, n * t, t) = Planes(src, t, n, 0..(n * t - 1))
<1>1. t \in Nat \ {0}
  BY KernelNumbers DEF Shufflable
<1> DEFINE D == 0..(n * t - 1)
           Rest(v) == {q \in D : q % n >= v}
           Done(v) == {q \in D : q % n < v}
<1>2. ASSUME NEW q \in D PROVE q % n \in 0..(n - 1) /\ q % n >= 0
  <2>1. q \in Nat /\ n # 0
    BY <1>1
  <2>2. q % n \in 0..(n - 1)
    BY <2>1, Division
  <2> QED
    BY <2>2
<1>3. CASE build = "generic"
  <2>1. Shuffled(build, src, n * t, t) = ShuffleGeneric(src, t, 0, n * t)
    BY <1>3, Zenon DEF Shuffled
  <2>2. ShuffleGeneric(src, t, 0, n * t) = Planes(src, t, n, Rest(0))
    BY <1>1, ShuffleGenericAt
  <2>3. Rest(0) = D
    BY <1>2
  <2> QED
    BY <2>1, <2>2, <2>3, Zenon
<1>4. CASE build # "generic"
  <2>0. build \in VectorBuilds /\ t \in KernelSizes
    BY <1>4 DEF Shufflable
  <2>1. PICK m \in Nat, v \in Nat : /\ v = Vectorizable(build, t, n * t)
                                    /\ v = m * Width(build) /\ v <= n
    BY <2>0, VectorizableAt
  <2> DEFINE kernel == ShuffleKernel(build, src, t, v, n)
             generic == ShuffleGeneric(src, t, v, n * t)
  <2>2. Shuffled(build, src, n * t, t) = IF n * t # v * t THEN Over(generic, kernel) ELSE kernel
    <3> DEFINE Result(u, e) == IF n * t # u * t THEN Over(ShuffleGeneric(src, t, u, n * t),
                                                          ShuffleKernel(build, src, t, u, e))
                               ELSE ShuffleKernel(build, src, t, u, e)
    <3>1. Shuffled(build, src, n * t, t) = Result(Vectorizable(build, t, n * t), (n * t) \div t)
      BY <1>4, Zenon DEF Shuffled
    <3>2. Result(v, n) = IF n * t # v * t THEN Over(generic, kernel) ELSE kernel
      BY Zenon
    <3> HIDE DEF Result, generic, kernel
    <3> QED
      BY <1>1, <2>1, <3>1, <3>2, WholeElements
  <2>3. kernel = Planes(src, t, n, Done(v))
    BY <2>0, <2>1, ShuffleKernelAt
  <2>4. generic = Planes(src, t, n, Rest(v))
    BY <1>1, ShuffleGenericAt
  <2> HIDE DEF kernel, generic
  <2>5. CASE n * t # v * t
    <3>1. Over(generic, kernel) = Planes(src, t, n, Rest(v) \cup Done(v))
      <4> HIDE DEF D, Rest, Done
      <4> QED
        BY <2>3, <2>4 DEF Planes, Over
    <3>2. Rest(v) \cup Done(v) = D
      BY <1>2
    <3> HIDE DEF D, Rest, Done
    <3> QED
      BY <2>2, <2>5, <3>1, <3>2 DEF D
  <2>6. CASE n * t = v * t
    <3>1. v = n
      <4>1. (n - v) * t = 0
        BY <1>1, <2>6
      <4> QED
        BY <1>1, <4>1
    <3>2. Done(v) = D
      BY <1>2, <3>1
    <3> HIDE DEF D, Rest, Done
    <3> QED
      BY <2>2, <2>3, <2>6, <3>2 DEF D
  <2> QED
    BY <2>5, <2>6
<1> QED
  BY <1>3, <1>4

\* Every build unshuffles t planes of n bytes into the same n elements of t bytes.
THEOREM UnshuffledIsElements ==
    ASSUME NEW build, NEW t, Shufflable(build, t), NEW n \in Nat, NEW src
    PROVE  Unshuffled(build, src, n * t, t) = Elements(src, t, n, 0..(n * t - 1))
<1>1. t \in Nat \ {0}
  BY KernelNumbers DEF Shufflable
<1>2. CASE build = "generic"
  <2>1. Unshuffled(build, src, n * t, t) = UnshuffleGeneric(src, t, 0, n * t)
    BY <1>2, Zenon DEF Unshuffled
  <2>2. UnshuffleGeneric(src, t, 0, n * t) = Elements(src, t, n, (0 * t)..(n * t - 1))
    BY <1>1, UnshuffleGenericAt
  <2>3. 0 * t = 0
    BY <1>1
  <2> QED
    BY <2>1, <2>2, <2>3, Zenon
<1>3. CASE build # "generic"
  <2>0. build \in VectorBuilds /\ t \in KernelSizes
    BY <1>3 DEF Shufflable
  <2>1. PICK m \in Nat, v \in Nat : /\ v = Vectorizable(build, t, n * t)
                                    /\ v = m * Width(build) /\ v <= n
    BY <2>0, VectorizableAt
  <2> DEFINE kernel == UnshuffleKernel(build, src, t, v, n)
             generic == UnshuffleGeneric(src, t, v, n * t)
  <2>2. Unshuffled(build, src, n * t, t) = Over(generic, kernel)
    <3> DEFINE Result(u, e) == Over(UnshuffleGeneric(src, t, u, n * t), UnshuffleKernel(build, src, t, u, e))
    <3>1. Unshuffled(build, src, n * t, t) = Result(Vectorizable(build, t, n * t), (n * t) \div t)
      BY <1>3, Zenon DEF Unshuffled
    <3>2. Result(v, n) = Over(generic, kernel)
      BY Zenon
    <3> HIDE DEF Result, generic, kernel
    <3> QED
      BY <1>1, <2>1, <3>1, <3>2, WholeElements
  <2> DEFINE Rest == (v * t)..(n * t - 1)
             Done == 0..(v * t - 1)
             D == 0..(n * t - 1)
  <2>3. kernel = Elements(src, t, n, Done)
    BY <2>0, <2>1, UnshuffleKernelAt
  <2>4. generic = Elements(src, t, n, Rest)
    BY <1>1, UnshuffleGenericAt
  <2>5. Rest \cup Done = D
    <3>1. v * t \in Nat /\ n * t \in Nat /\ v * t <= n * t
      <4>1. (n - v) * t >= 0
        BY <1>1, <2>1
      <4> QED
        BY <1>1, <4>1
    <3> QED
      BY <3>1
  <2> HIDE DEF kernel, generic, Rest, Done, D
  <2>6. Over(generic, kernel) = Elements(src, t, n, Rest \cup Done)
    BY <2>3, <2>4 DEF Elements, Over
  <2> QED
    BY <2>2, <2>5, <2>6 DEF D
<1> QED
  BY <1>2, <1>3

\* Byte j of element i is stored at j * n + i, and found there again.
LEMMA Placed ==
    ASSUME NEW t \in Nat \ {0}, NEW n \in Nat \ {0}, NEW i \in 0..(n - 1), NEW j \in 0..(t - 1)
    PROVE  /\ j * n + i \in 0..(n * t - 1)
           /\ (j * n + i) \div n = j /\ (j * n + i) % n = i
<1>1. (j * n + i) \div n = j /\ (j * n + i) % n = i
  BY DivMod
<1>2. (t - 1 - j) * n >= 0
  OBVIOUS
<1>3. j * n + i \in Nat /\ j * n + i <= (t - 1) * n + (n - 1)
  BY <1>2
<1>4. (t - 1) * n + (n - 1) = n * t - 1
  OBVIOUS
<1> QED
  BY <1>1, <1>3, <1>4

\* The buffer s begins with the planes of the n elements of src.
Stores(s, src, t, n) == \A p \in 0..(n * t - 1) : s[p] = Planes(src, t, n, 0..(n * t - 1))[p]

\* The first m bytes of a buffer.
First(src, m) == [p \in 0..(m - 1) |-> src[p]]

\* Elements picked from planes are the elements the planes are made of.
LEMMA ElementsOfPlanes ==
    ASSUME NEW t \in Nat \ {0}, NEW n \in Nat, NEW src, NEW s, Stores(s, src, t, n)
    PROVE  Elements(s, t, n, 0..(n * t - 1)) = First(src, n * t)
<1> DEFINE D == 0..(n * t - 1)
<1>1. ASSUME NEW p \in D PROVE s[(p % t) * n + p \div t] = src[p]
  <2>1. p \in Nat /\ n \in Nat \ {0}
    <3>1. n # 0
      OBVIOUS
    <3> QED
      BY <3>1
  <2>2. PICK i \in 0..(n - 1), j \in 0..(t - 1) : i = p \div t /\ j = p % t /\ p = i * t + j
    <3>1. p \div t \in 0..(n - 1)
      BY QuotientBound
    <3>2. p = (p \div t) * t + (p % t) /\ p % t \in 0..(t - 1)
      BY <2>1, Division
    <3> QED
      BY <3>1, <3>2
  <2>3. PICK q \in D : q = j * n + i /\ q \div n = j /\ q % n = i
    BY <2>1, Placed
  <2>4. s[q] = src[(q % n) * t + q \div n]
    BY DEF Planes, Stores
  <2> QED
    BY <2>2, <2>3, <2>4, Zenon
<1> HIDE DEF D
<1>2. Elements(s, t, n, D) = [p \in D |-> src[p]]
  BY <1>1 DEF Elements
<1> QED
  BY <1>2, Zenon DEF D, First

\* Whatever builds shuffled and unshuffle a block of n elements of t bytes, the
\* block is what it was: shuffled data may be read by any build.
THEOREM UnshuffledIsSource ==
    ASSUME NEW wb, NEW rb, NEW t, Shufflable(wb, t), Shufflable(rb, t), NEW n \in Nat, NEW src
    PROVE  Unshuffled(rb, Shuffled(wb, src, n * t, t), n * t, t) = First(src, n * t)
<1>1. t \in Nat \ {0}
  BY KernelNumbers DEF Shufflable
<1>2. PICK s : s = Planes(src, t, n, 0..(n * t - 1))
  OBVIOUS
<1>3. Shuffled(wb, src, n * t, t) = s
  BY <1>2, ShuffledIsPlanes
<1>4. Unshuffled(rb, s, n * t, t) = Elements(s, t, n, 0..(n * t - 1))
  BY UnshuffledIsElements
<1>5. Stores(s, src, t, n)
  BY <1>2, Zenon DEF Stores
<1>6. Elements(s, t, n, 0..(n * t - 1)) = First(src, n * t)
  BY <1>1, <1>5, ElementsOfPlanes
<1> QED
  BY <1>3, <1>4, <1>6, Zenon

--------------------------------------------------------------------------------
(* Blocks and frames *)

Whole(m) == m - (m % ElemSize)

\* What follows the whole elements of the first m bytes of a buffer.
Rest(buffer, m) == [i \in Whole(m)..(m - 1) |-> buffer[i]]

\* Block b of plan p, and the same bytes as CompressShuffled stores them.
SourceOf(p, b) == [i \in Upto(p[b]) |-> Byte(b, i)]
ShuffledOf(p, b) ==
    [i \in Upto(p[b]) |->
        IF i < Whole(p[b])
        THEN Planes(SourceOf(p, b), ElemSize, Whole(p[b]) \div ElemSize, 0..(Whole(p[b]) - 1))[i]
        ELSE Byte(b, i)]

LEMMA PlanFacts ==
    ASSUME NEW p \in Plans
    PROVE  /\ Len(p) \in Nat \ {0} /\ DOMAIN p = 1..Len(p)
           /\ \A b \in 1..Len(p) : p[b] \in 1..MaxBlock /\ p[b] \in Nat
<1>1. MaxBlock \in Nat /\ p \in Seq(1..MaxBlock) /\ p # << >>
  BY SizesAssumption
<1>2. Len(p) \in Nat /\ DOMAIN p = 1..Len(p) /\ \A b \in 1..Len(p) : p[b] \in 1..MaxBlock
  BY <1>1
<1>3. Len(p) # 0
  BY <1>1
<1> QED
  BY <1>1, <1>2, <1>3

\* The whole elements of m bytes.
LEMMA WholeFacts ==
    ASSUME NEW m \in Nat
    PROVE  \E n \in Nat : /\ Whole(m) = n * 8 /\ n * 8 <= m /\ Whole(m) \div ElemSize = n
                          /\ ElemSize = 8 /\ Whole(m) \in Nat
<1>1. PICK n \in Nat, r \in 0..7 : n = m \div 8 /\ r = m % 8 /\ m = 8 * n + r
  OBVIOUS
<1>2. Whole(m) = n * 8
  BY <1>1 DEF Whole, ElemSize
<1>3. (n * 8) \div 8 = n
  OBVIOUS
<1> QED
  BY <1>1, <1>2, <1>3 DEF ElemSize

LEMMA BuildsShuffle ==
    ASSUME NEW build \in Builds, NEW t \in KernelSizes
    PROVE  Shufflable(build, t)
  BY KernelNumbers DEF Builds, Shufflable, VectorBuilds, KernelSizes

\* The scratch buffer after the whole elements have been shuffled into it and
\* the last bytes copied behind them.
LEMMA ShuffledInto ==
    ASSUME NEW p \in Plans, NEW b \in 1..Len(p), NEW build \in Builds,
           NEW s, DOMAIN s = Upto(MaxBlock), NEW buffer,
           buffer = Over(Shuffled(build, SourceOf(p, b), Whole(p[b]), ElemSize),
                         Over(Rest(SourceOf(p, b), p[b]), s))
    PROVE  DOMAIN buffer = Upto(MaxBlock) /\ First(buffer, p[b]) = ShuffledOf(p, b)
<1>1. p[b] \in Nat /\ p[b] <= MaxBlock /\ MaxBlock \in Nat
  BY PlanFacts, SizesAssumption
<1>2. PICK n \in Nat : /\ Whole(p[b]) = n * 8 /\ n * 8 <= p[b] /\ Whole(p[b]) \div ElemSize = n
                       /\ ElemSize = 8 /\ Whole(p[b]) \in Nat
  BY <1>1, WholeFacts
<1>3. PICK w \in Nat, m \in Nat : w = Whole(p[b]) /\ m = p[b] /\ w <= m /\ m <= MaxBlock
  BY <1>1, <1>2
<1> DEFINE planes == Planes(SourceOf(p, b), ElemSize, n, 0..(w - 1))
<1> DEFINE last == Rest(SourceOf(p, b), m)
<1>4. Shuffled(build, SourceOf(p, b), w, ElemSize) = planes
  <2>1. 8 \in KernelSizes
    BY DEF KernelSizes
  <2>2. Shufflable(build, 8)
    BY <2>1, BuildsShuffle
  <2>3. Shuffled(build, SourceOf(p, b), n * 8, 8) = Planes(SourceOf(p, b), 8, n, 0..(n * 8 - 1))
    BY <2>2, ShuffledIsPlanes
  <2> QED
    BY <1>2, <1>3, <2>3, Zenon
<1>5. DOMAIN planes = Upto(w)
  BY DEF Planes, Upto
<1> HIDE DEF planes
<1>6. /\ DOMAIN last = w..(m - 1)
      /\ \A i \in w..(m - 1) : last[i] = Byte(b, i)
  BY <1>3 DEF SourceOf, Upto, Rest
<1> HIDE DEF last
<1>7. buffer = Over(planes, Over(last, s))
  BY <1>3, <1>4, Zenon DEF last
<1>8. DOMAIN buffer = Upto(w) \cup (w..(m - 1)) \cup Upto(MaxBlock)
  BY <1>5, <1>6, <1>7 DEF Over
<1>9. DOMAIN buffer = Upto(MaxBlock)
  <2>1. Upto(w) \cup (w..(m - 1)) \cup Upto(MaxBlock) = Upto(MaxBlock)
    BY <1>1, <1>3 DEF Upto
  <2> QED
    BY <1>8, <2>1
<1>10. ASSUME NEW i \in Upto(m)
       PROVE  buffer[i] = IF i < w THEN planes[i] ELSE Byte(b, i)
  <2>1. CASE i < w
    <3>1. i \in Upto(w) /\ i \in DOMAIN buffer
      BY <1>1, <1>3, <1>9, <2>1 DEF Upto
    <3> QED
      BY <1>5, <1>7, <2>1, <3>1 DEF Over
  <2>2. CASE ~(i < w)
    <3>1. i \notin Upto(w) /\ i \in w..(m - 1) /\ i \in DOMAIN buffer
      BY <1>1, <1>3, <1>9, <2>2 DEF Upto
    <3>2. buffer[i] = Over(last, s)[i]
      BY <1>5, <1>7, <3>1 DEF Over
    <3>3. Over(last, s)[i] = last[i]
      BY <1>6, <3>1 DEF Over
    <3> QED
      BY <1>6, <2>2, <3>1, <3>2, <3>3
  <2> QED
    BY <2>1, <2>2
<1>11. ShuffledOf(p, b) = [i \in Upto(m) |-> IF i < w THEN planes[i] ELSE Byte(b, i)]
  BY <1>2, <1>3, Zenon DEF ShuffledOf, planes
<1>12. First(buffer, m) = [i \in Upto(m) |-> buffer[i]]
  BY Zenon DEF First, Upto
<1> QED
  BY <1>3, <1>9, <1>10, <1>11, <1>12

\* What the decompressor makes of a buffer that begins with a shuffled block.
LEMMA Restored ==
    ASSUME NEW p \in Plans, NEW b \in 1..Len(p), NEW build \in Builds,
           NEW s, First(s, p[b]) = ShuffledOf(p, b)
    PROVE  Over(Unshuffled(build, s, Whole(p[b]), ElemSize), Rest(s, p[b])) = SourceOf(p, b)
<1>1. p[b] \in Nat
  BY PlanFacts
<1>2. PICK n \in Nat : /\ Whole(p[b]) = n * 8 /\ n * 8 <= p[b] /\ Whole(p[b]) \div ElemSize = n
                       /\ ElemSize = 8 /\ Whole(p[b]) \in Nat
  BY <1>1, WholeFacts
<1>3. PICK w \in Nat, m \in Nat : w = Whole(p[b]) /\ m = p[b] /\ w <= m /\ w = n * 8
  BY <1>1, <1>2
<1> DEFINE src == SourceOf(p, b)
           last == Rest(s, m)
           planes == Planes(src, 8, n, 0..(n * 8 - 1))
<1>4. \A i \in Upto(m) : s[i] = IF i < w THEN planes[i] ELSE Byte(b, i)
  <2>1. ShuffledOf(p, b) = [i \in Upto(m) |-> IF i < w THEN planes[i] ELSE Byte(b, i)]
    BY <1>2, <1>3, Zenon DEF ShuffledOf
  <2> HIDE DEF planes
  <2>2. First(s, m) = [i \in Upto(m) |-> s[i]]
    BY Zenon DEF First, Upto
  <2> QED
    BY <1>3, <2>1, <2>2
<1>5. Unshuffled(build, s, w, ElemSize) = Elements(s, 8, n, 0..(n * 8 - 1))
  <2>1. 8 \in KernelSizes
    BY DEF KernelSizes
  <2>2. Shufflable(build, 8)
    BY <2>1, BuildsShuffle
  <2>3. Unshuffled(build, s, n * 8, 8) = Elements(s, 8, n, 0..(n * 8 - 1))
    BY <2>2, UnshuffledIsElements
  <2> QED
    BY <1>2, <1>3, <2>3, Zenon
<1>6. Elements(s, 8, n, 0..(n * 8 - 1)) = [i \in 0..(n * 8 - 1) |-> src[i]]
  <2>1. PICK t \in Nat \ {0} : t = 8
    OBVIOUS
  <2>2. Stores(s, src, t, n)
    <3>1. Stores(s, src, t, n) <=> \A i \in 0..(n * 8 - 1) : s[i] = planes[i]
      BY <2>1, Zenon DEF Stores
    <3> HIDE DEF planes
    <3> QED
      BY <1>3, <1>4, <3>1 DEF Upto
  <2>3. Elements(s, t, n, 0..(n * t - 1)) = First(src, n * t)
    BY <2>2, ElementsOfPlanes
  <2> QED
    BY <2>1, <2>3, Zenon DEF First
<1> DEFINE elements == Unshuffled(build, s, w, ElemSize)
<1>7. DOMAIN elements = 0..(w - 1) /\ \A i \in 0..(w - 1) : elements[i] = src[i]
  BY <1>3, <1>5, <1>6
<1> HIDE DEF elements
<1>8. DOMAIN last = w..(m - 1) /\ \A i \in w..(m - 1) : last[i] = src[i]
  <2>1. ASSUME NEW i \in w..(m - 1) PROVE s[i] = src[i]
    <3>1. i \in Upto(m) /\ ~(i < w)
      BY <1>3 DEF Upto
    <3>2. s[i] = Byte(b, i)
      BY <1>4, <3>1
    <3> QED
      BY <1>3, <3>1, <3>2 DEF SourceOf
  <2> HIDE DEF src
  <2> QED
    BY <1>3, <2>1 DEF Rest
<1> HIDE DEF last
<1>9. DOMAIN src = Upto(m)
  BY <1>3 DEF SourceOf
<1>10. src = [i \in Upto(m) |-> src[i]]
  BY <1>9 DEF SourceOf
<1> HIDE DEF src
<1>11. 0..(w - 1) \cup (w..(m - 1)) = Upto(m) /\ \A i \in Upto(m) : i \notin 0..(w - 1) => i \in w..(m - 1)
  BY <1>3 DEF Upto
<1>12. Over(elements, last) = [i \in Upto(m) |-> IF i \in 0..(w - 1) THEN elements[i] ELSE last[i]]
  BY <1>7, <1>8, <1>11 DEF Over
<1>13. Over(elements, last) = src
  BY <1>7, <1>8, <1>10, <1>11, <1>12
<1> QED
  BY <1>3, <1>13, Zenon DEF elements, src, last

--------------------------------------------------------------------------------
(* The inductive invariant *)

Writing == {"begin", "sample", "predict", "plain", "shuffled"}
Reading == {"read", "decoded", "error"}

\* The frames a save may have written for block b of plan p.
FramesOf(p, b) ==
    {Lost} \cup {Payload(n, n, SourceOf(p, b)) : n \in PayloadSizes}
           \cup {Payload(n + Mask, n, ShuffledOf(p, b)) : n \in PayloadSizes}
Frames(p) == UNION {FramesOf(p, b) : b \in 1..Len(p)}

Inputs ==
    /\ plan \in Plans /\ level \in Levels /\ shuffle \in BOOLEAN /\ header \in BOOLEAN
    /\ wbuild \in Builds /\ rbuild \in Builds

Buffers == DOMAIN scratch = Upto(MaxBlock) /\ DOMAIN dst = Upto(MaxBlock) /\ size \in 0..MaxBlock

\* Every frame in the stream is one of its block's.
Stored == stream \in Seq(Frames(plan)) /\ \A b \in 1..Len(stream) : stream[b] \in FramesOf(plan, b)

Phases ==
    /\ pc \in Writing \cup Reading \cup {"open", "done"}
    /\ k \in Nat \ {0} /\ samples \in 0..4
    /\ pc \in Writing => k <= Len(plan) /\ Len(stream) = k - 1
    /\ pc \in Reading => k <= Len(plan) /\ Len(stream) = Len(plan)
    /\ pc \in {"open", "done"} => k = Len(plan) + 1 /\ Len(stream) = Len(plan)
    /\ pc = "begin" => samples = 0
    /\ pc = "sample" => samples \in 1..3 /\ plan[k] >= 8 * SampleSize

IInv == Inputs /\ Buffers /\ Stored /\ Phases /\ BlockSurvives /\ IntactReads

LEMMA SizeNumbers ==
    /\ MaxBlock \in Nat /\ MaxZBlock \in Nat /\ Mask \in Nat /\ MaxZBlock < Mask
    /\ SampleSize \in Nat \ {0} /\ SampleSize % 8 = 0
    /\ \A n \in PayloadSizes : n \in Nat /\ n >= 1 /\ n <= MaxZBlock
  BY SizesAssumption

LEMMA InitInvariant == Init => IInv
<1> SUFFICES ASSUME Init PROVE IInv
  OBVIOUS
<1>1. Inputs
  BY DEF Init, Inputs
<1>2. Buffers
  BY SizeNumbers DEF Init, Buffers
<1>3. Stored
  BY DEF Init, Stored
<1>4. Phases
  <2>1. Len(plan) \in Nat \ {0}
    BY <1>1, PlanFacts DEF Inputs
  <2> QED
    BY <2>1 DEF Init, Phases, Writing, Reading
<1>5. BlockSurvives /\ IntactReads
  BY DEF Init, BlockSurvives, IntactReads
<1> QED
  BY <1>1, <1>2, <1>3, <1>4, <1>5 DEF IInv

\* Appending a frame of its block keeps the invariant, if the scratch buffer
\* stays as long as it is.
LEMMA StoreInvariant ==
    ASSUME IInv, pc \in Writing, NEW frame \in FramesOf(plan, k), Store(frame),
           DOMAIN scratch' = Upto(MaxBlock)
    PROVE  IInv'
<1>1. Len(plan) \in Nat \ {0} /\ k \in 1..Len(plan) /\ Len(stream) = k - 1
  BY PlanFacts DEF IInv, Inputs, Phases
<1>2. Inputs'
  BY DEF IInv, Inputs, Store, input
<1>3. Buffers'
  BY DEF IInv, Buffers, Store
<1>4. /\ stream' \in Seq(Frames(plan)) /\ Len(stream') = k
      /\ \A b \in 1..(k - 1) : stream'[b] = stream[b]
      /\ stream'[k] = frame
  <2>1. frame \in Frames(plan)
    BY <1>1 DEF Frames
  <2>2. stream' = Append(stream, frame) /\ stream \in Seq(Frames(plan))
    BY DEF Store, IInv, Stored
  <2> QED
    BY <1>1, <2>1, <2>2
<1>5. Stored'
  <2>1. plan' = plan
    BY DEF Store, input
  <2>2. \A b \in 1..Len(stream') : stream'[b] \in FramesOf(plan, b)
    BY <1>1, <1>4 DEF IInv, Stored
  <2>3. stream' \in Seq(Frames(plan)) /\ \A b \in 1..Len(stream') : stream'[b] \in FramesOf(plan, b)
    BY <1>4, <2>2
  <2> QED
    BY <2>1, <2>3 DEF Stored
<1>6. pc' \in {"open", "begin"}
  BY DEF Store
<1>7. Phases'
  BY <1>1, <1>4 DEF Store, input, Phases, Writing, Reading
<1>8. BlockSurvives' /\ IntactReads'
  BY <1>6 DEF BlockSurvives, IntactReads
<1> QED
  BY <1>2, <1>3, <1>5, <1>7, <1>8 DEF IInv

\* A step that leaves the stream and the reader's block alone, and the scratch
\* buffer as long as it is, needs only keep to the order of the phases.
LEMMA QuietInvariant ==
    ASSUME IInv, UNCHANGED <<input, stream, dst, size>>, DOMAIN scratch' = Upto(MaxBlock),
           Phases', pc' \notin {"decoded", "error"}
    PROVE  IInv'
<1>1. Inputs' /\ Buffers'
  BY DEF IInv, Inputs, Buffers, input
<1>2. Stored'
  BY DEF IInv, Stored, input
<1>3. BlockSurvives' /\ IntactReads'
  BY DEF BlockSurvives, IntactReads
<1> QED
  BY <1>1, <1>2, <1>3 DEF IInv

LEMMA SkipHeuristicInvariant == IInv /\ SkipHeuristic => IInv'
<1> SUFFICES ASSUME IInv, SkipHeuristic PROVE IInv'
  OBVIOUS
<1>1. Phases'
  BY DEF SkipHeuristic, IInv, Phases, Writing, Reading, input
<1> QED
  BY <1>1, QuietInvariant DEF SkipHeuristic, IInv, Buffers

LEMMA PredictInvariant == IInv /\ Predict => IInv'
<1> SUFFICES ASSUME IInv, Predict PROVE IInv'
  OBVIOUS
<1>1. Phases'
  BY DEF Predict, IInv, Phases, Writing, Reading, input
<1>2. pc' \notin {"decoded", "error"}
  BY DEF Predict
<1> QED
  BY <1>1, <1>2, QuietInvariant DEF Predict, IInv, Buffers

\* A sample is shuffled into the beginning of the scratch buffer.
LEMMA SampleInvariant == IInv /\ Sample => IInv'
<1> SUFFICES ASSUME IInv, Sample PROVE IInv'
  OBVIOUS
<1>1. /\ pc \in {"begin", "sample"} /\ plan[k] >= 8 * SampleSize
      /\ pc = "begin" => samples = 0
      /\ pc = "sample" => samples \in 1..3
  BY DEF Sample, IInv, Phases
<1>2. plan[k] \in Nat /\ plan[k] <= MaxBlock /\ k \in 1..Len(plan)
  BY <1>1, PlanFacts, SizeNumbers DEF IInv, Inputs, Phases, Writing
<1>3. DOMAIN scratch' = Upto(MaxBlock)
  <2>1. PICK n \in Nat : SampleSize = n * 8 /\ n * 8 <= MaxBlock
    BY <1>1, <1>2, SizeNumbers
  <2>2. PICK sample : scratch' = Over(Shuffled(wbuild, sample, SampleSize, ElemSize), scratch)
    BY Zenon DEF Sample
  <2>3. Shuffled(wbuild, sample, n * 8, 8) = Planes(sample, 8, n, 0..(n * 8 - 1))
    <3>1. 8 \in KernelSizes /\ wbuild \in Builds
      BY DEF KernelSizes, IInv, Inputs
    <3>2. Shufflable(wbuild, 8)
      BY <3>1, BuildsShuffle
    <3> QED
      BY <3>2, ShuffledIsPlanes
  <2> DEFINE planes == Planes(sample, 8, n, 0..(n * 8 - 1))
  <2>4. DOMAIN planes = 0..(n * 8 - 1)
    BY DEF Planes
  <2>5. scratch' = Over(planes, scratch)
    BY <2>1, <2>2, <2>3, Zenon DEF ElemSize
  <2> HIDE DEF planes
  <2>6. DOMAIN scratch' = 0..(n * 8 - 1) \cup Upto(MaxBlock)
    BY <2>4, <2>5 DEF Over, IInv, Buffers
  <2>7. 0..(n * 8 - 1) \cup Upto(MaxBlock) = Upto(MaxBlock)
    BY <2>1, SizeNumbers DEF Upto
  <2> QED
    BY <2>6, <2>7
<1>4. CASE /\ samples' = samples + 1
           /\ pc' = IF samples = 3 THEN "predict" ELSE "sample"
           /\ UNCHANGED <<input, k, stream, dst, size>>
  <2>1. Phases'
    BY <1>1, <1>4 DEF IInv, Phases, Writing, Reading, input
  <2>2. pc' \notin {"decoded", "error"}
    BY <1>4
  <2> QED
    BY <1>3, <1>4, <2>1, <2>2, QuietInvariant
<1>5. CASE Store(Lost)
  <2>1. Lost \in FramesOf(plan, k) /\ pc \in Writing
    BY <1>1 DEF FramesOf, Writing
  <2> QED
    BY <1>3, <1>5, <2>1, StoreInvariant
<1> QED
  BY <1>4, <1>5, Zenon DEF Sample

LEMMA CompressPlainInvariant == IInv /\ CompressPlain => IInv'
<1> SUFFICES ASSUME IInv, CompressPlain PROVE IInv'
  OBVIOUS
<1>1. PICK frame \in FramesOf(plan, k) : Store(frame)
  <2>1. Source = SourceOf(plan, k)
    BY DEF Source, SourceOf
  <2>2. Lost \in FramesOf(plan, k)
    BY DEF FramesOf
  <2>3. \A n \in PayloadSizes : Payload(n, n, Source) \in FramesOf(plan, k)
    BY <2>1 DEF FramesOf
  <2> QED
    BY <2>2, <2>3, Zenon DEF CompressPlain
<1>2. DOMAIN scratch' = Upto(MaxBlock) /\ pc \in Writing
  BY DEF CompressPlain, IInv, Buffers, Writing
<1> QED
  BY <1>1, <1>2, StoreInvariant

\* What both ways to compress a shuffled block leave in the scratch buffer.
LEMMA ScratchShuffled ==
    ASSUME IInv, pc = "shuffled", scratch' = ShuffledSource
    PROVE  /\ DOMAIN scratch' = Upto(MaxBlock)
           /\ [i \in Upto(plan[k]) |-> scratch'[i]] = ShuffledOf(plan, k)
<1>1. plan \in Plans /\ k \in 1..Len(plan) /\ wbuild \in Builds
  BY PlanFacts DEF IInv, Inputs, Phases, Writing
<1>2. DOMAIN scratch = Upto(MaxBlock)
  BY DEF IInv, Buffers
<1>3. scratch' = Over(Shuffled(wbuild, SourceOf(plan, k), Whole(plan[k]), ElemSize),
                      Over(Rest(SourceOf(plan, k), plan[k]), scratch))
  BY Zenon DEF ShuffledSource, Source, SourceOf, Whole, Rest
<1>4. PICK buffer : buffer = scratch'
  OBVIOUS
<1>5. DOMAIN buffer = Upto(MaxBlock) /\ First(buffer, plan[k]) = ShuffledOf(plan, k)
  BY <1>1, <1>2, <1>3, <1>4, ShuffledInto
<1> QED
  BY <1>4, <1>5, Zenon DEF First, Upto

LEMMA CompressShuffledInvariant == IInv /\ CompressShuffled => IInv'
<1> SUFFICES ASSUME IInv, CompressShuffled PROVE IInv'
  OBVIOUS
<1>1. /\ DOMAIN scratch' = Upto(MaxBlock) /\ pc \in Writing
      /\ [i \in Upto(plan[k]) |-> scratch'[i]] = ShuffledOf(plan, k)
  BY ScratchShuffled DEF CompressShuffled, Writing
<1>2. PICK frame \in FramesOf(plan, k) : Store(frame)
  <2>1. Lost \in FramesOf(plan, k)
    BY DEF FramesOf
  <2>2. \A n \in PayloadSizes : Payload(n + Mask, n, ShuffledOf(plan, k)) \in FramesOf(plan, k)
    BY DEF FramesOf
  <2> QED
    BY <1>1, <2>1, <2>2, Zenon DEF CompressShuffled
<1> QED
  BY <1>1, <1>2, StoreInvariant

LEMMA CompressBothInvariant == IInv /\ CompressBoth => IInv'
<1> SUFFICES ASSUME IInv, CompressBoth PROVE IInv'
  OBVIOUS
<1>1. /\ DOMAIN scratch' = Upto(MaxBlock) /\ pc \in Writing
      /\ [i \in Upto(plan[k]) |-> scratch'[i]] = ShuffledOf(plan, k)
  BY ScratchShuffled DEF CompressBoth, Writing
<1>2. PICK frame \in FramesOf(plan, k) : Store(frame)
  <2>1. Source = SourceOf(plan, k)
    BY DEF Source, SourceOf
  <2>2. Lost \in FramesOf(plan, k)
    BY DEF FramesOf
  <2>3. \A n \in PayloadSizes : /\ Payload(n + Mask, n, ShuffledOf(plan, k)) \in FramesOf(plan, k)
                                /\ Payload(n, n, Source) \in FramesOf(plan, k)
    BY <2>1 DEF FramesOf
  <2> QED
    BY <1>1, <2>2, <2>3, Zenon DEF CompressBoth
<1> QED
  BY <1>1, <1>2, StoreInvariant

LEMMA OpenInvariant == IInv /\ Open => IInv'
<1> SUFFICES ASSUME IInv, Open PROVE IInv'
  OBVIOUS
<1>1. Len(plan) \in Nat \ {0}
  BY PlanFacts DEF IInv, Inputs
<1>2. Phases'
  BY <1>1 DEF Open, IInv, Phases, Writing, Reading, input
<1>3. DOMAIN scratch' = Upto(MaxBlock) /\ pc' \notin {"decoded", "error"}
  BY DEF Open
<1> QED
  BY <1>2, <1>3, QuietInvariant DEF Open

LEMMA NextBlockInvariant == IInv /\ NextBlock => IInv'
<1> SUFFICES ASSUME IInv, NextBlock PROVE IInv'
  OBVIOUS
<1>1. Len(plan) \in Nat \ {0}
  BY PlanFacts DEF IInv, Inputs
<1>2. Phases'
  BY <1>1 DEF NextBlock, IInv, Phases, Writing, Reading, input
<1>3. DOMAIN scratch' = Upto(MaxBlock) /\ pc' \notin {"decoded", "error"}
  BY DEF NextBlock, IInv, Buffers
<1> QED
  BY <1>2, <1>3, QuietInvariant DEF NextBlock

--------------------------------------------------------------------------------
(* Reading a frame *)

\* The size words of a payload of n bytes.
Words(n) == {n, n + Mask}

\* What the decompressors need to know of a frame that holds a block.
LEMMA PayloadFacts ==
    ASSUME NEW p \in Plans, NEW b \in 1..Len(p), NEW n \in PayloadSizes,
           NEW frame, NEW content, DOMAIN content = Upto(p[b]),
           NEW word \in Words(n), frame = Payload(word, n, content)
    PROVE  /\ CompressedBlockSize(word) = n /\ frame.word = word
           /\ Zstd(frame, n).ok /\ Zstd(frame, n).data = content
           /\ Cardinality(DOMAIN content) = p[b] /\ ~IsError(p[b])
           /\ n <= MaxZBlock /\ (word >= Mask <=> word = n + Mask)
<1>1. /\ n \in Nat /\ n >= 1 /\ n <= MaxZBlock /\ MaxZBlock \in Nat
      /\ Mask \in Nat \ {0} /\ n < Mask
  BY SizeNumbers
<1>2. CompressedBlockSize(word) = n
  <2>1. n % Mask = n
    BY <1>1
  <2>2. (n + Mask) % Mask = n
    <3>1. n + Mask = 1 * Mask + n /\ n \in 0..(Mask - 1)
      BY <1>1
    <3>2. (1 * Mask + n) % Mask = n
      BY <1>1, <3>1, DivMod
    <3> QED
      BY <3>1, <3>2
  <2> QED
    BY <2>1, <2>2 DEF CompressedBlockSize, Words
<1>3. frame.word = word /\ frame.bytes = n /\ frame.content = content
  BY DEF Payload
<1>4. Zstd(frame, n).ok /\ Zstd(frame, n).data = content
  <2>1. Zstd(frame, n).ok <=> n \in {0, frame.bytes}
    BY Zenon DEF Zstd
  <2>2. Zstd(frame, n).data = content
    BY <1>1, <1>3 DEF Zstd
  <2> QED
    BY <1>3, <2>1, <2>2
<1>5. Cardinality(DOMAIN content) = p[b] /\ ~IsError(p[b])
  <2>1. p[b] \in 1..MaxBlock /\ p[b] \in Nat
    BY PlanFacts
  <2>2. p[b] >= 1
    BY <2>1, SizeNumbers
  <2>3. PICK m \in Int : m = p[b] - 1
    BY <2>1
  <2>4. 0 \in Int
    OBVIOUS
  <2>5. Cardinality(0..m) = IF 0 > m THEN 0 ELSE m - 0 + 1
    BY <2>4, FS_Interval
  <2> QED
    BY <2>1, <2>2, <2>3, <2>5 DEF Upto, IsError
<1>6. word >= Mask <=> word = n + Mask
  BY <1>1 DEF Words
<1> QED
  BY <1>1, <1>2, <1>3, <1>4, <1>5, <1>6

\* A decoded block: the step ends with block k in dst.
LEMMA DecodedInvariant ==
    ASSUME IInv, pc = "read", UNCHANGED <<input, k, samples, stream>>,
           DOMAIN scratch' = Upto(MaxBlock), pc' = "decoded",
           dst' = Over(SourceOf(plan, k), dst), size' = plan[k]
    PROVE  IInv'
<1>1. plan \in Plans /\ k \in 1..Len(plan) /\ Len(plan) \in Nat
  BY PlanFacts DEF IInv, Inputs, Phases, Reading
<1>2. plan[k] \in Nat /\ plan[k] <= MaxBlock /\ MaxBlock \in Nat
  BY <1>1, PlanFacts, SizeNumbers
<1>3. Inputs'
  BY DEF IInv, Inputs, input
<1>4. Stored'
  BY DEF IInv, Stored, input
<1>5. Phases'
  BY DEF IInv, Phases, Reading, Writing, input
<1>6. /\ DOMAIN dst' = Upto(MaxBlock)
      /\ \A i \in Upto(plan[k]) : dst'[i] = Byte(k, i)
  <2>1. DOMAIN SourceOf(plan, k) = Upto(plan[k]) /\ \A i \in Upto(plan[k]) : SourceOf(plan, k)[i] = Byte(k, i)
    BY DEF SourceOf
  <2>2. PICK source : source = SourceOf(plan, k)
    OBVIOUS
  <2>3. Upto(plan[k]) \cup Upto(MaxBlock) = Upto(MaxBlock)
    BY <1>2 DEF Upto
  <2>4. dst' = Over(source, dst) /\ DOMAIN dst = Upto(MaxBlock) /\ DOMAIN source = Upto(plan[k])
    BY <2>1, <2>2 DEF IInv, Buffers
  <2>5. DOMAIN dst' = Upto(MaxBlock)
    BY <2>3, <2>4 DEF Over
  <2>6. \A i \in Upto(plan[k]) : dst'[i] = source[i]
    BY <2>3, <2>4 DEF Over
  <2> QED
    BY <2>1, <2>2, <2>5, <2>6
<1>7. Buffers'
  BY <1>2, <1>6 DEF Buffers
<1>8. BlockSurvives' /\ IntactReads'
  BY <1>6 DEF BlockSurvives, IntactReads, input, Byte
<1> QED
  BY <1>3, <1>4, <1>5, <1>7, <1>8 DEF IInv

\* A rejected frame, one the reader may reject.
LEMMA RejectedInvariant ==
    ASSUME IInv, pc = "read", Fail, DOMAIN scratch' = Upto(MaxBlock),
           stream[k].bytes = 0 \/ (stream[k].word >= Mask /\ ~header)
    PROVE  IInv'
<1>1. Inputs' /\ Buffers'
  BY DEF IInv, Inputs, Buffers, Fail, input
<1>2. Stored'
  BY DEF IInv, Stored, Fail, input
<1>3. Phases'
  BY DEF IInv, Phases, Reading, Writing, Fail, input
<1>4. BlockSurvives' /\ IntactReads'
  BY DEF BlockSurvives, IntactReads, Fail, input
<1> QED
  BY <1>1, <1>2, <1>3, <1>4 DEF IInv

LEMMA ReadLost ==
    ASSUME IInv, ReadBlock, stream[k] = Lost
    PROVE  IInv'
<1>1. Lost.word = 0 /\ Lost.bytes = 0
  BY DEF Lost
<1>2. ~(0 >= Mask) /\ CompressedBlockSize(0) = 0 /\ ~(0 > MaxZBlock)
  BY SizeNumbers DEF CompressedBlockSize
<1>3. Fail /\ UNCHANGED scratch
  <2>1. DecompressPlain(Lost)
    BY <1>1, <1>2, Zenon DEF ReadBlock, DecompressShuffled
  <2>2. Accept(Zstd(Lost, 0), Zstd(Lost, 0).data) /\ UNCHANGED scratch
    BY <1>1, <1>2, <2>1, Zenon DEF DecompressPlain
  <2>3. Zstd(Lost, 0).data = << >>
    BY DEF Zstd
  <2>4. IsError(Cardinality(DOMAIN << >>))
    <3>1. DOMAIN << >> = {}
      OBVIOUS
    <3> QED
      BY <3>1, FS_EmptySet, Zenon DEF IsError
  <2> QED
    BY <2>2, <2>3, <2>4, Zenon DEF Accept
<1>4. DOMAIN scratch' = Upto(MaxBlock) /\ pc = "read"
  BY <1>3 DEF IInv, Buffers, ReadBlock
<1> QED
  BY <1>1, <1>3, <1>4, RejectedInvariant

LEMMA ReadPlain ==
    ASSUME IInv, ReadBlock, NEW n \in PayloadSizes, stream[k] = Payload(n, n, SourceOf(plan, k))
    PROVE  IInv'
<1>1. plan \in Plans /\ k \in 1..Len(plan) /\ pc = "read"
  BY PlanFacts DEF ReadBlock, IInv, Inputs, Phases, Reading
<1>2. PICK frame, source : frame = stream[k] /\ source = SourceOf(plan, k)
  OBVIOUS
<1>3. PICK word \in Words(n) : word = n
  BY DEF Words
<1>4. DOMAIN source = Upto(plan[k]) /\ frame = Payload(word, n, source)
  BY <1>2, <1>3 DEF SourceOf
<1>5. /\ CompressedBlockSize(word) = n /\ frame.word = word
      /\ Zstd(frame, n).ok /\ Zstd(frame, n).data = source
      /\ Cardinality(DOMAIN source) = plan[k] /\ ~IsError(plan[k])
      /\ n <= MaxZBlock /\ (word >= Mask <=> word = n + Mask)
  BY <1>1, <1>4, PayloadFacts
<1>6. ~(n > MaxZBlock) /\ ~(n >= Mask)
  BY <1>5, SizeNumbers
<1>7. DecompressPlain(frame)
  BY <1>2, <1>3, <1>5, <1>6, Zenon DEF ReadBlock, DecompressShuffled
<1>8. Accept(Zstd(frame, n), source) /\ UNCHANGED scratch
  BY <1>3, <1>5, <1>6, <1>7, Zenon DEF DecompressPlain
<1>9. /\ dst' = Over(source, dst) /\ size' = plan[k] /\ pc' = "decoded"
      /\ UNCHANGED <<input, k, samples, stream>>
  BY <1>5, <1>8, Zenon DEF Accept
<1>10. DOMAIN scratch' = Upto(MaxBlock)
  BY <1>8 DEF IInv, Buffers
<1> QED
  BY <1>1, <1>2, <1>9, <1>10, DecodedInvariant

LEMMA ReadShuffled ==
    ASSUME IInv, ReadBlock, NEW n \in PayloadSizes,
           stream[k] = Payload(n + Mask, n, ShuffledOf(plan, k))
    PROVE  IInv'
<1>1. plan \in Plans /\ k \in 1..Len(plan) /\ pc = "read" /\ rbuild \in Builds
  BY PlanFacts DEF ReadBlock, IInv, Inputs, Phases, Reading
<1>2. PICK frame, stored : frame = stream[k] /\ stored = ShuffledOf(plan, k)
  OBVIOUS
<1>3. PICK word \in Words(n) : word = n + Mask
  BY DEF Words
<1>4. DOMAIN stored = Upto(plan[k]) /\ frame = Payload(word, n, stored)
  BY <1>2, <1>3 DEF ShuffledOf
<1>5. /\ CompressedBlockSize(word) = n /\ frame.word = word
      /\ Zstd(frame, n).ok /\ Zstd(frame, n).data = stored
      /\ Cardinality(DOMAIN stored) = plan[k] /\ ~IsError(plan[k])
      /\ n <= MaxZBlock /\ (word >= Mask <=> word = n + Mask)
  BY <1>1, <1>4, PayloadFacts
<1>6. word >= Mask /\ ~(n > MaxZBlock) /\ word > MaxZBlock
  BY <1>3, <1>5, SizeNumbers
<1>7. CASE ~header
  <2>1. DecompressPlain(frame)
    BY <1>2, <1>5, <1>6, <1>7, Zenon DEF ReadBlock, DecompressShuffled
  <2>2. Fail /\ UNCHANGED scratch
    BY <1>5, <1>6, <2>1, Zenon DEF DecompressPlain
  <2>3. DOMAIN scratch' = Upto(MaxBlock)
    BY <2>2 DEF IInv, Buffers
  <2> QED
    BY <1>1, <1>2, <1>5, <1>6, <1>7, <2>2, <2>3, RejectedInvariant
<1>8. CASE header
  <2>1. DecompressShuffled(frame)
    BY <1>2, <1>5, <1>6, <1>8, Zenon DEF ReadBlock, DecompressPlain
  <2> DEFINE shuffled == Over(stored, scratch)
             block == Over(Unshuffled(rbuild, shuffled, Whole(plan[k]), ElemSize), Rest(shuffled, plan[k]))
  <2>2. scratch' = shuffled /\ Accept(Zstd(frame, n), block)
    BY <1>5, <2>1, Zenon DEF DecompressShuffled, Whole, Rest
  <2>3. DOMAIN scratch' = Upto(MaxBlock) /\ First(shuffled, plan[k]) = stored
    <3>1. plan[k] \in Nat /\ plan[k] <= MaxBlock /\ MaxBlock \in Nat
      BY <1>1, PlanFacts, SizeNumbers
    <3>2. Upto(plan[k]) \cup Upto(MaxBlock) = Upto(MaxBlock)
      BY <3>1 DEF Upto
    <3>3. DOMAIN shuffled = Upto(MaxBlock)
      BY <1>4, <3>2 DEF Over, IInv, Buffers
    <3>4. \A i \in Upto(plan[k]) : shuffled[i] = stored[i]
      BY <1>4, <3>2 DEF Over, IInv, Buffers
    <3>5. stored = [i \in Upto(plan[k]) |-> stored[i]]
      BY <1>2 DEF ShuffledOf
    <3> HIDE DEF shuffled
    <3>6. First(shuffled, plan[k]) = [i \in Upto(plan[k]) |-> shuffled[i]]
      BY Zenon DEF First, Upto
    <3> QED
      BY <2>2, <3>3, <3>4, <3>5, <3>6
  <2>4. block = SourceOf(plan, k)
    <3> HIDE DEF shuffled
    <3> QED
      BY <1>1, <1>2, <2>3, Restored
  <2> HIDE DEF block, shuffled
  <2>5. /\ dst' = Over(block, dst) /\ size' = plan[k] /\ pc' = "decoded"
        /\ UNCHANGED <<input, k, samples, stream>>
    BY <1>5, <2>2, Zenon DEF Accept
  <2> QED
    BY <1>1, <2>3, <2>4, <2>5, DecodedInvariant
<1> QED
  BY <1>7, <1>8

LEMMA ReadBlockInvariant == IInv /\ ReadBlock => IInv'
<1> SUFFICES ASSUME IInv, ReadBlock PROVE IInv'
  OBVIOUS
<1>1. stream[k] \in FramesOf(plan, k)
  BY DEF ReadBlock, IInv, Stored, Phases, Reading
<1>2. \/ stream[k] = Lost
      \/ \E n \in PayloadSizes : stream[k] = Payload(n, n, SourceOf(plan, k))
      \/ \E n \in PayloadSizes : stream[k] = Payload(n + Mask, n, ShuffledOf(plan, k))
  BY <1>1, Zenon DEF FramesOf
<1> QED
  BY <1>2, ReadLost, ReadPlain, ReadShuffled, Zenon

LEMMA StepInvariant == IInv /\ [Next]_vars => IInv'
<1> SUFFICES ASSUME IInv, [Next]_vars PROVE IInv'
  OBVIOUS
<1>1. CASE UNCHANGED vars
  <2>1. UNCHANGED <<input, pc, k, samples, scratch, stream, dst, size>>
    BY <1>1 DEF vars
  <2>2. Inputs' /\ Buffers' /\ Phases'
    BY <2>1 DEF IInv, Inputs, Buffers, Phases, input
  <2>3. Stored'
    BY <2>1 DEF IInv, Stored, input
  <2>4. BlockSurvives' /\ IntactReads'
    BY <2>1 DEF IInv, BlockSurvives, IntactReads, input, Byte, Upto
  <2> QED
    BY <2>2, <2>3, <2>4 DEF IInv
<1>2. CASE Terminated
  BY <1>1, <1>2 DEF Terminated
<1> QED
  BY <1>1, <1>2, SkipHeuristicInvariant, SampleInvariant, PredictInvariant, CompressPlainInvariant,
     CompressShuffledInvariant, CompressBothInvariant, OpenInvariant, ReadBlockInvariant,
     NextBlockInvariant, Zenon DEF Next

LEMMA Invariant == Spec => []IInv
  BY InitInvariant, StepInvariant, PTL DEF Spec

--------------------------------------------------------------------------------
(* Theorems *)

\* Nothing is written outside of the buffers of the compressor and of the
\* decompressor, and size, flag and payload fit their fields (the size word of
\* compress and decompress in zstd_module.h).
THEOREM TypeCorrect == Spec => []TypeOK
<1>1. IInv => TypeOK
  <2> SUFFICES ASSUME IInv PROVE TypeOK
    OBVIOUS
  <2>1. Len(plan) \in Nat \ {0}
    BY PlanFacts DEF IInv, Inputs
  <2>2. k \in 1..(Len(plan) + 1)
    BY <2>1 DEF IInv, Phases, Writing, Reading
  <2>3. ASSUME NEW j \in DOMAIN stream
        PROVE  stream[j].word \in 0..(2 * Mask - 1) /\ stream[j].bytes \in 0..MaxZBlock
    <3>1. stream[j] \in FramesOf(plan, j)
      BY <2>3 DEF IInv, Stored
    <3>2. CASE stream[j] = Lost
      BY <3>2, SizeNumbers DEF Lost
    <3>3. CASE \E n \in PayloadSizes : \/ stream[j] = Payload(n, n, SourceOf(plan, j))
                                       \/ stream[j] = Payload(n + Mask, n, ShuffledOf(plan, j))
      <4>1. PICK n \in PayloadSizes : /\ stream[j].word = n \/ stream[j].word = n + Mask
                                      /\ stream[j].bytes = n
        BY <3>3 DEF Payload
      <4> QED
        BY <4>1, SizeNumbers
    <3> QED
      BY <3>1, <3>2, <3>3 DEF FramesOf
  <2>4. /\ pc \in {"begin", "sample", "predict", "plain", "shuffled", "open", "read", "decoded",
                  "error", "done"}
        /\ samples \in 0..4
    BY DEF IInv, Phases, Writing, Reading
  <2> QED
    BY <2>2, <2>3, <2>4 DEF IInv, Inputs, Buffers, TypeOK
<1> QED
  BY <1>1, Invariant, PTL

\* Whatever the builds of writer and reader, the kernels store a block of any
\* size as the plain loops do, and restore it (blosc_shuffle, blosc_unshuffle).
THEOREM EveryBuildAgrees == Spec => []KernelsAgree
<1>1. IInv => KernelsAgree
  <2> SUFFICES ASSUME IInv, pc = "begin", stream = << >>, NEW t \in KernelSizes
               PROVE  LET n == plan[1] - (plan[1] % t)
                          shuffled == Shuffled(wbuild, Source, n, t)
                      IN  /\ shuffled = Shuffled("generic", Source, n, t)
                          /\ Unshuffled(rbuild, shuffled, n, t) = [i \in Upto(n) |-> Source[i]]
    BY Zenon DEF KernelsAgree, KernelSizes
  <2>1. plan[1] \in Nat /\ wbuild \in Builds /\ rbuild \in Builds
    BY PlanFacts DEF IInv, Inputs
  <2>2. t \in Nat \ {0}
    BY DEF KernelSizes
  <2>3. PICK m \in Nat, d \in Nat : m = plan[1] - (plan[1] % t) /\ m = d * t
    <3>1. plan[1] = (plan[1] \div t) * t + (plan[1] % t) /\ plan[1] \div t \in Nat /\ plan[1] % t \in 0..(t - 1)
      BY <2>1, <2>2, Division
    <3>2. PICK d \in Nat, r \in Nat : d = plan[1] \div t /\ r = plan[1] % t
      BY <2>2, <3>1
    <3>3. PICK e \in Nat : e = d * t
      BY <2>2
    <3>4. plan[1] = e + r
      BY <3>1, <3>2, <3>3
    <3> QED
      BY <2>1, <3>2, <3>3, <3>4
  <2>4. /\ Shufflable(wbuild, t) /\ Shufflable(rbuild, t)
        /\ Shufflable("generic", t)
    BY <2>1, <2>2, BuildsShuffle DEF Shufflable
  <2>5. PICK source : source = Source
    OBVIOUS
  <2>6. /\ Shuffled(wbuild, source, d * t, t) = Planes(source, t, d, 0..(d * t - 1))
        /\ Shuffled("generic", source, d * t, t) = Planes(source, t, d, 0..(d * t - 1))
    BY <2>4, ShuffledIsPlanes
  <2>7. Unshuffled(rbuild, Shuffled(wbuild, source, d * t, t), d * t, t) = First(source, d * t)
    BY <2>4, UnshuffledIsSource
  <2> QED
    BY <2>3, <2>5, <2>6, <2>7, Zenon DEF First, Upto
<1> QED
  BY <1>1, Invariant, PTL

\* A block that is decoded is the block that was written, for blocks, samples
\* and payloads of any size, and whatever earlier blocks have left in the
\* buffers (compress and decompress of both compressors).
THEOREM BlocksSurvive == Spec => []BlockSurvives
<1>1. IInv => BlockSurvives
  BY DEF IInv
<1> QED
  BY <1>1, Invariant, PTL

\* The reader rejects nothing but what a failed compression has lost, or
\* shuffled blocks behind a header that denies them.
THEOREM IntactBlocksRead == Spec => []IntactReads
<1>1. IInv => IntactReads
  BY DEF IInv
<1> QED
  BY <1>1, Invariant, PTL
================================================================================
