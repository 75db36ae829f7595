---------------------------- MODULE DeliveryProofs ----------------------------
(***************************************************************************)
(* CalcCrc32 computes the CRC-32 of every file: one block of 16 bytes is   *)
(* 16 steps of the bytewise algorithm, because every step is linear over   *)
(* exclusive or.  With that, a file that passes the check is the file of   *)
(* the list, for any number of files, unpackers and sessions and messages  *)
(* of any length.                                                          *)
(***************************************************************************)
EXTENDS DeliveryProperties, SequenceTheorems, TLAPS

-------------------------------------------------------------------------------
(* Exclusive or *)

\* Words are closed under exclusive or and shifts; bytes are words.
LEMMA XorType ==
    ASSUME NEW a \in Word, NEW b \in Word
    PROVE  Xor(a, b) \in Word
  BY DEF Word, Xor

LEMMA XorByte ==
    ASSUME NEW a \in Byte, NEW b \in Byte
    PROVE  Xor(a, b) \in Byte
  BY DEF Byte, Xor

LEMMA ByteIsWord == Byte \subseteq Word
<1>1. 0..7 \subseteq 0..31
  OBVIOUS
<1> QED BY <1>1 DEF Byte, Word

LEMMA ShiftType ==
    ASSUME NEW w, NEW n
    PROVE  ShiftRight(w, n) \in Word /\ ByteOf(w, n) \in Byte
  BY DEF ShiftRight, ByteOf, Word, Byte

\* A bit of an exclusive or.
LEMMA XorBit ==
    ASSUME NEW a, NEW b, NEW i
    PROVE  i \in Xor(a, b) <=> ~(i \in a <=> i \in b)
  BY DEF Xor

\* Exclusive or is an Abelian group.
LEMMA XorAssoc ==
    ASSUME NEW a, NEW b, NEW c
    PROVE  /\ Xor(Xor(a, b), c) = Xor(a, Xor(b, c))
           /\ Xor(a, b) = Xor(b, a)
           /\ Xor(a, {}) = a
           /\ Xor({}, a) = a
           /\ Xor(a, a) = {}
<1>1. \A i : i \in Xor(Xor(a, b), c) <=> i \in Xor(a, Xor(b, c))
  BY XorBit
<1>2. Xor(Xor(a, b), c) = Xor(a, Xor(b, c))
  BY <1>1 DEF Xor
<1> QED BY <1>2 DEF Xor

\* The two middle terms may change places.
LEMMA XorSwap ==
    ASSUME NEW a, NEW b, NEW c, NEW d
    PROVE  Xor(Xor(a, b), Xor(c, d)) = Xor(Xor(a, c), Xor(b, d))
<1>1. Xor(Xor(a, b), Xor(c, d)) = Xor(a, Xor(b, Xor(c, d)))
  BY XorAssoc
<1>2. Xor(b, Xor(c, d)) = Xor(c, Xor(b, d))
  BY XorAssoc
<1>3. Xor(Xor(a, c), Xor(b, d)) = Xor(a, Xor(c, Xor(b, d)))
  BY XorAssoc
<1> QED BY <1>1, <1>2, <1>3

-------------------------------------------------------------------------------
(* Every step is linear *)

LEMMA ShiftLinear ==
    ASSUME NEW a, NEW b, NEW n
    PROVE  /\ ShiftRight(Xor(a, b), n) = Xor(ShiftRight(a, n), ShiftRight(b, n))
           /\ ByteOf(Xor(a, b), n) = Xor(ByteOf(a, n), ByteOf(b, n))
<1>1. \A i : i \in ShiftRight(Xor(a, b), n)
                <=> i \in Xor(ShiftRight(a, n), ShiftRight(b, n))
  BY XorBit DEF ShiftRight
<1>2. \A i : i \in ByteOf(Xor(a, b), n) <=> i \in Xor(ByteOf(a, n), ByteOf(b, n))
  BY XorBit DEF ByteOf
<1>3. ShiftRight(Xor(a, b), n) = Xor(ShiftRight(a, n), ShiftRight(b, n))
  BY <1>1 DEF ShiftRight, Xor
<1> QED BY <1>2, <1>3 DEF ByteOf, Xor

LEMMA BitStepLinear ==
    ASSUME NEW a, NEW b
    PROVE  /\ BitStep(Xor(a, b)) = Xor(BitStep(a), BitStep(b))
           /\ BitStep(a) \in Word
<1> DEFINE P(c) == IF 0 \in c THEN Polynomial ELSE {}
<1>1. P(Xor(a, b)) = Xor(P(a), P(b))
  <2>1. 0 \in Xor(a, b) <=> ~(0 \in a <=> 0 \in b)
    BY DEF Xor
  <2> QED BY <2>1, XorAssoc
<1>2. P(a) \in Word
  BY DEF Polynomial, Word
<1>3. BitStep(Xor(a, b)) = Xor(Xor(ShiftRight(a, 1), ShiftRight(b, 1)), Xor(P(a), P(b)))
  BY <1>1, ShiftLinear DEF BitStep
<1>4. ShiftRight(a, 1) \in Word
  BY ShiftType
<1> HIDE DEF P
<1>5. BitStep(Xor(a, b)) = Xor(Xor(ShiftRight(a, 1), P(a)), Xor(ShiftRight(b, 1), P(b)))
  BY <1>3, XorSwap
<1> QED BY <1>2, <1>4, <1>5, XorType DEF BitStep, P

LEMMA TableLinear ==
    ASSUME NEW a, NEW b
    PROVE  /\ CRC32table(Xor(a, b)) = Xor(CRC32table(a), CRC32table(b))
           /\ CRC32table(a) \in Word
<1>1. \A c, d : TwoBits(Xor(c, d)) = Xor(TwoBits(c), TwoBits(d))
  BY BitStepLinear DEF TwoBits
<1>2. \A c, d : FourBits(Xor(c, d)) = Xor(FourBits(c), FourBits(d))
  BY <1>1 DEF FourBits
<1>3. CRC32table(a) \in Word
  BY BitStepLinear DEF CRC32table, FourBits, TwoBits
<1> QED BY <1>2, <1>3 DEF CRC32table

\* One zero byte, and what a byte adds to it.
Zero(w) == GetCRC32(w, {})

LEMMA ZeroLinear ==
    ASSUME NEW a, NEW b
    PROVE  /\ Zero(Xor(a, b)) = Xor(Zero(a), Zero(b))
           /\ Zero(a) \in Word
<1>1. \A c : Zero(c) = Xor(ShiftRight(c, 8), CRC32table(ByteOf(c, 0)))
  BY XorAssoc DEF Zero, GetCRC32
<1>2. ByteOf(Xor(a, b), 0) = Xor(ByteOf(a, 0), ByteOf(b, 0))
  BY ShiftLinear
<1>3. CRC32table(ByteOf(Xor(a, b), 0)) = Xor(CRC32table(ByteOf(a, 0)), CRC32table(ByteOf(b, 0)))
  BY <1>2, TableLinear
<1>4. ShiftRight(Xor(a, b), 8) = Xor(ShiftRight(a, 8), ShiftRight(b, 8))
  BY ShiftLinear
<1>5. Zero(Xor(a, b)) = Xor(Zero(a), Zero(b))
  BY <1>1, <1>3, <1>4, XorSwap
<1>6. Zero(a) \in Word
  <2>1. ShiftRight(a, 8) \in Word /\ CRC32table(ByteOf(a, 0)) \in Word
    BY ShiftType, TableLinear
  <2> QED BY <1>1, <2>1, XorType
<1> QED BY <1>5, <1>6

LEMMA ByteAdds ==
    ASSUME NEW w, NEW b
    PROVE  GetCRC32(w, b) = Xor(Zero(w), CRC32table(b))
<1>1. CRC32table(Xor(ByteOf(w, 0), b)) = Xor(CRC32table(ByteOf(w, 0)), CRC32table(b))
  BY TableLinear
<1>2. Xor(ByteOf(w, 0), {}) = ByteOf(w, 0)
  BY XorAssoc
<1> QED BY <1>1, <1>2, XorAssoc DEF GetCRC32, Zero


\* A zero byte takes the lowest byte that is left of r through the table.
LEMMA ZeroOfShift ==
    ASSUME NEW r \in Word, NEW n \in Nat
    PROVE  Zero(ShiftRight(r, 8 * n)) =
               Xor(ShiftRight(r, 8 * (n + 1)), CRC32table(ByteOf(r, n)))
<1>1. ShiftRight(ShiftRight(r, 8 * n), 8) = ShiftRight(r, 8 * (n + 1))
  BY DEF ShiftRight, Word
<1>2. ByteOf(ShiftRight(r, 8 * n), 0) = ByteOf(r, n)
  BY DEF ShiftRight, ByteOf, Word
<1> QED BY <1>1, <1>2, XorAssoc DEF Zero, GetCRC32

-------------------------------------------------------------------------------
(* One block is sixteen bytes *)

\* T is what the first n bytes of a block have left in the register through
\* the tables (the exclusive or of n entries): 16 - n zero bytes after it
\* would give s without the part of r that is still to be taken.
Linked(n, T, s, r) ==
    \E Q \in [0..(16 - n) -> Word] :
        /\ \A k \in 0..(15 - n) : Q[k + 1] = Zero(Q[k])
        /\ Q[0] = Xor(s, ShiftRight(r, 8 * n))
        /\ Q[16 - n] = T

\* The next byte goes through table 15 - n, with the byte of r it meets.
LEMMA NextByte ==
    ASSUME NEW n \in 0..15, NEW T, NEW s \in Word, NEW r \in Word, NEW b \in Byte,
           Linked(n, T, s, r)
    PROVE  /\ Linked(n + 1, Xor(T, CrcTable[15 - n][Xor(ByteOf(r, n), b)]),
                     GetCRC32(s, b), r)
           /\ GetCRC32(s, b) \in Word
<1> DEFINE x == Xor(ByteOf(r, n), b)
           S == ShiftRight(r, 8 * n)
<1>1. x \in Byte
  BY XorByte, ShiftType
<1>2. PICK Q \in [0..(16 - n) -> Word] :
          /\ \A k \in 0..(15 - n) : Q[k + 1] = Zero(Q[k])
          /\ Q[0] = Xor(s, S)
          /\ Q[16 - n] = T
  BY DEF Linked
<1> DEFINE P == [k \in 0..(15 - n) |-> Xor(Q[k + 1], CrcTable[k][x])]
<1> HIDE DEF x
<1>3. P \in [0..(16 - (n + 1)) -> Word]
  <2>1. ASSUME NEW k \in 0..(15 - n) PROVE Q[k + 1] \in Word /\ CrcTable[k][x] \in Word
    BY <1>1, CrcTableAssumption DEF IsCrcTable
  <2> QED BY <2>1, XorType
<1>4. ASSUME NEW k \in 0..(15 - (n + 1)) PROVE P[k + 1] = Zero(P[k])
  <2>1. k \in 0..(15 - n) /\ k + 1 \in 0..(15 - n) /\ k \in 0..14
    OBVIOUS
  <2>2. Q[(k + 1) + 1] = Zero(Q[k + 1])
    BY <1>2, <2>1
  <2>3. CrcTable[k + 1][x] = Zero(CrcTable[k][x])
    BY <1>1, <2>1, CrcTableAssumption DEF Zero, IsCrcTable
  <2>4. P[k] = Xor(Q[k + 1], CrcTable[k][x])
        /\ P[k + 1] = Xor(Q[(k + 1) + 1], CrcTable[k + 1][x])
    BY <2>1
  <2> QED BY <2>2, <2>3, <2>4, ZeroLinear
<1>5. P[0] = Xor(GetCRC32(s, b), ShiftRight(r, 8 * (n + 1)))
  <2> DEFINE U == ShiftRight(r, 8 * (n + 1))
             E == CRC32table(ByteOf(r, n))
             C == CRC32table(b)
  <2>1. P[0] = Xor(Q[1], CRC32table(x))
    <3>1. Q[0 + 1] = Q[1] /\ 0 \in 0..(15 - n)
      OBVIOUS
    <3> QED BY <1>1, <3>1, CrcTableAssumption DEF IsCrcTable
  <2>2. Q[1] = Xor(Zero(s), Zero(S))
    BY <1>2, ZeroLinear
  <2>3. Zero(S) = Xor(U, E)
    BY ZeroOfShift
  <2>4. CRC32table(x) = Xor(E, C)
    BY TableLinear DEF x
  <2>5. GetCRC32(s, b) = Xor(Zero(s), C)
    BY ByteAdds
  <2> HIDE DEF U, E, C
  <2>6. Xor(Xor(Zero(s), Xor(U, E)), Xor(E, C)) = Xor(Xor(Zero(s), C), U)
    <3>1. Xor(Xor(U, E), Xor(E, C)) = Xor(U, C)
      <4>1. Xor(E, Xor(E, C)) = Xor(Xor(E, E), C)
        BY XorAssoc
      <4>2. Xor(Xor(E, E), C) = C
        BY XorAssoc
      <4>3. Xor(Xor(U, E), Xor(E, C)) = Xor(U, Xor(E, Xor(E, C)))
        BY XorAssoc
      <4> QED BY <4>1, <4>2, <4>3
    <3>2. Xor(U, C) = Xor(C, U)
      BY XorAssoc
    <3> QED BY <3>1, <3>2, XorAssoc
  <2> QED BY <2>1, <2>2, <2>3, <2>4, <2>5, <2>6 DEF U
<1>6. P[16 - (n + 1)] = Xor(T, CrcTable[15 - n][x])
  BY <1>2
<1>7. GetCRC32(s, b) \in Word
  BY ByteAdds, ZeroLinear, TableLinear, XorType
<1> HIDE DEF P
<1> QED BY <1>3, <1>4, <1>5, <1>6, <1>7 DEF Linked, x

\* Sixteen steps of GetCRC32 are one Block.
LEMMA SixteenBytes ==
    ASSUME NEW m \in [1..16 -> Byte], NEW s, s[0] \in Word,
           \A n \in 0..15 : s[n + 1] = GetCRC32(s[n], m[n + 1])
    PROVE  s[16] = Block(s[0], m)
<1> DEFINE x(n) == IF n <= 4 THEN Xor(ByteOf(s[0], n - 1), m[n]) ELSE m[n]
           T(n) == CrcTable[16 - n][x(n)]
           Reaches(n, A) == s[n] \in Word /\ Linked(n, A, s[n], s[0])
<1>1. Reaches(0, {})
  <2> DEFINE Q == [k \in 0..16 |-> {}]
  <2>1. {} \in Word /\ Zero({}) = {}
    BY XorAssoc, ZeroLinear DEF Word
  <2>2. Q[0] = Xor(s[0], ShiftRight(s[0], 0))
    <3>1. ShiftRight(s[0], 0) = s[0]
      BY DEF ShiftRight, Word
    <3> QED BY <3>1, XorAssoc
  <2>3. /\ Q \in [0..(16 - 0) -> Word] /\ Q[16 - 0] = {}
        /\ \A k \in 0..(15 - 0) : Q[k + 1] = Zero(Q[k])
    BY <2>1
  <2>4. 8 * 0 = 0
    OBVIOUS
  <2> HIDE DEF Q
  <2> QED BY <2>2, <2>3, <2>4 DEF Linked
<1>2. ASSUME NEW n \in 0..15, NEW A, Reaches(n, A)
      PROVE  Reaches(n + 1, Xor(A, T(n + 1)))
  <2>1. m[n + 1] \in Byte /\ s[n + 1] = GetCRC32(s[n], m[n + 1])
    OBVIOUS
  <2>2. x(n + 1) = Xor(ByteOf(s[0], n), m[n + 1])
    <3>1. CASE n < 4
      BY <3>1
    <3>2. CASE n >= 4
      <4>1. ByteOf(s[0], n) = {}
        BY <3>2 DEF ByteOf, Word
      <4>2. x(n + 1) = m[n + 1]
        BY <3>2
      <4> HIDE DEF x
      <4> QED BY <4>1, <4>2, XorAssoc
    <3> QED BY <3>1, <3>2
  <2>3. 16 - (n + 1) = 15 - n
    OBVIOUS
  <2> HIDE DEF x
  <2> QED BY <1>2, <2>1, <2>2, <2>3, NextByte
<1> DEFINE A4(A, n) == Xor(Xor(Xor(Xor(A, T(n)), T(n + 1)), T(n + 2)), T(n + 3))
           T4(n) == Xor(Xor(T(n), T(n + 1)), Xor(T(n + 2), T(n + 3)))
<1> HIDE DEF T, Reaches
<1>3. ASSUME NEW n \in {0, 4, 8, 12}, NEW A, Reaches(n, A)
      PROVE  Reaches(n + 4, Xor(A, T4(n + 1)))
  <2>1. Reaches(n + 1, Xor(A, T(n + 1)))
    BY <1>2, <1>3
  <2>2. Reaches(n + 2, Xor(Xor(A, T(n + 1)), T(n + 2)))
    BY <1>2, <2>1
  <2>3. Reaches(n + 3, Xor(Xor(Xor(A, T(n + 1)), T(n + 2)), T(n + 3)))
    BY <1>2, <2>2
  <2>4. Reaches(n + 4, Xor(Xor(Xor(Xor(A, T(n + 1)), T(n + 2)), T(n + 3)), T(n + 4)))
    BY <1>2, <2>3
  <2> QED BY <2>4, XorAssoc
<1> HIDE DEF T4
<1>4. Reaches(16, Xor(Xor(Xor(Xor({}, T4(1)), T4(5)), T4(9)), T4(13)))
  <2>1. Reaches(4, Xor({}, T4(1)))
    BY <1>1, <1>3
  <2>2. Reaches(8, Xor(Xor({}, T4(1)), T4(5)))
    BY <1>3, <2>1
  <2>3. Reaches(12, Xor(Xor(Xor({}, T4(1)), T4(5)), T4(9)))
    BY <1>3, <2>2
  <2> QED BY <1>3, <2>3
<1>5. Xor(Xor(Xor(Xor({}, T4(1)), T4(5)), T4(9)), T4(13)) = Block(s[0], m)
  <2>1. Xor(Xor(Xor(Xor({}, T4(1)), T4(5)), T4(9)), T4(13))
          = Xor(Xor(T4(1), T4(5)), Xor(T4(9), T4(13)))
    BY XorAssoc
  <2> QED BY <2>1 DEF Block, T4, T
<1>6. \A w : Linked(16, w, s[16], s[0]) => s[16] = w
  <2>1. SUFFICES ASSUME NEW Q, NEW w, Q[0] = Xor(s[16], ShiftRight(s[0], 8 * 16)), Q[16 - 16] = w
                 PROVE  s[16] = w
    BY DEF Linked
  <2>2. ShiftRight(s[0], 8 * 16) = {}
    BY DEF ShiftRight, Word
  <2>3. w = Xor(s[16], {})
    <3>1. 16 - 16 = 0
      OBVIOUS
    <3> QED BY <2>1, <2>2, <3>1
  <2> QED BY <2>3, XorAssoc
<1> QED BY <1>4, <1>5, <1>6 DEF Reaches

-------------------------------------------------------------------------------
(* The invariant *)

LEMMA InitIInv == Init => IInv
<1> SUFFICES ASSUME Init PROVE IInv
  OBVIOUS
<1>1. TypeOK
  <2>1. Len(bytes) = 0
    BY DEF Init
  <2>2. R \in Word /\ crc32 \in Word
    BY DEF Init, Word, Ones
  <2>3. pos \in 0..Len(bytes)
    BY <2>1 DEF Init
  <2> QED BY <2>2, <2>3 DEF Init, TypeOK
<1> QED BY <1>1 DEF Init, IInv, RegisterIsBytewise, CrcIsStandard

\* One block: the register goes from pos to pos + 16.
LEMMA TakeBlockIInv == IInv /\ TakeBlock => IInv'
<1>0. \A n \in 0..15 : n \in 0..16 /\ n + 1 \in 0..16 /\ n + 1 \in 1..16
  OBVIOUS
<1> SUFFICES ASSUME IInv, TakeBlock PROVE IInv'
  OBVIOUS
<1> USE DEF TakeBlock
<1> DEFINE m == [n \in 1..16 |-> bytes[pos + n]]
           s == [n \in 0..16 |-> Bytewise[bytes][pos + n]]
<1>1. bytes \in Messages /\ bytes \in Seq(Byte) /\ pos \in 0..Len(bytes)
      /\ pos + 16 \in 0..Len(bytes) /\ R \in Word
  <2>1. bytes \in Messages /\ pos \in 0..Len(bytes) /\ R \in Word
    BY DEF IInv, TypeOK
  <2>2. bytes \in Seq(Byte)
    BY <2>1, BytewiseAssumption
  <2>3. Len(bytes) \in Nat
    BY <2>2
  <2> QED BY <2>1, <2>2, <2>3
<1>2. m \in [1..16 -> Byte]
  <2>1. ASSUME NEW n \in 1..16 PROVE bytes[pos + n] \in Byte
    <3>1. pos + n \in 1..Len(bytes)
      BY <1>1
    <3> QED BY <1>1, <3>1
  <2> QED BY <2>1
<1>3. s[0] = R
  <2>1. R = Bytewise[bytes][pos]
    BY DEF IInv, RegisterIsBytewise
  <2>2. s[0] = Bytewise[bytes][pos + 0] /\ pos + 0 = pos
    BY <1>1
  <2> HIDE DEF s
  <2> QED BY <2>1, <2>2
<1>4. ASSUME NEW n \in 0..15 PROVE s[n + 1] = GetCRC32(s[n], m[n + 1])
  <2>1. pos + n \in 0..(Len(bytes) - 1)
    <3>1. Len(bytes) \in Nat
      BY <1>1
    <3> QED BY <1>1, <3>1
  <2>2. Bytewise[bytes][(pos + n) + 1] = GetCRC32(Bytewise[bytes][pos + n], bytes[(pos + n) + 1])
    BY <1>1, <2>1, BytewiseAssumption
  <2>3. (pos + n) + 1 = pos + (n + 1)
    BY <1>1
  <2>4. s[n + 1] = Bytewise[bytes][pos + (n + 1)] /\ s[n] = Bytewise[bytes][pos + n]
        /\ m[n + 1] = bytes[pos + (n + 1)]
    <3>1. n \in 0..16 /\ n + 1 \in 0..16 /\ n + 1 \in 1..16
      BY <1>0
    <3> QED BY <3>1
  <2> HIDE DEF m, s
  <2> QED BY <2>2, <2>3, <2>4
<1>5. s[16] = Block(R, m)
  <2> HIDE DEF m, s
  <2> QED BY <1>1, <1>2, <1>3, <1>4, SixteenBytes
<1>6. R' = Bytewise[bytes][pos + 16]
  <2>1. R' = Block(R, m)
    OBVIOUS
  <2>2. s[16] = Bytewise[bytes][pos + 16]
    OBVIOUS
  <2> HIDE DEF m, s
  <2> QED BY <1>5, <2>1, <2>2
<1>7. R' \in Word
  <2>1. Bytewise[bytes][(pos + 15) + 1] = GetCRC32(Bytewise[bytes][pos + 15], bytes[(pos + 15) + 1])
    <3>1. pos + 15 \in 0..(Len(bytes) - 1)
      <4>1. Len(bytes) \in Nat
        BY <1>1
      <4> QED BY <1>1, <4>1
    <3> QED BY <1>1, <3>1, BytewiseAssumption
  <2>2. (pos + 15) + 1 = pos + 16
    BY <1>1
  <2>3. \A v, b : GetCRC32(v, b) \in Word
    BY ShiftType, TableLinear, XorType DEF GetCRC32
  <2> QED BY <1>6, <2>1, <2>2, <2>3
<1> QED BY <1>1, <1>6, <1>7 DEF IInv, TypeOK, RegisterIsBytewise, CrcIsStandard

\* One byte: through the first table.
LEMMA TakeByteIInv == IInv /\ TakeByte => IInv'
<1>0. \A c \in Byte : ByteOf(c, 0) = c
  <2>1. \A i \in 0..7 : i + 8 * 0 = i
    OBVIOUS
  <2> QED BY <2>1 DEF ByteOf, Byte
<1> SUFFICES ASSUME IInv, TakeByte PROVE IInv'
  OBVIOUS
<1> USE DEF TakeByte
<1>1. bytes \in Messages /\ pos \in 0..Len(bytes) /\ R \in Word
  BY DEF IInv, TypeOK
<1>2. bytes \in Seq(Byte) /\ Len(bytes) \in Nat
  <2>1. bytes \in Seq(Byte)
    BY <1>1, BytewiseAssumption
  <2> QED BY <2>1
<1>3. pos \in 0..(Len(bytes) - 1) /\ pos + 1 \in 1..Len(bytes) /\ pos + 1 \in 0..Len(bytes)
  BY <1>1, <1>2
<1> DEFINE b == bytes[pos + 1]
           x == ByteOf(Xor(R, b), 0)
<1>4. b \in Byte
  BY <1>2, <1>3
<1>5. x = Xor(ByteOf(R, 0), b)
  <2>1. x = Xor(ByteOf(R, 0), ByteOf(b, 0))
    BY ShiftLinear
  <2>2. ByteOf(b, 0) = b
    BY <1>0, <1>4
  <2> QED BY <2>1, <2>2
<1>6. CrcTable[0][x] = CRC32table(x)
  <2>1. x \in Byte
    BY ShiftType
  <2> HIDE DEF x
  <2> QED BY <2>1, CrcTableAssumption DEF IsCrcTable
<1>7. R' = GetCRC32(R, b)
  BY <1>5, <1>6 DEF GetCRC32
<1>8. R' = Bytewise[bytes][pos + 1]
  <2>1. R = Bytewise[bytes][pos]
    BY DEF IInv, RegisterIsBytewise
  <2>2. Bytewise[bytes][pos + 1] = GetCRC32(Bytewise[bytes][pos], bytes[pos + 1])
    BY <1>1, <1>3, BytewiseAssumption
  <2> QED BY <1>7, <2>1, <2>2
<1>9. R' \in Word
  BY <1>7, ShiftType, TableLinear, XorType DEF GetCRC32
<1> QED BY <1>1, <1>3, <1>8, <1>9 DEF IInv, TypeOK, RegisterIsBytewise, CrcIsStandard

\* A new check.
LEMMA CheckIInv ==
    ASSUME IInv, NEW p \in Messages, NEW m \in Messages \cup {<< >>}, Check(m, p)
    PROVE  IInv'
<1> USE DEF IInv, TypeOK, RegisterIsBytewise, CrcIsStandard
<1>1. Ones \in Word /\ {} \in Word
  BY DEF Ones, Word
<1>2. Len(m) \in Nat
  BY BytewiseAssumption
<1>3. bytes' = m /\ promised' = p /\ pc' = "open"
      /\ UNCHANGED <<skip, mapped, R, pos, size, crc32, ok>> /\ pc = "idle"
  BY DEF Check
<1>4. pos = 0 /\ size = 0 /\ ~mapped
  BY <1>3
<1>5. pos' \in 0..Len(bytes') /\ size' \in {0, Len(bytes')}
  BY <1>2, <1>3, <1>4
<1> QED BY <1>1, <1>3, <1>4, <1>5

\* The steps of a check.
LEMMA ReadIInv == ASSUME IInv, GetFileChecks PROVE IInv'
<1> USE DEF IInv, TypeOK, RegisterIsBytewise, CrcIsStandard
<1>2. CASE CannotOpen
  BY <1>2 DEF CannotOpen
<1>3. CASE Open
  BY <1>3 DEF Open
<1>4. CASE Fallback
  BY <1>4 DEF Fallback, Word
<1>5. CASE Map
  <2>1. bytes \in Messages /\ bytes # << >> /\ Bytewise[bytes][0] = Ones
    BY <1>5, BytewiseAssumption DEF Map
  <2>2. Ones \in Word
    BY DEF Ones, Word
  <2>3. Len(bytes) \in Nat
    BY <2>1, BytewiseAssumption
  <2>4. pos' \in 0..Len(bytes')
    BY <1>5, <2>3 DEF Map
  <2> QED BY <1>5, <2>1, <2>2, <2>4 DEF Map
<1>6. CASE TakeBlock
  BY <1>6, TakeBlockIInv
<1>7. CASE TakeByte
  BY <1>7, TakeByteIInv
<1>8. CASE CalcReturns
  <2>1. crc32' = Crc(bytes)
    BY <1>8 DEF CalcReturns, Crc
  <2>2. crc32' \in Word
    BY <1>8 DEF CalcReturns, Ones, Word
  <2> QED BY <1>8, <2>1, <2>2 DEF CalcReturns, Crc
<1> QED BY <1>2, <1>3, <1>4, <1>5, <1>6, <1>7, <1>8 DEF GetFileChecks

\* The end of a check.
LEMMA ComparedIInv ==
    ASSUME IInv, bytes' = << >> /\ promised' = << >> /\ pc' = "idle" /\ mapped' = FALSE
                 /\ R' = Ones /\ pos' = 0 /\ size' = 0 /\ crc32' = {} /\ ok' = FALSE
                 /\ skip' \in BOOLEAN
    PROVE  IInv'
<1> USE DEF IInv, TypeOK, RegisterIsBytewise, CrcIsStandard
<1>2. Len(bytes') = 0
  OBVIOUS
<1>3. pos' \in 0..Len(bytes') /\ size' \in {0, Len(bytes')}
  BY <1>2
<1>4. R' \in Word /\ crc32' \in Word
  BY DEF Ones, Word
<1> QED BY <1>3, <1>4

\* A step of another part of the mod leaves a check as it is.
LEMMA StillIInv == ASSUME IInv, UNCHANGED vars PROVE IInv'
  BY DEF IInv, TypeOK, RegisterIsBytewise, CrcIsStandard, vars, Crc

\* A check by itself keeps the invariant.
LEMMA NextIInv == IInv /\ [Next]_vars => IInv'
<1> SUFFICES ASSUME IInv, [Next]_vars PROVE IInv'
  OBVIOUS
<1>1. ASSUME NEW p \in Messages, NEW m \in Variants[p] \cup {p}, Check(m, p)
      PROVE  IInv'
  <2>1. m \in Messages
    BY BytewiseAssumption
  <2> QED BY <1>1, <2>1, CheckIInv
<1>2. CASE Compared
  <2>1. skip \in BOOLEAN
    BY DEF IInv, TypeOK
  <2> QED BY <1>2, <2>1, ComparedIInv DEF Compared
<1> QED BY <1>1, <1>2, ReadIInv, StillIInv DEF Next

\* The variables keep to their types, and CalcCrc32 never reads past the end
\* of the mapped file.
THEOREM TypeCorrect == Spec => []TypeOK
<1>1. IInv => TypeOK
  BY DEF IInv
<1> QED BY <1>1, InitIInv, NextIInv, PTL DEF Spec

\* For a file of any length: after any number of blocks and bytes the register
\* of CalcCrc32 is the one that GetCRC32 would have.
THEOREM BlocksAreBytes == Spec => []RegisterIsBytewise
<1>1. IInv => RegisterIsBytewise
  BY DEF IInv
<1> QED BY <1>1, InitIInv, NextIInv, PTL DEF Spec

\* A mapped file of any length gets its CRC-32.
THEOREM MappedCrcIsStandard == Spec => []CrcIsStandard
<1>1. IInv => CrcIsStandard
  BY DEF IInv
<1> QED BY <1>1, InitIInv, NextIInv, PTL DEF Spec

-------------------------------------------------------------------------------
(* Deliveries *)

\* What the bytes of a file may be is a message of the list's or nothing.
LEMMA HoldsMessages ==
    ASSUME NEW kind, NEW p \in Messages, NEW m \in Holds(kind, p)
    PROVE  /\ m \in Messages \cup {<< >>}
           /\ kind = "plain" => m = p
           /\ kind \in {"none", "empty"} => m = << >>
           /\ kind \notin {"plain", "none", "empty"} => m \in Variants[p] /\ m # << >>
<1>1. CASE kind = "plain"
  BY <1>1 DEF Holds
<1>2. CASE kind \in {"none", "empty"}
  BY <1>2 DEF Holds
<1>3. CASE kind \notin {"plain", "none", "empty"}
  <2>1. Holds(kind, p) = Variants[p] \ {<< >>}
    BY <1>3 DEF Holds
  <2> QED BY <1>3, <2>1, BytewiseAssumption
<1> QED BY <1>1, <1>2, <1>3

\* What each step of a delivery is to the check.
LEMMA DeliveryIInv == ASSUME DeliveryInv, [DeliveryNext]_allVars PROVE IInv'
<1>0. IInv /\ skip \in BOOLEAN
  BY DEF DeliveryInv, IInv, TypeOK
<1>1. ASSUME UNCHANGED vars PROVE IInv'
  BY <1>0, <1>1, StillIInv
<1>2. ASSUME NEW f \in Files, CheckFile(f) PROVE IInv'
  <2>1. PICK p \in Messages : \E m \in Holds(file[f], p) : Check(m, p)
    BY <1>2 DEF CheckFile
  <2>2. PICK m \in Holds(file[f], p) : Check(m, p)
    BY <2>1
  <2>3. m \in Messages \cup {<< >>}
    BY HoldsMessages
  <2> QED BY <1>0, <2>2, <2>3, CheckIInv
<1>3. ASSUME Checking PROVE IInv'
  BY <1>0, <1>3, ReadIInv DEF Checking
<1>4. ASSUME Judge PROVE IInv'
  BY <1>0, <1>4, ComparedIInv DEF Judge, Compared
<1>5. ASSUME NewSession PROVE IInv'
  BY <1>0, <1>5, ComparedIInv DEF NewSession
<1>6. ASSUME NEW f \in Files, \/ MissingFile(f) \/ DownloadedPlain(f) \/ Downloaded(f)
                           \/ DownloadFails(f) \/ Unpacking(f)
      PROVE  UNCHANGED vars
  BY <1>6 DEF MissingFile, DownloadedPlain, Downloaded, DownloadFails, Unpacking
<1>7. ASSUME ListsEnd \/ DownloadsEnd \/ VerifyEnds \/ UNCHANGED allVars PROVE UNCHANGED vars
  BY <1>7 DEF ListsEnd, DownloadsEnd, VerifyEnds, allVars
<1> QED BY <1>1, <1>2, <1>3, <1>4, <1>5, <1>6, <1>7 DEF DeliveryNext, Worker

\* What EXPAND leaves is never the archive.
LEMMA ExpandedKinds ==
    ASSUME UnpackInv, NEW f \in Files
    PROVE  Unpack!Expanded(f) \subseteq Unpack!Kinds \ {"packed"}
<1>1. tmp[f] \in Unpack!Kinds \ {"packed"} /\ file[f] \in Unpack!Kinds
  BY DEF UnpackInv
<1> QED BY <1>1 DEF Unpack!Expanded, Unpack!Kinds

\* The steps of the unpackers.
LEMMA UnpackerSteps ==
    ASSUME UnpackInv, NEW f \in Files, Unpack!UnpackerNext(f)
    PROVE  UnpackInv'
<1> USE DEF UnpackInv
<1>1. CASE Unpack!EnterLock(f)
  BY <1>1 DEF Unpack!EnterLock
<1>2. CASE Unpack!CreateProcessFails(f)
  BY <1>2 DEF Unpack!CreateProcessFails
<1>3. CASE Unpack!CreateProcess(f)
  BY <1>3 DEF Unpack!CreateProcess
<1>4. CASE Unpack!ExpandEnds(f) \/ Unpack!ExitUnknown(f)
  <2>1. /\ upc[f] = "expand" /\ UNCHANGED <<file, unpacked>>
        /\ upc' \in [Files -> {"idle", "lock", "create", "expand", "open", "move"}]
        /\ \A g \in Files : g # f => upc'[g] = upc[g]
    BY <1>4 DEF Unpack!ExpandEnds, Unpack!ExitUnknown, Unpack!NextTry
  <2>2. PICK kind \in Unpack!Expanded(f) : tmp' = [tmp EXCEPT ![f] = kind]
    BY <1>4 DEF Unpack!ExpandEnds, Unpack!ExitUnknown
  <2>3. kind \in Unpack!Kinds \ {"packed"}
    BY <2>2, ExpandedKinds
  <2>4. ~unpacked[f]
    BY <2>1
  <2> QED BY <2>1, <2>2, <2>3, <2>4
<1>5. CASE Unpack!OpenTmp(f)
  BY <1>5 DEF Unpack!OpenTmp
<1>6. CASE Unpack!CannotOpenTmp(f)
  <2>1. /\ upc[f] = "open" /\ UNCHANGED <<file, tmp, unpacked>>
        /\ upc' \in [Files -> {"idle", "lock", "create", "expand", "open", "move"}]
        /\ \A g \in Files : g # f => upc'[g] = upc[g]
    BY <1>6 DEF Unpack!CannotOpenTmp, Unpack!NextTry
  <2> QED BY <2>1
<1>7. CASE Unpack!Move(f)
  BY <1>7 DEF Unpack!Move, Unpack!Kinds
<1>8. CASE Unpack!MoveFails(f)
  BY <1>8 DEF Unpack!MoveFails
<1> QED BY <1>1, <1>2, <1>3, <1>4, <1>5, <1>6, <1>7, <1>8 DEF Unpack!UnpackerNext

\* Only DecompressFile, a download that is not unpacked and a new session touch
\* what an unpacker works on, besides the unpacker.
LEMMA UnpackNext == ASSUME DeliveryInv, [DeliveryNext]_allVars PROVE UnpackInv'
<1>0. UnpackInv /\ CheckInv
  BY DEF DeliveryInv
<1>1. ASSUME UNCHANGED <<file, tmp, upc, unpacked>> PROVE UnpackInv'
  BY <1>0, <1>1 DEF UnpackInv
<1>2. ASSUME NEW f \in Files, Unpacking(f) PROVE UnpackInv'
  BY <1>0, <1>2, UnpackerSteps DEF Unpacking
<1>3. ASSUME NEW f \in Files, Downloaded(f) PROVE UnpackInv'
  <2>1. PICK kind \in {"packed", "cut"} : file' = [file EXCEPT ![f] = kind]
    BY <1>3 DEF Downloaded
  <2>2. Unpack!DecompressFile(f)
    BY <1>3 DEF Downloaded
  <2> QED BY <1>0, <2>1, <2>2 DEF UnpackInv, Unpack!DecompressFile,
            Unpack!DecompressCabFile, Unpack!UnknownType, Unpack!Kinds
<1>4. ASSUME NEW f \in Files, DownloadFails(f) PROVE UnpackInv'
  <2>1. /\ file' = file \/ file' = [file EXCEPT ![f] = "cut"]
        /\ UNCHANGED <<tmp, upc, unpacked>>
    BY <1>4 DEF DownloadFails, unpacking
  <2> QED BY <1>0, <2>1 DEF UnpackInv, Unpack!Kinds
<1>5. ASSUME NewSession PROVE UnpackInv'
  <2>1. PICK left \in [Files -> Unpack!Kinds] :
          /\ \A f \in Files : left[f] \in LeftBehind(f)
          /\ \/ /\ file' = [f \in Files |-> Aged(file[f])]
                /\ tmp' = [f \in Files |-> Aged(left[f])]
             \/ file' = file /\ tmp' = left
    BY <1>5 DEF NewSession
  <2>2. \A f \in Files : left[f] \in Unpack!Kinds \ {"packed"}
    <3> TAKE f \in Files
    <3>1. LeftBehind(f) \subseteq Unpack!Kinds \ {"packed"}
      BY <1>0, ExpandedKinds DEF LeftBehind, UnpackInv
    <3> QED BY <2>1, <3>1
  <2>3. \A kind \in Unpack!Kinds : Aged(kind) \in Unpack!Kinds \ {"packed"}
    BY DEF Aged, Unpack!Kinds
  <2>4. file' \in [Files -> Unpack!Kinds] /\ tmp' \in [Files -> Unpack!Kinds \ {"packed"}]
    BY <1>0, <2>1, <2>2, <2>3 DEF UnpackInv
  <2>5. upc' = [f \in Files |-> "idle"] /\ unpacked' = [f \in Files |-> FALSE]
    BY <1>5 DEF NewSession
  <2> QED BY <2>4, <2>5 DEF UnpackInv
<1>6. ASSUME NEW f \in Files, MissingFile(f) \/ CheckFile(f) PROVE UnpackInv'
  BY <1>1, <1>6 DEF MissingFile, CheckFile, unpacking
<1>7. ASSUME \/ Checking \/ Judge \/ ListsEnd \/ DownloadsEnd \/ VerifyEnds
             \/ UNCHANGED allVars
      PROVE  UnpackInv'
  BY <1>1, <1>7 DEF Checking, Judge, ListsEnd, DownloadsEnd, VerifyEnds, allVars, unpacking
<1>8. ASSUME NEW f \in Files, DownloadedPlain(f) PROVE UnpackInv'
  <2>1. /\ file' = [file EXCEPT ![f] = "plain"] \/ file' = [file EXCEPT ![f] = "cut"]
        /\ UNCHANGED <<tmp, upc, unpacked>>
    BY <1>8 DEF DownloadedPlain, unpacking
  <2> QED BY <1>0, <2>1 DEF UnpackInv, Unpack!Kinds
<1> QED BY <1>2, <1>3, <1>4, <1>5, <1>6, <1>7, <1>8 DEF DeliveryNext, Worker

\* A check ends before the files of the list are gone on with.
LEMMA CheckNext == ASSUME DeliveryInv, [DeliveryNext]_allVars PROVE CheckInv'
<1>0. /\ UnpackInv /\ CheckInv
      /\ pc \in {"idle", "open", "map", "crc", "done"}
  BY DEF DeliveryInv, IInv, TypeOK
<1>1. ASSUME NEW f \in Files, MissingFile(f) PROVE CheckInv'
  BY <1>0, <1>1 DEF CheckInv, MissingFile, Turn, vars, unpacking
<1>2. ASSUME NEW f \in Files, CheckFile(f) PROVE CheckInv'
  <2>3. PICK p \in Messages : \E m \in Holds(file[f], p) : Check(m, p)
    BY <1>2 DEF CheckFile
  <2>1. PICK m \in Holds(file[f], p) : Check(m, p)
    BY <2>3
  <2>2. f # Nobody
    BY DeliveryAssumption
  <2> QED BY <1>0, <1>2, <2>1, <2>2 DEF CheckInv, CheckFile, Check, Turn, unpacking, session
<1>3. ASSUME Checking PROVE CheckInv'
  <2>1. /\ UNCHANGED <<bytes, promised, upc, file, session, checked>>
        /\ pc # "idle" /\ pc' # "idle"
    BY <1>3 DEF Checking, GetFileChecks, CannotOpen, Open, Fallback, Map, TakeBlock,
                TakeByte, CalcReturns, unpacking
  <2> QED BY <1>0, <2>1 DEF CheckInv, session
<1>4. ASSUME Judge PROVE CheckInv'
  BY <1>0, <1>4 DEF CheckInv, Judge, Compared, unpacking
<1>5. ASSUME ListsEnd \/ VerifyEnds PROVE CheckInv'
  BY <1>0, <1>5 DEF CheckInv, ListsEnd, VerifyEnds, vars, unpacking
<1>6. ASSUME NEW f \in Files, DownloadedPlain(f) \/ Downloaded(f) \/ DownloadFails(f)
       PROVE  CheckInv'
  <2>1. /\ phase = "download" /\ todo' = todo \ {f}
        /\ UNCHANGED <<vars, phase, due, checked>>
    BY <1>6 DEF DownloadedPlain, Downloaded, DownloadFails
  <2> QED BY <1>0, <2>1 DEF CheckInv, vars
<1>7. ASSUME NEW f \in Files, Unpacking(f) PROVE CheckInv'
  <2>1. upc[f] # "idle" /\ UNCHANGED <<vars, phase, todo, due, checked>>
    BY <1>7 DEF Unpacking, session, Unpack!UnpackerNext, Unpack!EnterLock,
       Unpack!CreateProcessFails, Unpack!CreateProcess, Unpack!ExpandEnds,
       Unpack!ExitUnknown, Unpack!OpenTmp, Unpack!CannotOpenTmp, Unpack!Move,
       Unpack!MoveFails
  <2>2. phase = "download"
    BY <1>0, <2>1 DEF CheckInv
  <2> QED BY <1>0, <2>1, <2>2 DEF CheckInv, vars
<1>8. ASSUME DownloadsEnd PROVE CheckInv'
  BY <1>0, <1>8 DEF CheckInv, DownloadsEnd, vars, unpacking, Unpack!Active
<1>9. ASSUME NewSession PROVE CheckInv'
  BY <1>9 DEF CheckInv, NewSession
<1>10. ASSUME UNCHANGED allVars PROVE CheckInv'
  BY <1>0, <1>10 DEF CheckInv, allVars, vars, unpacking, session
<1> QED BY <1>1, <1>2, <1>3, <1>4, <1>5, <1>6, <1>7, <1>8, <1>9, <1>10
        DEF DeliveryNext, Worker

\* What GetFileChecks has read is what it returns.
LEMMA ReadNext == ASSUME DeliveryInv, [DeliveryNext]_allVars PROVE ReadInv'
<1>0. ReadInv /\ IInv
  BY DEF DeliveryInv
<1>1. ASSUME UNCHANGED vars PROVE ReadInv'
  BY <1>0, <1>1 DEF ReadInv, vars
<1>2. ASSUME NEW f \in Files, CheckFile(f) PROVE ReadInv'
  BY <1>0, <1>2 DEF ReadInv, CheckFile, Check, IInv
<1>3. ASSUME GetFileChecks PROVE ReadInv'
  <2>1. ASSUME CannotOpen PROVE ReadInv'
    BY <1>0, <2>1 DEF ReadInv, IInv, CannotOpen
  <2>2. ASSUME Open PROVE ReadInv'
    BY <1>0, <2>2 DEF ReadInv, IInv, Open
  <2>3. ASSUME Fallback PROVE ReadInv'
    BY <1>0, <2>3 DEF ReadInv, IInv, Fallback
  <2>4. ASSUME Map PROVE ReadInv'
    BY <1>0, <2>4 DEF ReadInv, IInv, Map
  <2>5. ASSUME TakeBlock PROVE ReadInv'
    BY <1>0, <2>5 DEF ReadInv, IInv, TakeBlock
  <2>6. ASSUME TakeByte PROVE ReadInv'
    BY <1>0, <2>6 DEF ReadInv, IInv, TakeByte
  <2>7. ASSUME CalcReturns PROVE ReadInv'
    BY <1>0, <2>7 DEF ReadInv, IInv, CalcReturns
  <2> QED BY <1>3, <2>1, <2>2, <2>3, <2>4, <2>5, <2>6, <2>7 DEF GetFileChecks
<1>4. ASSUME Judge \/ NewSession PROVE ReadInv'
  BY <1>4 DEF ReadInv, Judge, Compared, NewSession
<1>5. ASSUME NEW f \in Files, \/ MissingFile(f) \/ DownloadedPlain(f) \/ Downloaded(f)
                           \/ DownloadFails(f) \/ Unpacking(f)
      PROVE  UNCHANGED vars
  BY <1>5 DEF MissingFile, DownloadedPlain, Downloaded, DownloadFails, Unpacking
<1>6. ASSUME ListsEnd \/ DownloadsEnd \/ VerifyEnds \/ UNCHANGED allVars PROVE UNCHANGED vars
  BY <1>6 DEF ListsEnd, DownloadsEnd, VerifyEnds, allVars
<1> QED BY <1>1, <1>2, <1>3, <1>4, <1>5, <1>6 DEF DeliveryNext, Worker, Checking

\* The first session.
LEMMA InitDelivery == DeliveryInit => DeliveryInv
<1> SUFFICES ASSUME DeliveryInit PROVE DeliveryInv
  OBVIOUS
<1>1. IInv
  BY InitIInv DEF DeliveryInit
<1>2. UnpackInv
  BY DEF DeliveryInit, Unpack!Init, UnpackInv, Unpack!Kinds
<1>3. CheckInv
  BY DEF DeliveryInit, Init, Unpack!Init, CheckInv
<1>4. ReadInv
  BY DEF DeliveryInit, Init, ReadInv
<1> QED BY <1>1, <1>2, <1>3, <1>4 DEF DeliveryInv

\* The three parts hold each other up.
LEMMA NextDelivery == DeliveryInv /\ [DeliveryNext]_allVars => DeliveryInv'
  BY DeliveryIInv, UnpackNext, CheckNext, ReadNext DEF DeliveryInv

-------------------------------------------------------------------------------
(* The theorems about a delivery *)

\* What holds of the check by itself holds of it among downloads, unpackers and
\* restarts; what is beside a file, what is being checked, and what was read.
THEOREM Inductive == DeliverySpec => []DeliveryInv
  BY InitDelivery, NextDelivery, PTL DEF DeliverySpec

\* A mapped file of any length gets its CRC-32, whatever is delivered.
THEOREM DeliveredCrcIsStandard == DeliverySpec => []CrcIsStandard
<1>1. DeliveryInv => CrcIsStandard
  BY DEF DeliveryInv, IInv
<1> QED BY <1>1, Inductive, PTL

\* When DecompressFile returns a size, the archive has been replaced, nothing
\* is left beside it, and what replaced it is not empty.
THEOREM SuccessIsReplaced == DeliverySpec => []SuccessMeansReplaced
<1>1. DeliveryInv => SuccessMeansReplaced
  BY DEF DeliveryInv, UnpackInv, SuccessMeansReplaced, Unpack!Active
<1> QED BY <1>1, Inductive, PTL

\* What a passed check says, if nothing else has the file's size and its CRC.
LEMMA PassedIsPromised == NoCollision /\ DeliveryInv => VerifiedMeansPromised
<1> SUFFICES ASSUME NoCollision, DeliveryInv, pc = "done", ok, CompareFiles, ~skip
             PROVE  file[checked] = "plain" \/ (~mapped /\ Crc(promised) = {})
  BY DEF VerifiedMeansPromised, Synchronized
<1>1. /\ checked \in Files /\ promised \in Messages
      /\ bytes \in Holds(file[checked], promised)
  BY DEF DeliveryInv, CheckInv
<1>2. size = Len(bytes) /\ size = Len(promised) /\ crc32 = Crc(promised)
  BY DEF DeliveryInv, ReadInv, CompareFiles
<1>3. CASE ~mapped
  BY <1>2, <1>3 DEF DeliveryInv, ReadInv
<1>4. CASE mapped
  <2>1. bytes # << >> /\ crc32 = Crc(bytes)
    BY <1>4 DEF DeliveryInv, ReadInv, IInv, CrcIsStandard
  <2>2. ASSUME file[checked] # "plain" PROVE FALSE
    <3>1. bytes \in Variants[promised]
      BY <1>1, <2>1, <2>2, HoldsMessages
    <3> QED BY <1>1, <1>2, <2>1, <3>1 DEF NoCollision
  <2> QED BY <2>2
<1> QED BY <1>3, <1>4

\* A check that passes means that the whole file of the list is on disk, up to
\* what a CRC-32 cannot tell: nothing that may be there instead may have the
\* size and the CRC that the list has.
THEOREM VerifiedIsPromised ==
    ASSUME NoCollision
    PROVE  DeliverySpec => []VerifiedMeansPromised
<1>1. DeliveryInv => VerifiedMeansPromised
  BY PassedIsPromised
<1> QED BY <1>1, Inductive, PTL
===============================================================================
