-------------------------------- MODULE Crc32 --------------------------------
(***************************************************************************)
(* GetFileChecks of Crc32.cpp, and CompareFiles of FileManager.cpp: is the *)
(* file on disk the one that the list promises?  CalcCrc32 takes blocks of *)
(* 16 bytes through 16 tables; Implementation2 knows one table and one     *)
(* byte at a time, and is used when the file cannot be mapped.             *)
(*                                                                         *)
(* A word or a byte is the set of the positions of its one-bits, so that   *)
(* "^" is the symmetric difference.                                        *)
(***************************************************************************)
EXTENDS Integers, Sequences

Word == SUBSET (0..31)
Byte == SUBSET (0..7)
Ones == 0..31

Xor(a, b) == (a \ b) \cup (b \ a)
ShiftRight(w, n) == {i \in 0..31 : i + n \in w}
ByteOf(w, n) == {i \in 0..7 : i + 8 * n \in w}

\* 0xEDB88320
Polynomial == {5, 8, 9, 15, 19, 20, 21, 23, 24, 26, 27, 29, 30, 31}

\* CRC32Init: eight bits of a table entry.
BitStep(c) == Xor(ShiftRight(c, 1), IF 0 \in c THEN Polynomial ELSE {})
TwoBits(c) == BitStep(BitStep(c))
FourBits(c) == TwoBits(TwoBits(c))
CRC32table(b) == FourBits(FourBits(b))

\* GetCRC32: the register after one more byte.
GetCRC32(crc, b) == Xor(ShiftRight(crc, 8), CRC32table(Xor(ByteOf(crc, 0), b)))

CONSTANTS CrcTable,     \* the 16 tables of CalcCrc32
          Messages,     \* what a file may hold
          Bytewise,     \* the register after n bytes of a message
          Variants      \* what may be on disk instead of a message

\* The rule that the 4096 numbers of the source follow: each of the 16 tables
\* takes the one before it through one more zero byte.
IsCrcTable(T) ==
    /\ T \in [0..15 -> [Byte -> Word]]
    /\ \A b \in Byte :
          /\ T[0][b] = CRC32table(b)
          /\ \A k \in 0..14 : T[k + 1][b] = GetCRC32(T[k][b], {})

ASSUME CrcTableAssumption == IsCrcTable(CrcTable)

\* The reference: GetCRC32 over the whole message.
ASSUME BytewiseAssumption ==
    \A m \in Messages :
        /\ m \in Seq(Byte) /\ Variants[m] \subseteq Messages
        /\ Bytewise[m][0] = Ones
        /\ \A n \in 0..(Len(m) - 1) :
              Bytewise[m][n + 1] = GetCRC32(Bytewise[m][n], m[n + 1])

VARIABLES
    bytes,      \* what the file on disk holds
    promised,   \* the message whose size and CRC the list has
    skip,       \* g_SkipFullFileCheck
    pc,
    mapped,     \* the file could be mapped into memory
    R, pos,     \* CalcCrc32: the register, and how many bytes it has taken
    size, crc32, ok     \* OutCheckParams and the value returned

vars == <<bytes, promised, skip, pc, mapped, R, pos, size, crc32, ok>>

Init ==
    /\ bytes = << >> /\ promised = << >> /\ skip \in BOOLEAN
    /\ pc = "idle" /\ mapped = FALSE /\ R = Ones /\ pos = 0
    /\ size = 0 /\ crc32 = {} /\ ok = FALSE

\* The file holds what is promised, or something else.
Check(m, p) ==
    /\ pc = "idle"
    /\ bytes' = m /\ promised' = p
    /\ pc' = "open"
    /\ UNCHANGED <<skip, mapped, R, pos, size, crc32, ok>>

CannotOpen ==
    /\ pc = "open"
    /\ pc' = "done"
    /\ UNCHANGED <<bytes, promised, skip, mapped, R, pos, size, crc32, ok>>

\* An empty file, or the parameter -skipfullcheck, needs no CRC.
Open ==
    /\ pc = "open"
    /\ size' = Len(bytes)
    /\ IF bytes = << >> \/ skip THEN pc' = "done" /\ ok' = TRUE
                                ELSE pc' = "map" /\ UNCHANGED ok
    /\ UNCHANGED <<bytes, promised, skip, mapped, R, pos, crc32>>

\* Mutant: the fallback is left out, and the CRC asked for is taken as read.
FallbackTrustsList ==
    /\ pc = "map"
    /\ crc32' = Ones \ Bytewise[promised][Len(promised)] /\ ok' = TRUE
    /\ pc' = "done"
    /\ UNCHANGED <<bytes, promised, skip, mapped, R, pos, size>>

\* Implementation2 reads the file but drops what GetCRC32 returns: crc keeps
\* its initial 0xFFFFFFFF.
Fallback ==
    /\ pc = "map"
    /\ crc32' = {} /\ ok' = TRUE
    /\ pc' = "done"
    /\ UNCHANGED <<bytes, promised, skip, mapped, R, pos, size>>

Map ==
    /\ pc = "map"
    /\ mapped' = TRUE /\ R' = Ones /\ pos' = 0
    /\ pc' = "crc"
    /\ UNCHANGED <<bytes, promised, skip, size, crc32, ok>>

\* Mutant: the last two tables are swapped.
BlockSwapped(r, m) ==
    LET x(n) == IF n <= 4 THEN Xor(ByteOf(r, n - 1), m[n]) ELSE m[n]
        T(n) == CrcTable[IF n = 15 THEN 0 ELSE IF n = 16 THEN 1 ELSE 16 - n][x(n)]
        T4(n) == Xor(Xor(T(n), T(n + 1)), Xor(T(n + 2), T(n + 3)))
    IN  Xor(Xor(T4(1), T4(5)), Xor(T4(9), T4(13)))

\* The byte that is n-th in its block goes through table 16 - n; the register
\* is part of the first four.
Block(r, m) ==
    LET x(n) == IF n <= 4 THEN Xor(ByteOf(r, n - 1), m[n]) ELSE m[n]
        T(n) == CrcTable[16 - n][x(n)]
        T4(n) == Xor(Xor(T(n), T(n + 1)), Xor(T(n + 2), T(n + 3)))
    IN  Xor(Xor(T4(1), T4(5)), Xor(T4(9), T4(13)))

TakeBlock ==
    /\ pc = "crc" /\ Len(bytes) - pos >= 16
    /\ R' = Block(R, [n \in 1..16 |-> bytes[pos + n]])
    /\ pos' = pos + 16
    /\ UNCHANGED <<bytes, promised, skip, pc, mapped, size, crc32, ok>>

\* The rest of fewer than 16 bytes.
TakeByte ==
    /\ pc = "crc" /\ Len(bytes) - pos \in 1..15
    /\ R' = Xor(ShiftRight(R, 8), CrcTable[0][ByteOf(Xor(R, bytes[pos + 1]), 0)])
    /\ pos' = pos + 1
    /\ UNCHANGED <<bytes, promised, skip, pc, mapped, size, crc32, ok>>

CalcReturns ==
    /\ pc = "crc" /\ pos = Len(bytes)
    /\ crc32' = Ones \ R /\ ok' = TRUE
    /\ pc' = "done"
    /\ UNCHANGED <<bytes, promised, skip, mapped, R, pos, size>>

GetFileChecks ==
    \/ CannotOpen \/ Open \/ Fallback \/ Map \/ TakeBlock \/ TakeByte \/ CalcReturns

\* The caller has compared the results and forgets them.
Compared ==
    /\ pc = "done"
    /\ bytes' = << >> /\ promised' = << >>
    /\ pc' = "idle" /\ mapped' = FALSE /\ R' = Ones /\ pos' = 0
    /\ size' = 0 /\ crc32' = {} /\ ok' = FALSE
    /\ UNCHANGED skip

Next ==
    \/ \E p \in Messages : \E m \in Variants[p] \cup {p} : Check(m, p)
    \/ GetFileChecks \/ Compared

Spec == Init /\ [][Next]_vars

-------------------------------------------------------------------------------
(* CompareFiles *)

\* What the list has for a message.
Crc(m) == IF m = << >> THEN {} ELSE Ones \ Bytewise[m][Len(m)]

CompareFiles == size = Len(promised) /\ (skip \/ crc32 = Crc(promised))
===============================================================================
