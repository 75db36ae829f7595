--------------------------- MODULE Crc32Properties ---------------------------
(* What GetFileChecks and CompareFiles promise. *)
EXTENDS Crc32

\* Every variable has the values the code can give it; the register never runs
\* past the end of the file.
TypeOK ==
    /\ bytes \in Messages \cup {<< >>} /\ promised \in Messages \cup {<< >>}
    /\ skip \in BOOLEAN /\ mapped \in BOOLEAN /\ ok \in BOOLEAN
    /\ pc \in {"idle", "open", "map", "crc", "done"}
    /\ R \in Word /\ crc32 \in Word
    /\ pos \in 0..Len(bytes) /\ size \in {0, Len(bytes)}

\* However many whole blocks the file has, and however many bytes follow, the
\* register is the one that Implementation2 has after as many bytes.
RegisterIsBytewise == pc = "crc" => R = Bytewise[bytes][pos]

\* A mapped file gets the CRC that the author of the list has computed.
CrcIsStandard == pc = "done" /\ mapped => crc32 = Crc(bytes)

\* The inductive invariant of the proofs.
IInv ==
    /\ TypeOK
    /\ RegisterIsBytewise
    /\ pc \in {"map", "crc"} => bytes # << >> /\ bytes \in Messages
    /\ pc = "crc" => mapped
    /\ mapped => pc \in {"crc", "done"}
    /\ pc = "idle" => pos = 0 /\ size = 0
    /\ CrcIsStandard
===============================================================================
