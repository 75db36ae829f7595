----------------------------- MODULE MCDelivery -----------------------------
(* A small instance of the delivery of two files for TLC. *)
EXTENDS DeliveryProperties, SequencesExt

MCBit(n) == {i \in 0..7 : (n \div 2^i) % 2 = 1}
MCBytes(s) == [n \in 1..Len(s) |-> MCBit(s[n])]

\* The table that the rule of CrcTableAssumption gives.
MCCrcTable ==
    LET zero == [b \in Byte |-> CRC32table(b)]
        next(t) == [b \in Byte |-> GetCRC32(t[b], {})]
        all == FoldLeft(LAMBDA ts, k : Append(ts, next(ts[k])), <<zero>>,
                        [k \in 1..15 |-> k])
    IN  [k \in 0..15 |-> all[k + 1]]

\* A message whose CRC-32 is zero; two blocks and a byte; the same with one bit
\* of the second block changed.
MsgZero  == MCBytes(<<157, 10, 217, 109>>)
MsgWhole == MCBytes([n \in 1..33 |-> (37 * n) % 256])
MsgFlip  == MCBytes([n \in 1..33 |-> IF n = 32 THEN 161 ELSE (37 * n) % 256])

MCMessages == {MsgZero, MsgWhole, MsgFlip}

MCBytewise ==
    [m \in MCMessages |->
        LET reg[n \in 0..Len(m)] ==
                IF n = 0 THEN Ones ELSE GetCRC32(reg[n - 1], m[n])
        IN  reg]

MCVariants ==
    [m \in MCMessages |->
        CASE m = MsgZero  -> {MsgWhole}
          [] m = MsgWhole -> {MsgFlip}
          [] m = MsgFlip  -> {MsgWhole, MsgZero}]

\* What the theorem VerifiedIsPromised of module DeliveryProofs assumes.
ASSUME MCNoCollision == NoCollision
===============================================================================
