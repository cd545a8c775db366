------------------------------- MODULE Leb128 -------------------------------
(***************************************************************************)
(* The leb128 crate, which writes the lengths of frames (streaming.rs) and *)
(* of method names (wire.rs), and reads the latter: an unsigned integer as *)
(* groups of bits, the least significant first, each in a byte whose top   *)
(* bit says that more follow.  The crate is external.                      *)
(***************************************************************************)
EXTENDS Integers, SequencesExt

CONSTANT GroupBits  \* payload bits of a byte: 7

(* 1 << n.                                                                 *)
Pow2[n \in Nat] == IF n = 0 THEN 1 ELSE 2 * Pow2[n - 1]
High == Pow2[GroupBits]
Byte == 0..(2 * High - 1)

leb128_write[v \in Nat] ==
    IF v < High THEN <<v>> ELSE <<High + (v % High)>> \o leb128_write[v \div High]

(* How many bytes the number at the front of s has (0: it is cut off), and *)
(* the number.                                                             *)
leb128_len(s) == SelectInSeq(s, LAMBDA b : b < High)
leb128_read(s) ==
    LET sum[i \in 0..leb128_len(s)] ==
            IF i = 0 THEN 0 ELSE sum[i - 1] + (s[i] % High) * Pow2[(i - 1) * GroupBits]
    IN  sum[leb128_len(s)]
=============================================================================
