------------------------------- MODULE Binary -------------------------------
(***************************************************************************)
(* Numbers as the sequences of their bits, the least significant first, by *)
(* the shifts with which the code takes them apart.                        *)
(***************************************************************************)
EXTENDS Naturals, Sequences, SequencesExt

Bit == {0, 1}

\* The number, from the top bit down.
NatOf(bits) ==
    LET top[i \in 0..Len(bits)] ==
            IF i = 0 THEN 0 ELSE bits[Len(bits) + 1 - i] + 2 * top[i - 1]
    IN  top[Len(bits)]

\* n >> i, for every i.
Shifts(n) == LET s[i \in Nat] == IF i = 0 THEN n ELSE s[i - 1] \div 2 IN s

Fits(n, width) == Shifts(n)[width] = 0

\* write_u64, write_u128: the low `width` bits of n.
Low(width, n) == [i \in 1..width |-> Shifts(n)[i - 1] % 2]

\* usize_bits.
BitLength(n) == CHOOSE c \in 0..n : Fits(n, c) /\ (c > 0 => ~Fits(n, c - 1))
=============================================================================
