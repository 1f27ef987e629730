-------------------------------- MODULE Bits --------------------------------
(***************************************************************************)
(* The bit sink under every Urbit encoding (BitWriter, src/src/urb/        *)
(* encoder.rs).  A stream is the sequence of its bits in the order they    *)
(* are written; an atom is the sequence of its bits, least significant     *)
(* first, with or without zeros on top, as the code's byte vectors are.    *)
(* Rub is how the other side reads what Mat wrote.                         *)
(***************************************************************************)
EXTENDS Binary

CONSTANT ByteBits  \* bits of a byte (8)

ASSUME BitsAssumption == ByteBits \in Nat \ {0}

\* write_le: zeros beyond the atom's end.
LeBits(width, le) == [i \in 1..width |-> IF i \in DOMAIN le THEN le[i] ELSE 0]

\* sig_bits.
SigBits(le) == Max({0} \cup {i \in DOMAIN le : le[i] = 1})

\* The atom without zeros on top.
Trim(le) == LeBits(SigBits(le), le)

\* write_mat_le: the length of the length in unary, the length without its top
\* bit, the atom.
Mat(le) ==
    LET b == SigBits(le)
        c == BitLength(b)
    IN  IF b = 0 THEN <<1>>
        ELSE LeBits(c, <<>>) \o <<1>> \o Low(c - 1, b) \o LeBits(b, le)

MatNat(n) == Mat(Low(BitLength(n), n))

\* into_bytes: whole bytes, zeros on top.
IntoBytes(stream) ==
    LET bytes == (Len(stream) + ByteBits - 1) \div ByteBits
    IN  LeBits(bytes * ByteBits, stream)

-----------------------------------------------------------------------------
(* The readers in Hoon: a stream is an atom, zero beyond its end; p is the   *)
(* index of the next bit.                                                    *)

BitAt(stream, p) == IF p \in DOMAIN stream THEN stream[p] ELSE 0

Cut(stream, p, width) == [i \in 1..width |-> BitAt(stream, p + i - 1)]

\* ++rub: the atom at p, and the index after it.  A length longer than the
\* stream is no length.
Rub(stream, p) ==
    LET ones == {k \in 0..Len(stream) : BitAt(stream, p + k) = 1}
        c    == IF ones = {} THEN 0 ELSE Min(ones)
        b    == NatOf(Cut(stream, p + c + 1, c - 1) \o <<1>>)
    IN  IF c = 0 \/ c > BitLength(Len(stream))
        THEN [atom |-> <<>>, next |-> p + 1]
        ELSE [atom |-> Cut(stream, p + 2 * c, b), next |-> p + 2 * c + b]
=============================================================================
