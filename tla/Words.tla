-------------------------------- MODULE Words -------------------------------
(***************************************************************************)
(* Secrets and names as words.  The ticket as a BIP-39 phrase              *)
(* (src/src/bip39.rs), the comet as a mnemonym and as an @p                *)
(* (src/src/identity.rs).  A word is its index in the list, a bit string   *)
(* the sequence of its bits, the first one first.  DecodeNym and ReadPatp  *)
(* are how other programs read the names back.  An @p is not always an     *)
(* atom's bytes: Urbit scrambles the numbers of 2^16..2^64 before it spells *)
(* them, and to_patp does not.                                             *)
(***************************************************************************)
EXTENDS Binary

CONSTANTS
    UnitBits,     \* bits with one checksum bit (32)
    WordBits,     \* bits of a word (11)
    MinUnits,     \* units in the shortest phrase (4)
    MaxUnits,     \* and in the longest one (8)
    PatpGroup,    \* @p words between double dashes (4)
    ScrambleBytes,\* bytes of the largest number urbit-ob scrambles (8)
    Unscramble(_),\* what urbit-ob makes of such a number when it reads it
    Checksum(_)   \* the ones among the first bits of the SHA-256 of a bit string

WordsPerUnit == (UnitBits + 1) \div WordBits

ASSUME WordsAssumption ==
    /\ UnitBits \in Nat \ {0} /\ WordBits \in Nat \ {0}
    /\ WordsPerUnit * WordBits = UnitBits + 1
    /\ MinUnits \in Nat \ {0} /\ MaxUnits \in Nat /\ MinUnits <= MaxUnits
    /\ PatpGroup \in Nat \ {0} /\ ScrambleBytes \in Nat

WordSet == 0..(2 ^ WordBits - 1)

\* The number a bit string spells, and back.
BigEndian(bits) == NatOf(Reverse(bits))
BitsOf(width, n) == Reverse(Low(width, n))

Units(bits) == Len(bits) \div UnitBits

\* The bit string with its checksum, in words.
Checked(bits) ==
    LET ones == Checksum(bits)
    IN  bits \o [i \in 1..Units(bits) |-> IF i \in ones THEN 1 ELSE 0]
Chunks(bits) ==
    [w \in 1..(Len(bits) \div WordBits) |->
        BigEndian(SubSeq(bits, (w - 1) * WordBits + 1, w * WordBits))]

Unpacked(words) == FlattenSeq([w \in DOMAIN words |-> BitsOf(WordBits, words[w])])

-----------------------------------------------------------------------------
(* bip39.rs. *)

NoEntropy == <<>>

ToMnemonic(entropy) == Chunks(Checked(entropy))

\* NoEntropy unless the count is supported and the checksum right.
FromMnemonic(words) ==
    LET units   == Len(words) \div WordsPerUnit
        bits    == Unpacked(words)
        entropy == SubSeq(bits, 1, units * UnitBits)
    IN  IF /\ Len(words) % WordsPerUnit = 0 /\ units \in MinUnits..MaxUnits
           /\ bits = Checked(entropy)
        THEN entropy ELSE NoEntropy

-----------------------------------------------------------------------------
(* identity.rs: a comet is the sequence of its bits, the least significant   *)
(* first.                                                                    *)

\* A bug: every zero word is dropped, not the leading ones.
ToNymNoZeros(comet) == SelectSeq(Chunks(Checked(Reverse(comet))), LAMBDA w : w # 0)

\* to_nym: leading zero words are dropped.
ToNym(comet) ==
    LET words == Chunks(Checked(Reverse(comet)))
        from  == Min({i \in DOMAIN words : words[i] # 0} \cup {Len(words) + 1})
    IN  SubSeq(words, from, Len(words))

\* to_patp: 16-bit words, a prefix and a suffix syllable each, the most
\* significant first.  A comet that is one byte or none is a suffix alone.
ByteAt(comet, byte, i) ==
    LET bits == SubSeq(comet, byte * (i - 1) + 1, byte * i)
    IN  IF Len(comet) < byte * i THEN 0 ELSE BigEndian(Reverse(bits))

Syllable(part, n) == [part |-> part, index |-> n]
Dash == [part |-> "dash", index |-> 1]
DoubleDash == [part |-> "dash", index |-> 2]

SigBytes(comet, byte) ==
    Max({0} \cup {i \in 1..(Len(comet) \div byte) : ByteAt(comet, byte, i) # 0})

\* A bug: a comet of ScrambleBytes bytes is taken for one above the band.
PatpScopedLoose(comet, byte) ==
    SigBytes(comet, byte) <= 2 \/ SigBytes(comet, byte) >= ScrambleBytes

\* to_patp's debug assertion: it is not asked for a number urbit-ob scrambles.
PatpScoped(comet, byte) ==
    SigBytes(comet, byte) <= 2 \/ SigBytes(comet, byte) >= ScrambleBytes + 1

ToPatp(comet, byte) ==
    LET sig   == SigBytes(comet, byte)
        words == (sig + 1) \div 2
        word(i) == <<Syllable("prefix", ByteAt(comet, byte, 2 * i)),
                     Syllable("suffix", ByteAt(comet, byte, 2 * i - 1))>>
    IN  IF sig <= 1
        THEN <<Syllable("suffix", ByteAt(comet, byte, 1))>>
        ELSE FlattenSeq([k \in 1..words |->
                 LET i == words + 1 - k IN
                 IF i = 1 THEN word(i)
                 ELSE word(i) \o <<IF (i - 1) % PatpGroup = 0 THEN DoubleDash ELSE Dash>>])

-----------------------------------------------------------------------------
(* The readers. *)

\* mnemonyms decode, at a given width; NoEntropy for a name that is none.
DecodeNym(nym, width) ==
    LET full  == (width \div UnitBits) * WordsPerUnit
        words == [i \in 1..full |->
                    IF i + Len(nym) <= full THEN 0 ELSE nym[i + Len(nym) - full]]
        bits  == Unpacked(words)
        data  == SubSeq(bits, 1, width)
    IN  IF /\ Len(nym) <= full
           /\ nym # <<>> => nym[1] # 0
           /\ bits = Checked(data)
        THEN Reverse(data) ELSE NoEntropy

\* The number the syllables spell, the most significant byte first.
SyllableAtom(patp, byte, width) ==
    LET bits == FlattenSeq([i \in DOMAIN patp |->
                    IF patp[i].part = "dash" THEN <<>> ELSE BitsOf(byte, patp[i].index)])
    IN  [i \in 1..width |-> IF i <= Len(bits) THEN bits[Len(bits) + 1 - i] ELSE 0]

\* More than two bytes' bits, and no more than ScrambleBytes': 2^16..2^64 - 1.
InBand(atom, byte) ==
    /\ \E i \in DOMAIN atom : i > 2 * byte /\ atom[i] # 0
    /\ \A i \in DOMAIN atom : i > ScrambleBytes * byte => atom[i] = 0

\* urbit-ob: in the band, the number of which the one spelled is the scramble.
ReadPatp(patp, byte, width) ==
    LET atom == SyllableAtom(patp, byte, width)
    IN  IF InBand(atom, byte) THEN Unscramble(atom) ELSE atom

\* A suffix alone, or whole words, a double dash before every PatpGroup-th from
\* the right and a dash before the others.
PatpParses(patp) ==
    LET n == (Len(patp) + 1) \div 3 IN
    \/ Len(patp) = 1 /\ patp[1].part = "suffix"
    \/ /\ Len(patp) = 3 * n - 1
       /\ \A k \in 1..n :
            /\ patp[3 * k - 2].part = "prefix"
            /\ patp[3 * k - 1].part = "suffix"
            /\ k < n => patp[3 * k] = IF (n - k) % PatpGroup = 0 THEN DoubleDash ELSE Dash
=============================================================================
