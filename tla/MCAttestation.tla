--------------------------- MODULE MCAttestation ----------------------------
(***************************************************************************)
(* Model-checking instance of Attestation: bytes of two bits, hashes of 24 *)
(* and comets of twelve bits, so that one behaviour meets zero bytes, zero *)
(* words and every form of a name; nouns with equal parts at every depth.  *)
(***************************************************************************)
EXTENDS Attestation

\* Two polynomial hashes side by side.
Poly(bits, base, modulus) ==
    LET h[i \in 0..Len(bits)] ==
            IF i = 0 THEN 7 ELSE (h[i - 1] * base + bits[i] + 1) % modulus
    IN  h[Len(bits)]
OnesOf(bits) == {i \in DOMAIN bits : bits[i] = 1}
MCSha(bits) == OnesOf(Low(12, Poly(bits, 37, 4093)) \o Low(12, Poly(bits, 59, 4091)))

MCChecksum(bits) == OnesOf(Reverse(Low(8, Poly(bits, 43, 251))))

MCIpBits == [v \in {4, 6} |-> IF v = 4 THEN 3 ELSE 5]

MCTweakPrefix == <<1, 1, 0, 0>>
MCSalt == <<1, 0, 1, 1>>
MCFundingSpk == <<1, 0, 1, 0, 1, 0>>
MCLeafKey == <<1, 1, 0, 1>>

\* Ids of three bytes.
Id(length, prefixed, hex, n) ==
    [length |-> length, prefixed |-> prefixed, hex |-> hex,
     digits |-> Low(length - (IF prefixed THEN 2 ELSE 0), n)]

\* Amounts about the least that pays for the job, and about MaxSats.
MCTexts ==
    [fields : {3}, txid : {Id(6, FALSE, TRUE, n) : n \in {1, 8, 27, 56}},
     vout : {0, 1, 8, 15, 16, None}, sats : {0, 18, 19, 31, 32, None}]
    \cup [fields : 2..4, txid : {Id(l, p, h, 9) : l \in 5..8, p \in BOOLEAN, h \in BOOLEAN},
          vout : {1}, sats : {31}]

\* Another number of the band.
MCUnscramble(bits) == Low(4, 0) \o Reverse(SubSeq(bits, 5, 8)) \o Low(4, 0)

MCComets == [1..12 -> {0, 1}]

MCRings == {Low(24, 1000 * a + 1) \o Low(24, 77 * a) : a \in 0..11}

MCSpawns ==
    [pass : {<<>>, <<0, 1>>, <<1, 0, 0>>, Low(12, 2049)},
     fief : {None} \cup [version : {4, 6}, ip : {0, 5}, port : {0, 3}],
     spkh : {Low(24, 0), Low(24, 5)},
     off  : {0, 3}, tej : {0, 1, 4},
     vout : {None} \cup [index : {0, 1, 6}]]

Atoms == {Atom(le) : le \in {<<>>, <<1>>, <<1, 0>>, <<0, 1, 1>>, Low(9, 300), Low(12, 300)}}
Cells(heads, tails) == {Cell(h, t) : h \in heads, t \in tails}
Pairs == Cells({Atom(<<>>), Atom(<<1, 0>>), Atom(Low(9, 300))},
               {Atom(<<1>>), Atom(Low(12, 300))})
MCNouns == Atoms \cup Cells(Atoms, Atoms) \cup Cells(Pairs, Pairs \cup Atoms)
             \cup Cells(Atoms, Cells(Pairs, Pairs))
=============================================================================
