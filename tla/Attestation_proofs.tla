------------------------- MODULE Attestation_proofs -------------------------
(***************************************************************************)
(* What is attested reads back: the leaf script gives urb-core the spawn,  *)
(* the key file gives the runtime the ring, and the two name one comet.    *)
(***************************************************************************)
EXTENDS Attestation, Jam_proofs

-----------------------------------------------------------------------------
(* The leaf script. *)

\* No push is an endif, and what is pushed is what was pushed.
LEMMA OpsApart ==
    /\ Op("0") # Op("endif") /\ Op("if") # Op("endif") /\ Op("checksig") # Op("endif")
    /\ \A data : Push(data) # Op("endif") /\ Push(data).push = data
<1>1. Op("0").op = "0" /\ Op("if").op = "if" /\ Op("endif").op = "endif" /\ Op("checksig").op = "checksig"
  BY DEF Op
<1>2. "0" # "endif" /\ "if" # "endif" /\ "checksig" # "endif"
  OBVIOUS
<1>3. DOMAIN Op("endif") = {"op"}
  BY DEF Op
<1>4. \A data : DOMAIN Push(data) = {"push"} /\ Push(data).push = data
  BY DEF Push
<1>5. {"op"} # {"push"}
  OBVIOUS
<1>6. Op("0") # Op("endif") /\ Op("if") # Op("endif") /\ Op("checksig") # Op("endif")
  BY <1>1, <1>2
<1>7. \A data : Push(data) # Op("endif")
  BY <1>3, <1>4, <1>5
<1> QED BY <1>4, <1>6, <1>7

\* A script's data stands between its third item and the first endif.
LEMMA LeafReads ==
    ASSUME NEW dat \in Seq(Bit), NEW key
    PROVE  ReadLeaf(Leaf(dat, key)) = dat
<1> DEFINE size == ChunkBytes * ByteBits
           n == (Len(dat) + size - 1) \div size
           S == {Op("0"), Op("if"), Push(Urb), Op("endif"), Push(key), Op("checksig")}
                  \cup {Push(d) : d \in Seq(Bit)}
           a == <<Op("0"), Op("if"), Push(Urb)>>
           b == [i \in 1..n |-> Push(Piece(dat, size, i))]
           c == <<Op("endif"), Push(key), Op("checksig")>>
           script == a \o b \o c
           end == CHOOSE i \in DOMAIN script : script[i] = Op("endif")
<1>1. size \in Nat \ {0}
  <2>1. ChunkBytes \in Nat \ {0} /\ ByteBits \in Nat \ {0}
    BY CometAssumption, BitsAssumption
  <2> QED BY <2>1
<1>2. /\ n \in Nat
      /\ \A i \in 1..n : Piece(dat, size, i) \in Seq(Bit)
      /\ FlattenSeq([i \in 1..n |-> Piece(dat, size, i)]) = dat
  <2> HIDE DEF size
  <2> QED BY <1>1, FlattenCuts
<1>3. Leaf(dat, key) = script
  BY DEF Leaf, Piece
<1> HIDE DEF n, size
<1>4. /\ a \in Seq(S) /\ Len(a) = 3 /\ a[1] = Op("0") /\ a[2] = Op("if") /\ a[3] = Push(Urb)
      /\ c \in Seq(S) /\ Len(c) = 3 /\ c[1] = Op("endif") /\ c[2] = Push(key) /\ c[3] = Op("checksig")
  OBVIOUS
<1>5. b \in Seq(S) /\ Len(b) = n /\ \A i \in 1..n : b[i] = Push(Piece(dat, size, i))
  <2>1. \A i \in 1..n : Push(Piece(dat, size, i)) \in S
    BY <1>2
  <2> HIDE DEF S
  <2>2. b \in [1..n -> S]
    BY <2>1
  <2> QED BY <1>2, <2>2, FunctionIsSequence
<1> DEFINE ab == a \o b
<1>6. script = ab \o c
  OBVIOUS
<1> HIDE DEF S, a, b, c, script
<1>7. /\ ab \in Seq(S) /\ Len(ab) = n + 3
      /\ \A i \in 1..(n + 3) : ab[i] = IF i <= 3 THEN a[i] ELSE b[i - 3]
  <2>0. a \in Seq(S) /\ b \in Seq(S) /\ Len(a) = 3 /\ Len(b) = n
    BY <1>4, <1>5
  <2>1. /\ ab \in Seq(S) /\ Len(ab) = Len(a) + Len(b)
        /\ \A i \in 1..(Len(a) + Len(b)) : ab[i] = IF i <= Len(a) THEN a[i] ELSE b[i - Len(a)]
    BY <2>0, ConcatProperties
  <2>2. Len(a) + Len(b) = n + 3
    BY <1>2, <2>0
  <2> HIDE DEF ab
  <2> QED BY <2>0, <2>1, <2>2
<1> HIDE DEF ab
<1>8. /\ script \in Seq(S) /\ Len(script) = n + 6
      /\ \A i \in 1..(n + 6) : script[i] = IF i <= n + 3 THEN ab[i] ELSE c[i - (n + 3)]
  <2>0. c \in Seq(S) /\ Len(c) = 3 /\ ab \in Seq(S) /\ Len(ab) = n + 3
    BY <1>4, <1>7
  <2>1. /\ ab \o c \in Seq(S) /\ Len(ab \o c) = Len(ab) + Len(c)
        /\ \A i \in 1..(Len(ab) + Len(c)) :
             (ab \o c)[i] = IF i <= Len(ab) THEN ab[i] ELSE c[i - Len(ab)]
    BY <2>0, ConcatProperties
  <2>2. Len(ab) + Len(c) = n + 6
    BY <1>2, <2>0
  <2> QED BY <1>6, <2>0, <2>1, <2>2
<1>9. ASSUME NEW i \in 1..3 PROVE script[i] = a[i]
  <2>1. i \in 1..(n + 6) /\ i \in 1..(n + 3) /\ i <= n + 3 /\ i <= 3
    BY <1>2
  <2> QED BY <1>7, <1>8, <2>1
<1>10. ASSUME NEW i \in 1..n PROVE script[i + 3] = b[i]
  <2>1. i + 3 \in 1..(n + 6) /\ i + 3 \in 1..(n + 3) /\ i + 3 <= n + 3 /\ ~(i + 3 <= 3) /\ (i + 3) - 3 = i
    BY <1>2
  <2> QED BY <1>7, <1>8, <2>1
<1>11. ASSUME NEW i \in 1..3 PROVE script[n + 3 + i] = c[i]
  <2>1. n + 3 + i \in 1..(n + 6) /\ ~(n + 3 + i <= n + 3) /\ (n + 3 + i) - (n + 3) = i
    BY <1>2
  <2> QED BY <1>8, <2>1
<1>12. ASSUME NEW i \in 1..(n + 3) PROVE script[i] # Op("endif")
  <2>1. CASE i <= 3
    <3>1. i = 1 \/ i = 2 \/ i = 3
      BY <1>2, <2>1
    <3> QED BY <1>4, <1>9, <3>1, OpsApart
  <2>2. CASE ~(i <= 3)
    <3>1. i - 3 \in 1..n /\ (i - 3) + 3 = i
      BY <1>2, <2>2
    <3>2. script[i] = Push(Piece(dat, size, i - 3))
      BY <1>5, <1>10, <3>1
    <3> QED BY <3>2, OpsApart
  <2> QED BY <2>1, <2>2
<1>13. script[n + 4] = Op("endif") /\ script[n + 5] # Op("endif") /\ script[n + 6] # Op("endif")
  <2>1. /\ 1 \in 1..3 /\ 2 \in 1..3 /\ 3 \in 1..3
        /\ n + 3 + 1 = n + 4 /\ n + 3 + 2 = n + 5 /\ n + 3 + 3 = n + 6
    BY <1>2
  <2> QED BY <1>4, <1>11, <2>1, OpsApart
<1>14. end = n + 4
  <2>1. n + 4 \in DOMAIN script
    BY <1>2, <1>8
  <2>2. ASSUME NEW i \in DOMAIN script, script[i] = Op("endif") PROVE i = n + 4
    <3>0. i \in 1..(n + 6)
      BY <1>8
    <3>1. i \in 1..(n + 3) \/ i = n + 4 \/ i = n + 5 \/ i = n + 6
      BY <1>2, <3>0
    <3> QED BY <1>12, <1>13, <2>2, <3>1
  <2>3. end \in DOMAIN script /\ script[end] = Op("endif")
    BY <1>13, <2>1
  <2> HIDE DEF end
  <2> QED BY <2>2, <2>3
<1> HIDE DEF end
<1>15. end - 4 = n
  BY <1>2, <1>14
<1>16. [i \in 1..n |-> script[i + 3].push] = [i \in 1..n |-> Piece(dat, size, i)]
  <2>1. ASSUME NEW i \in 1..n PROVE script[i + 3].push = Piece(dat, size, i)
    <3>1. script[i + 3] = Push(Piece(dat, size, i))
      BY <1>5, <1>10
    <3> QED BY <3>1, OpsApart
  <2> QED BY <2>1
<1>17. ReadLeaf(script) = FlattenSeq([i \in 1..(end - 4) |-> script[i + 3].push])
  BY DEF ReadLeaf, end
<1> QED BY <1>2, <1>3, <1>15, <1>16, <1>17

-----------------------------------------------------------------------------
(* The spawn in it. *)

\* Bits after bits are bits.
LEMMA ConcatBits ==
    ASSUME NEW a \in Seq(Bit), NEW b \in Seq(Bit)
    PROVE  a \o b \in Seq(Bit) /\ Len(a \o b) = Len(a) + Len(b) /\ Len(a \o b) \in Nat
OBVIOUS

\* The constants of the encoding fit their fields.
LEMMA SmallFits == Fits(0, 1) /\ Fits(0, 2) /\ Fits(1, 2) /\ Fits(1, 7) /\ Fits(2, 2) /\ Fits(3, 2)
<1>1. ASSUME NEW n \in 0..3 PROVE Fits(n, 2)
  <2>1. /\ Shifts(n)[0] = n /\ Shifts(n)[0 + 1] = Shifts(n)[0] \div 2
        /\ Shifts(n)[1 + 1] = Shifts(n)[1] \div 2
    <3>1. n \in Nat /\ 0 \in Nat /\ 1 \in Nat
      OBVIOUS
    <3> QED BY <3>1, ShiftsStep
  <2>2. Shifts(n)[1] = n \div 2 /\ Shifts(n)[2] = Shifts(n)[1] \div 2
    BY <2>1
  <2>3. (n \div 2) \div 2 = 0
    OBVIOUS
  <2> QED BY <2>2, <2>3 DEF Fits
<1>2. Fits(0, 0)
  BY ShiftsStep DEF Fits
<1>3. Fits(0, 1)
  BY <1>2, FitsWider
<1>4. Fits(1, 7)
  BY <1>1, FitsWider
<1> QED BY <1>1, <1>3, <1>4

\* No fief, or one of an IP version whose parts fit their fields.
IsFief(fief) ==
    \/ fief = None
    \/ /\ fief \in [version : {4, 6}, ip : Nat, port : Nat]
       /\ Fits(fief.ip, IpBits[fief.version]) /\ Fits(fief.port, PortBits)

\* The fief reads back, and the reader stops right behind it.
LEMMA FiefReads ==
    ASSUME NEW dat \in Seq(Bit), NEW p \in Nat \ {0}, NEW fief, IsFief(fief)
    PROVE  /\ EncodeFief(fief) \in Seq(Bit)
           /\ Reads(dat, p, EncodeFief(fief)) =>
                ReadFief(dat, p) = [fief |-> fief, next |-> p + Len(EncodeFief(fief))]
<1>0. PortBits \in Nat /\ IpBits \in [{4, 6} -> Nat]
  BY CometAssumption
<1> DEFINE kind == NatOf(Cut(dat, p, 2))
<1>1. CASE fief = None
  <2> DEFINE two == Low(2, 0)
  <2>1. two \in Seq(Bit) /\ Len(two) = 2
    BY LowType
  <2>2. EncodeFief(fief) = two
    BY <1>1 DEF EncodeFief
  <2>3. ASSUME Reads(dat, p, two) PROVE ReadFief(dat, p) = [fief |-> None, next |-> p + 2]
    <3>1. kind = 0
      BY <2>3, SmallFits, NatReads
    <3>2. 0 < 2
      OBVIOUS
    <3> QED BY <3>1, <3>2 DEF ReadFief
  <2> HIDE DEF two
  <2> QED BY <1>1, <2>1, <2>2, <2>3
<1>2. CASE fief # None
  <2> DEFINE ip == IpBits[fief.version]
             k == IF fief.version = 4 THEN 2 ELSE 3
             a == Low(2, k)
             b == Low(ip, fief.ip)
             c == Low(PortBits, fief.port)
  <2>1. /\ fief.version \in {4, 6} /\ fief.ip \in Nat /\ fief.port \in Nat
        /\ Fits(fief.ip, ip) /\ Fits(fief.port, PortBits)
        /\ fief = [version |-> fief.version, ip |-> fief.ip, port |-> fief.port]
    BY <1>2 DEF IsFief
  <2>2. ip \in Nat /\ k \in Nat /\ Fits(k, 2) /\ ~(k < 2) /\ fief.version = (IF k = 2 THEN 4 ELSE 6)
    BY <1>0, <2>1, SmallFits
  <2>3. EncodeFief(fief) = a \o b \o c
    BY <1>2 DEF EncodeFief
  <2> HIDE DEF ip, k
  <2>4. a \in Seq(Bit) /\ Len(a) = 2 /\ b \in Seq(Bit) /\ Len(b) = ip /\ c \in Seq(Bit) /\ Len(c) = PortBits
    BY <1>0, <2>1, <2>2, LowType
  <2> DEFINE ab == a \o b
             l == Len(ab \o c)
  <2>5. ab \in Seq(Bit) /\ Len(ab) = 2 + ip
    <3> HIDE DEF a, b, c
    <3>1. a \o b \in Seq(Bit) /\ Len(a \o b) = Len(a) + Len(b)
      BY <2>4, ConcatProperties
    <3> QED BY <2>2, <2>4, <3>1
  <2>6. ab \o c \in Seq(Bit) /\ Len(ab \o c) = 2 + ip + PortBits
    <3> HIDE DEF ab, a, b, c
    <3>1. ab \o c \in Seq(Bit) /\ Len(ab \o c) = Len(ab) + Len(c)
      BY <2>4, <2>5, ConcatProperties
    <3> QED BY <2>4, <2>5, <3>1
  <2>7. ASSUME Reads(dat, p, ab \o c)
        PROVE  ReadFief(dat, p) = [fief |-> fief, next |-> p + 2 + ip + PortBits]
    <3> HIDE DEF a, b, c, ab
    <3>1. Reads(dat, p, ab) /\ Reads(dat, p + Len(ab), c)
      BY <2>4, <2>5, <2>7, ReadsConcat
    <3>2. Reads(dat, p, a) /\ Reads(dat, p + Len(a), b)
      BY <2>4, <3>1, ReadsConcat DEF ab
    <3>3. p + Len(a) = p + 2 /\ p + Len(ab) = p + 2 + ip /\ p + 2 \in Nat \ {0} /\ p + 2 + ip \in Nat \ {0}
      BY <2>2, <2>4, <2>5
    <3>4. kind = k
      BY <2>2, <3>2, NatReads DEF a
    <3>5. NatOf(Cut(dat, p + 2, ip)) = fief.ip
      BY SMTT(30), <2>1, <2>2, <3>2, <3>3, NatReads DEF b
    <3>6. NatOf(Cut(dat, p + 2 + ip, PortBits)) = fief.port
      BY SMTT(30), <1>0, <2>1, <3>1, <3>3, NatReads DEF c
    <3> HIDE DEF kind
    <3>7. ReadFief(dat, p) =
            [fief |-> [version |-> fief.version,
                       ip |-> NatOf(Cut(dat, p + 2, ip)),
                       port |-> NatOf(Cut(dat, p + 2 + ip, PortBits))],
             next |-> p + 2 + ip + PortBits]
      <4>1. kind = NatOf(Cut(dat, p, 2))
        BY DEF kind
      <4> QED BY <2>2, <3>4, <4>1 DEF ReadFief, ip
    <3> QED BY <2>1, <3>5, <3>6, <3>7
  <2>8. p + l = p + 2 + ip + PortBits
    <3>1. l = 2 + ip + PortBits
      BY <2>6
    <3> HIDE DEF l
    <3> QED BY <1>0, <2>2, <3>1
  <2> HIDE DEF a, b, c
  <2> QED BY <2>3, <2>6, <2>7, <2>8
<1> QED BY <1>1, <1>2

\* The bits before the index of the output, and the index.
EncodeVout(vout) == IF vout = None THEN Low(2, 0) ELSE Low(2, 1) \o MatNat(vout.index)

\* The output's index reads back, none as none and zero as zero.
LEMMA VoutReads ==
    ASSUME NEW dat \in Seq(Bit), NEW p \in Nat \ {0}, NEW vout, vout = None \/ vout \in [index : Nat]
    PROVE  /\ EncodeVout(vout) \in Seq(Bit)
           /\ Reads(dat, p, EncodeVout(vout)) =>
                (IF NatOf(Cut(dat, p, 2)) = 0 THEN None
                 ELSE [index |-> NatOf(Rub(dat, p + 2).atom)]) = vout
<1> DEFINE kind == NatOf(Cut(dat, p, 2))
<1>0. p + 2 \in Nat \ {0}
  OBVIOUS
<1>1. CASE vout = None
  <2> DEFINE two == Low(2, 0)
  <2>1. two \in Seq(Bit) /\ Len(two) = 2
    BY LowType
  <2>2. EncodeVout(vout) = two
    BY <1>1 DEF EncodeVout
  <2>3. ASSUME Reads(dat, p, two) PROVE kind = 0
    BY <2>3, SmallFits, NatReads
  <2> HIDE DEF two, kind
  <2>4. Reads(dat, p, EncodeVout(vout)) => (IF kind = 0 THEN None ELSE [index |-> NatOf(Rub(dat, p + 2).atom)]) = vout
    BY <1>1, <2>2, <2>3
  <2> QED BY <2>1, <2>2, <2>4 DEF kind
<1>2. CASE vout # None
  <2> DEFINE a == Low(2, 1)
             n == vout.index
             b == MatNat(n)
  <2>1. n \in Nat /\ vout = [index |-> n]
    BY <1>2
  <2>2. EncodeVout(vout) = a \o b
    BY <1>2 DEF EncodeVout
  <2> HIDE DEF n
  <2>3. a \in Seq(Bit) /\ Len(a) = 2
    BY LowType
  <2>4. b \in Seq(Bit)
    BY <2>1, MatNatType
  <2>5. ASSUME Reads(dat, p, a \o b) PROVE kind = 1 /\ NatOf(Rub(dat, p + 2).atom) = n
    <3> HIDE DEF a, b
    <3>1. Reads(dat, p, a) /\ Reads(dat, p + 2, b)
      BY <2>3, <2>4, <2>5, ReadsConcat
    <3>2. kind = 1
      BY <3>1, SmallFits, NatReads DEF a
    <3>3. NatOf(Rub(dat, p + 2).atom) = n
      BY <1>0, <2>1, <3>1, RubReadsNumber DEF b
    <3> QED BY <3>2, <3>3
  <2> HIDE DEF a, b, kind
  <2>6. a \o b \in Seq(Bit)
    BY <2>3, <2>4, ConcatBits
  <2>7. ASSUME Reads(dat, p, EncodeVout(vout))
        PROVE  (IF kind = 0 THEN None ELSE [index |-> NatOf(Rub(dat, p + 2).atom)]) = vout
    <3>1. kind # 0 /\ NatOf(Rub(dat, p + 2).atom) = n
      BY <2>2, <2>5, <2>7
    <3> QED BY <2>1, <3>1
  <2> QED BY <2>2, <2>6, <2>7 DEF kind
<1> QED BY <1>1, <1>2

\* A field after what comes before it.
LEMMA NextField ==
    ASSUME NEW a \in Seq(Bit), NEW b \in Seq(Bit)
    PROVE  /\ a \o b \in Seq(Bit)
           /\ 1 + Len(a) \in Nat \ {0} /\ 1 + Len(a \o b) = (1 + Len(a)) + Len(b)
           /\ \A dat : Reads(dat, 1, a \o b) => Reads(dat, 1, a) /\ Reads(dat, 1 + Len(a), b)
<1> DEFINE c == a \o b
<1>1. c \in Seq(Bit) /\ Len(c) = Len(a) + Len(b) /\ Len(a) \in Nat /\ Len(b) \in Nat
  BY ConcatBits
<1>2. \A dat : Reads(dat, 1, c) => Reads(dat, 1, a) /\ Reads(dat, 1 + Len(a), b)
  <2>1. 1 \in Nat \ {0}
    OBVIOUS
  <2> QED BY <2>1, ReadsConcat
<1> HIDE DEF c
<1>3. 1 + Len(a) \in Nat \ {0} /\ 1 + Len(c) = (1 + Len(a)) + Len(b)
  BY <1>1
<1> QED BY <1>1, <1>2, <1>3 DEF c

\* What is read of a spawn.
SpawnRead(s) ==
    [op |-> 1, pass |-> Trim(s.pass), fief |-> s.fief, spkh |-> s.spkh,
     off |-> s.off, tej |-> s.tej, vout |-> s.vout]

\* Every field of a spawn reads back (encode_spawn, src/src/urb/encoder.rs), whatever
\* zeros it ends in and whichever of the optional ones are there.
LEMMA SpawnReads ==
    ASSUME NEW s, IsSpawn(s)
    PROVE  EncodeSpawn(s) \in Seq(Bit) /\ ReadSpawn(EncodeSpawn(s)) = SpawnRead(s)
<1> DEFINE b1 == Low(7, 1)
           b2 == Low(1, 0)
           b3 == Mat(s.pass)
           b4 == EncodeFief(s.fief)
           b5 == LeBits(HashBits, s.spkh)
           b6 == MatNat(s.off)
           b7 == MatNat(s.tej)
           b8 == EncodeVout(s.vout)
           c2 == b1 \o b2
           c3 == c2 \o b3
           c4 == c3 \o b4
           c5 == c4 \o b5
           c6 == c5 \o b6
           c7 == c6 \o b7
           c8 == c7 \o b8
           dat == IntoBytes(c8)
<1>1. /\ s.pass \in Seq(Bit) /\ s.spkh \in Seq(Bit) /\ Len(s.spkh) = HashBits
      /\ s.off \in Nat /\ s.tej \in Nat
      /\ s.vout = None \/ s.vout \in [index : Nat]
      /\ IsFief(s.fief)
  BY DEF IsSpawn, IsFief
<1>2. EncodeSpawn(s) = dat
  BY DEF EncodeSpawn, SpawnHead, EncodeVout
<1>3. HashBits \in Nat
  BY CometAssumption
<1>4. b1 \in Seq(Bit) /\ Len(b1) = 7
  BY LowType
<1>5. b2 \in Seq(Bit) /\ Len(b2) = 1
  BY LowType
<1>6. b3 \in Seq(Bit) /\ Len(b3) \in Nat
  <2>1. b3 \in Seq(Bit)
    BY <1>1, MatType
  <2> HIDE DEF b3
  <2> QED BY <2>1
<1>7. b4 \in Seq(Bit) /\ Len(b4) \in Nat
  <2>1. <<>> \in Seq(Bit) /\ 1 \in Nat \ {0}
    OBVIOUS
  <2>2. b4 \in Seq(Bit)
    BY <1>1, <2>1, FiefReads
  <2> HIDE DEF b4
  <2> QED BY <2>2
<1>8. b5 = s.spkh /\ b5 \in Seq(Bit) /\ Len(b5) = HashBits
  <2>1. /\ b5 \in Seq(Bit) /\ Len(b5) = HashBits
        /\ \A i \in 1..HashBits : b5[i] = IF i <= Len(s.spkh) THEN s.spkh[i] ELSE 0
    BY <1>1, <1>3, LeBitsType
  <2> HIDE DEF b5
  <2>2. \A i \in 1..HashBits : b5[i] = s.spkh[i]
    BY <1>1, <1>3, <2>1
  <2> QED BY <1>1, <1>3, <2>1, <2>2, SeqEqual
<1>9. b6 \in Seq(Bit) /\ Len(b6) \in Nat
  <2>1. b6 \in Seq(Bit)
    BY <1>1, MatNatType
  <2> HIDE DEF b6
  <2> QED BY <2>1
<1>10. b7 \in Seq(Bit) /\ Len(b7) \in Nat
  <2>1. b7 \in Seq(Bit)
    BY <1>1, MatNatType
  <2> HIDE DEF b7
  <2> QED BY <2>1
<1>11. b8 \in Seq(Bit)
  <2>1. <<>> \in Seq(Bit) /\ 1 \in Nat \ {0}
    OBVIOUS
  <2> QED BY <1>1, <2>1, VoutReads
<1> HIDE DEF b1, b2, b3, b4, b5, b6, b7, b8
<1>12. 1 + Len(c2) = 9 /\ c2 \in Seq(Bit)
  <2>1. c2 \in Seq(Bit) /\ 1 + Len(c2) = (1 + Len(b1)) + Len(b2)
    BY <1>4, <1>5, NextField
  <2> HIDE DEF c2
  <2> QED BY <1>4, <1>5, <2>1
<1>13. /\ c3 \in Seq(Bit) /\ c4 \in Seq(Bit) /\ c5 \in Seq(Bit)
       /\ c6 \in Seq(Bit) /\ c7 \in Seq(Bit) /\ c8 \in Seq(Bit)
  <2> HIDE DEF c2
  <2>1. c3 \in Seq(Bit)
    BY <1>12, <1>6, ConcatBits
  <2> HIDE DEF c3
  <2>2. c4 \in Seq(Bit)
    BY <2>1, <1>7, ConcatBits
  <2> HIDE DEF c4
  <2>3. c5 \in Seq(Bit)
    BY <2>2, <1>8, ConcatBits
  <2> HIDE DEF c5
  <2>4. c6 \in Seq(Bit)
    BY <2>3, <1>9, ConcatBits
  <2> HIDE DEF c6
  <2>5. c7 \in Seq(Bit)
    BY <2>4, <1>10, ConcatBits
  <2> HIDE DEF c7
  <2>6. c8 \in Seq(Bit)
    BY <2>5, <1>11, ConcatBits
  <2> HIDE DEF c8
  <2> QED BY <2>1, <2>2, <2>3, <2>4, <2>5, <2>6
<1>14. dat \in Seq(Bit) /\ Reads(dat, 1, c8)
  <2> HIDE DEF c8
  <2> QED BY <1>13, IntoBytesBits
<1> HIDE DEF dat
<1> DEFINE p4 == 1 + Len(c3)
           p5 == 1 + Len(c4)
           p6 == 1 + Len(c5)
           p7 == 1 + Len(c6)
           p8 == 1 + Len(c7)
<1> HIDE DEF c2, c3, c4, c5, c6, c7, c8
<1>15. /\ p4 = 9 + Len(b3) /\ p5 = p4 + Len(b4) /\ p6 = p5 + HashBits
       /\ p7 = p6 + Len(b6) /\ p8 = p7 + Len(b7)
  <2>1. p4 = (1 + Len(c2)) + Len(b3)
    BY <1>6, <1>12, NextField DEF c3
  <2>2. p5 = p4 + Len(b4)
    BY <1>7, <1>13, NextField DEF c4
  <2>3. p6 = p5 + Len(b5)
    BY <1>8, <1>13, NextField DEF c5
  <2>4. p7 = p6 + Len(b6)
    BY <1>9, <1>13, NextField DEF c6
  <2>5. p8 = p7 + Len(b7)
    BY <1>10, <1>13, NextField DEF c7
  <2> HIDE DEF p4, p5, p6, p7, p8
  <2> QED BY <1>8, <1>12, <2>1, <2>2, <2>3, <2>4, <2>5
<1>16. /\ 1 \in Nat \ {0} /\ 9 \in Nat \ {0} /\ p4 \in Nat \ {0} /\ p5 \in Nat \ {0}
       /\ p6 \in Nat \ {0} /\ p7 \in Nat \ {0} /\ p8 \in Nat \ {0}
  BY <1>13, NextField
<1>17. /\ Reads(dat, 1, b1) /\ Reads(dat, 9, b3) /\ Reads(dat, p4, b4) /\ Reads(dat, p5, b5)
       /\ Reads(dat, p6, b6) /\ Reads(dat, p7, b7) /\ Reads(dat, p8, b8)
  <2>1. Reads(dat, 1, c7) /\ Reads(dat, p8, b8)
    BY <1>11, <1>13, <1>14, NextField DEF c8
  <2>2. Reads(dat, 1, c6) /\ Reads(dat, p7, b7)
    BY <1>10, <1>13, <2>1, NextField DEF c7
  <2>3. Reads(dat, 1, c5) /\ Reads(dat, p6, b6)
    BY <1>9, <1>13, <2>2, NextField DEF c6
  <2>4. Reads(dat, 1, c4) /\ Reads(dat, p5, b5)
    BY <1>8, <1>13, <2>3, NextField DEF c5
  <2>5. Reads(dat, 1, c3) /\ Reads(dat, p4, b4)
    BY <1>7, <1>13, <2>4, NextField DEF c4
  <2>6. Reads(dat, 1, c2) /\ Reads(dat, 1 + Len(c2), b3)
    BY <1>6, <1>12, <2>5, NextField DEF c3
  <2>7. Reads(dat, 1, b1)
    BY <1>4, <1>5, <2>6, NextField DEF c2
  <2> QED BY <1>12, <2>1, <2>2, <2>3, <2>4, <2>5, <2>6, <2>7
<1> HIDE DEF p4, p5, p6, p7, p8
<1> DEFINE pass == Rub(dat, 9)
           fief == ReadFief(dat, pass.next)
           off  == Rub(dat, fief.next + HashBits)
           tej  == Rub(dat, off.next)
           vout == Rub(dat, tej.next + 2)
           read == [op   |-> NatOf(Cut(dat, 1, 7)),
                    pass |-> pass.atom,
                    fief |-> fief.fief,
                    spkh |-> Cut(dat, fief.next, HashBits),
                    off  |-> NatOf(off.atom),
                    tej  |-> NatOf(tej.atom),
                    vout |-> IF NatOf(Cut(dat, tej.next, 2)) = 0 THEN None
                             ELSE [index |-> NatOf(vout.atom)]]
<1>18. ReadSpawn(dat) = read
  BY DEF ReadSpawn
<1> HIDE DEF read, pass, fief, off, tej, vout
<1>19. NatOf(Cut(dat, 1, 7)) = 1
  BY <1>14, <1>16, <1>17, SmallFits, NatReads DEF b1
<1>20. pass.atom = Trim(s.pass) /\ pass.next = p4
  <2>1. pass = [atom |-> Trim(s.pass), next |-> 9 + Len(Mat(s.pass))]
    BY <1>1, <1>14, <1>16, <1>17, RubReads DEF b3, pass
  <2> QED BY <1>15, <2>1 DEF b3
<1>21. fief.fief = s.fief /\ fief.next = p5
  <2>1. fief = [fief |-> s.fief, next |-> p4 + Len(EncodeFief(s.fief))]
    BY <1>1, <1>14, <1>16, <1>17, <1>20, FiefReads DEF b4, fief
  <2> QED BY <1>15, <2>1 DEF b4
<1>22. Cut(dat, p5, HashBits) = s.spkh
  BY <1>8, <1>14, <1>16, <1>17, CutReads
<1>23. NatOf(off.atom) = s.off /\ off.next = p7
  <2>1. off = Rub(dat, p6)
    BY <1>15, <1>21 DEF off
  <2> QED BY <1>1, <1>14, <1>16, <1>17, <1>15, <2>1, RubReadsNumber DEF b6
<1>24. NatOf(tej.atom) = s.tej /\ tej.next = p8
  <2>1. tej = Rub(dat, p7)
    BY <1>23 DEF tej
  <2> QED BY <1>1, <1>14, <1>16, <1>17, <1>15, <2>1, RubReadsNumber DEF b7
<1>25. (IF NatOf(Cut(dat, p8, 2)) = 0 THEN None ELSE [index |-> NatOf(Rub(dat, p8 + 2).atom)]) = s.vout
  BY <1>1, <1>14, <1>16, <1>17, VoutReads DEF b8
<1>26. (IF NatOf(Cut(dat, tej.next, 2)) = 0 THEN None ELSE [index |-> NatOf(vout.atom)]) = s.vout
  BY <1>24, <1>25 DEF vout
<1>27. read = SpawnRead(s)
  BY <1>19, <1>20, <1>21, <1>22, <1>23, <1>24, <1>26 DEF read, SpawnRead
<1> QED BY <1>2, <1>14, <1>18, <1>27

-----------------------------------------------------------------------------
(* The comet. *)

\* SHA-256 gives as many bits as it should.
LEMMA HashType == \A bits : Hash(bits) \in Seq(Bit) /\ Len(Hash(bits)) = HashBits
<1> SUFFICES ASSUME NEW bits PROVE Hash(bits) \in Seq(Bit) /\ Len(Hash(bits)) = HashBits
  OBVIOUS
<1>1. HashBits \in Nat
  BY CometAssumption
<1>2. Hash(bits) \in [1..HashBits -> Bit]
  BY DEF Hash, Bit
<1> HIDE DEF Hash
<1> QED BY <1>1, <1>2, FunctionIsSequence

\* A scalar is less than the order.
LEMMA ScalarType ==
    ASSUME NEW bits \in Seq(Bit)
    PROVE  Scalar(bits) \in 0..(CurveOrder - 1)
<1> DEFINE n == NatOf(bits)
<1>1. n \in Nat
  BY NatOfBits
<1>2. CurveOrder \in Nat \ {0}
  BY CometAssumption
<1> HIDE DEF n
<1>3. (n % CurveOrder) \in 0..(CurveOrder - 1)
  BY <1>1, <1>2
<1> QED BY <1>3 DEF Scalar, n

\* A compressed point tells the point.
LEMMA CompressedType ==
    ASSUME NEW point \in 0..(CurveOrder - 1)
    PROVE  /\ Compressed(point) \in Seq(Bit) /\ Len(Compressed(point)) = HashBits
           /\ NatOf(Compressed(point)) = point
<1>1. /\ HashBits \in Nat /\ CurveOrder \in Nat \ {0} /\ CurveOrder - 1 \in Nat
      /\ Fits(CurveOrder - 1, HashBits)
  BY CometAssumption
<1>2. point \in Nat /\ point <= CurveOrder - 1
  BY <1>1
<1>3. Compressed(point) \in Seq(Bit) /\ Len(Compressed(point)) = HashBits
  BY <1>1, <1>2, LowType DEF Compressed
<1>4. Fits(point, HashBits)
  <2>1. Shifts(point)[HashBits] <= Shifts(CurveOrder - 1)[HashBits]
    BY <1>1, <1>2, ShiftsMonotone
  <2>2. Shifts(point)[HashBits] \in Nat
    BY <1>1, <1>2, ShiftsStep
  <2>3. Shifts(CurveOrder - 1)[HashBits] = 0
    BY <1>1 DEF Fits
  <2>4. Shifts(point)[HashBits] = 0
    BY <2>1, <2>2, <2>3
  <2> QED BY <2>4 DEF Fits
<1>5. NatOf(Compressed(point)) = point
  BY <1>1, <1>2, <1>4, NatOfLow DEF Compressed
<1> QED BY <1>3, <1>5

\* A seed has a point.
LEMMA PointOfType == \A seed : PointOf(seed) \in 0..(CurveOrder - 1)
BY HashType, ScalarType DEF PointOf

\* A public key has the length of a hash.
LEMMA PubKeyType ==
    \A seed : PubKey(seed) \in Seq(Bit) /\ Len(PubKey(seed)) = HashBits
BY PointOfType, CompressedType DEF PubKey

\* min_le spells the number.
LEMMA MinLeType ==
    ASSUME NEW n \in Nat
    PROVE  MinLe(n) \in Seq(Bit) /\ NatOf(MinLe(n)) = n
<1> DEFINE le == Low(BitLength(n), n)
<1>1. le \in Seq(Bit)
  BY BitLengthFits, LowType
<1>2. NatOf(le) = n
  BY TrimOfNumber
<1>3. MinLe(n) = IntoBytes(le)
  BY DEF MinLe
<1> HIDE DEF le
<1> QED BY <1>1, <1>2, <1>3, IntoBytesBits

\* build_tweak_bytes joins what urb-core joins.
LEMMA TweakType ==
    ASSUME NEW txid \in Seq(Bit), NEW vout \in Nat, NEW off \in Nat
    PROVE  /\ Tweak(txid, vout, off) \in Seq(Bit)
           /\ UrbTweak(txid, vout, off) = Tweak(txid, vout, off)
<1>1. TweakPrefix \in Seq(Bit)
  BY CometAssumption
<1>2. MinLe(vout) \in Seq(Bit) /\ MinLe(off) \in Seq(Bit)
  BY MinLeType
<1>3. Tweak(txid, vout, off) \in Seq(Bit)
  BY <1>1, <1>2, PiecesType DEF Tweak
<1>4. UrbTweak(txid, vout, off) = Tweak(txid, vout, off)
  <2> DEFINE v == MinLe(vout)
             o == MinLe(off)
  <2>1. UrbTweak(txid, vout, off) = FlattenSeq(<<TweakPrefix, txid, v, o>>)
    BY DEF UrbTweak
  <2>2. Tweak(txid, vout, off) = InOrder(TweakPrefix, txid, v, o)
    BY DEF Tweak, InOrder
  <2>3. v \in Seq(Bit) /\ o \in Seq(Bit)
    BY <1>2
  <2> HIDE DEF v, o
  <2>4. FlattenSeq(<<TweakPrefix, txid, v, o>>) = InOrder(TweakPrefix, txid, v, o)
    BY <1>1, <2>3, FlattenFour
  <2> QED BY <2>1, <2>2, <2>4
<1> QED BY <1>3, <1>4

\* Xor keeps the length.
LEMMA XorType ==
    ASSUME NEW a \in Seq(Bit), NEW b \in Seq(Bit)
    PROVE  Xor(a, b) \in Seq(Bit) /\ Len(Xor(a, b)) = Len(a)
<1>1. Len(a) \in Nat /\ DOMAIN a = 1..Len(a)
  OBVIOUS
<1>2. ASSUME NEW i \in 1..Len(a) PROVE ((a[i] + (IF i <= Len(b) THEN b[i] ELSE 0)) % 2) \in Bit
  <2>1. a[i] \in {0, 1} /\ (IF i <= Len(b) THEN b[i] ELSE 0) \in {0, 1}
    BY DEF Bit
  <2> QED BY <2>1 DEF Bit
<1>3. Xor(a, b) \in [1..Len(a) -> Bit]
  BY <1>1, <1>2 DEF Xor
<1> HIDE DEF Xor
<1> QED BY <1>1, <1>3, FunctionIsSequence

\* The bits of a comet.
Half == HashBits \div 2

\* Two comets fill a hash.
LEMMA HalfIs == HashBits \in Nat /\ Half \in Nat /\ HashBits = Half + Half
<1>1. HashBits \in Nat /\ (HashBits % 2) = 0
  BY CometAssumption
<1> QED BY <1>1 DEF Half

\* shaf folds the hash in two.
LEMMA ShafIs ==
    ASSUME NEW salt, NEW msg, NEW h, h = Shas(salt, msg)
    PROVE  /\ Shaf(salt, msg) = [i \in 1..Half |-> (h[i] + h[i + Half]) % 2]
           /\ Shaf(salt, msg) \in Seq(Bit) /\ Len(Shaf(salt, msg)) = Half
<1> DEFINE a == SubSeq(h, 1, Half)
           b == SubSeq(h, Half + 1, HashBits)
<1>1. h \in Seq(Bit) /\ Len(h) = HashBits
  BY HashType DEF Shas
<1>2. a \in Seq(Bit) /\ Len(a) = Half /\ DOMAIN a = 1..Half /\ \A i \in 1..Half : a[i] = h[i]
  BY <1>1, HalfIs
<1>3. b \in Seq(Bit) /\ Len(b) = Half /\ \A i \in 1..Half : b[i] = h[i + Half]
  <2>1. \A i \in (Half + 1)..HashBits : h[i] \in Bit
    BY <1>1, HalfIs
  <2>2. /\ b \in Seq(Bit) /\ Len(b) = IF Half + 1 <= HashBits THEN HashBits - (Half + 1) + 1 ELSE 0
        /\ \A i \in 1..(HashBits - (Half + 1) + 1) : b[i] = h[(Half + 1) + i - 1]
    BY <2>1, HalfIs, SubSeqProperties
  <2>3. HashBits - (Half + 1) + 1 = Half /\ \A i \in 1..Half : (Half + 1) + i - 1 = i + Half
    BY HalfIs
  <2>4. (IF Half + 1 <= HashBits THEN HashBits - (Half + 1) + 1 ELSE 0) = Half
    BY HalfIs
  <2> HIDE DEF b
  <2> QED BY <2>2, <2>3, <2>4
<1>4. Shaf(salt, msg) = Xor(a, b)
  BY DEF Shaf, Half
<1> HIDE DEF a, b
<1>5. Xor(a, b) \in Seq(Bit) /\ Len(Xor(a, b)) = Half
  BY <1>2, <1>3, XorType
<1>6. Xor(a, b) = [i \in 1..Half |-> (h[i] + h[i + Half]) % 2]
  <2>1. ASSUME NEW i \in 1..Half PROVE a[i] + (IF i <= Len(b) THEN b[i] ELSE 0) = h[i] + h[i + Half]
    BY <1>2, <1>3, HalfIs
  <2> QED BY <1>2, <2>1 DEF Xor
<1> QED BY <1>4, <1>5, <1>6

\* The fingerprint the miner computes with the secret is the one urb-core computes
\* from the public key.
LEMMA UrbCometIs ==
    ASSUME NEW point \in 0..(CurveOrder - 1), NEW tweak
    PROVE  /\ UrbComet(Compressed(point), tweak) = Fingerprint(point, tweak)
           /\ Fingerprint(point, tweak) \in Seq(Bit) /\ Len(Fingerprint(point, tweak)) = Half
<1> DEFINE sPub == Compressed(point)
           key == Compressed((point + Scalar(Hash(sPub \o tweak))) % CurveOrder)
           h == Shas(Salt, key)
<1>1. NatOf(sPub) = point
  BY CompressedType
<1>2. Fingerprint(point, tweak) = Shaf(Salt, key)
  BY DEF Fingerprint, Tweaked
<1>3. UrbComet(sPub, tweak) = [i \in 1..Half |-> (h[i] + h[i + Half]) % 2]
  BY <1>1 DEF UrbComet, Shas, Half
<1> HIDE DEF h
<1>4. /\ Shaf(Salt, key) = [i \in 1..Half |-> (h[i] + h[i + Half]) % 2]
      /\ Shaf(Salt, key) \in Seq(Bit) /\ Len(Shaf(Salt, key)) = Half
  BY ShafIs DEF h
<1> QED BY <1>2, <1>3, <1>4

-----------------------------------------------------------------------------
(* The pass and the ring. *)

\* A tag, two keys or seeds, and what is attached to them.
Tagged(tag, x, y, dat) == IntoBytes(Low(ByteBits, tag) \o x \o y \o Mat(dat))

\* What reads back of an atom with a tag, two keys and a tweak.
HasParts(t, tag, x, y, dat) ==
    /\ t \in Seq(Bit)
    /\ NatOf(Cut(t, 1, ByteBits)) = tag
    /\ Cut(t, ByteBits + 1, Len(x)) = x
    /\ Cut(t, ByteBits + Len(x) + 1, Len(y)) = y
    /\ Rub(t, ByteBits + Len(x) + Len(y) + 1).atom = Trim(dat)

\* Tag, keys and tweak read back from the trimmed atom.
LEMMA TaggedReads ==
    ASSUME NEW tag \in Nat, Fits(tag, ByteBits),
           NEW x \in Seq(Bit), NEW y \in Seq(Bit), NEW dat \in Seq(Bit)
    PROVE  /\ Tagged(tag, x, y, dat) \in Seq(Bit)
           /\ HasParts(Trim(Tagged(tag, x, y, dat)), tag, x, y, dat)
<1> DEFINE b1 == Low(ByteBits, tag)
           b4 == Mat(dat)
           bits == b1 \o x \o y \o b4
           atom == Tagged(tag, x, y, dat)
           t == Trim(atom)
<1>1. ByteBits \in Nat \ {0} /\ Len(x) \in Nat /\ Len(y) \in Nat /\ 1 \in Nat \ {0}
  BY BitsAssumption
<1>2. b1 \in Seq(Bit) /\ Len(b1) = ByteBits
  BY <1>1, LowType
<1>3. b4 \in Seq(Bit)
  BY MatType
<1>4. atom = IntoBytes(bits)
  BY DEF Tagged
<1> HIDE DEF b1, b4, atom
<1>5. bits \in Seq(Bit)
  BY <1>2, <1>3, PiecesType
<1>6. atom \in Seq(Bit) /\ Reads(atom, 1, bits)
  <2> HIDE DEF bits
  <2> QED BY <1>4, <1>5, IntoBytesBits
<1>7. t \in Seq(Bit)
  BY <1>6, TrimType
<1>8. Reads(t, 1, bits)
  <2> HIDE DEF bits
  <2>1. \A i \in Nat \ {0} : BitAt(atom, i) = BitAt(t, i)
    BY <1>6, TrimBits
  <2> HIDE DEF t
  <2> QED BY <1>1, <1>5, <1>6, <2>1, ReadsSame
<1> HIDE DEF t
<1>9. /\ Reads(t, 1, b1)
      /\ Reads(t, 1 + Len(b1), x)
      /\ Reads(t, 1 + (Len(b1) + Len(x)), y)
      /\ Reads(t, 1 + (Len(b1) + Len(x) + Len(y)), b4)
  BY <1>1, <1>2, <1>3, <1>8, ReadsPieces
<1>10. /\ 1 + Len(b1) = ByteBits + 1 /\ 1 + (Len(b1) + Len(x)) = ByteBits + Len(x) + 1
       /\ 1 + (Len(b1) + Len(x) + Len(y)) = ByteBits + Len(x) + Len(y) + 1
       /\ ByteBits + 1 \in Nat \ {0} /\ ByteBits + Len(x) + 1 \in Nat \ {0}
       /\ ByteBits + Len(x) + Len(y) + 1 \in Nat \ {0}
  BY <1>1, <1>2
<1>11. NatOf(Cut(t, 1, ByteBits)) = tag
  BY <1>1, <1>7, <1>9, NatReads DEF b1
<1>12. Cut(t, ByteBits + 1, Len(x)) = x
  BY <1>7, <1>9, <1>10, CutReads
<1>13. Cut(t, ByteBits + Len(x) + 1, Len(y)) = y
  BY <1>7, <1>9, <1>10, CutReads
<1>14. Rub(t, ByteBits + Len(x) + Len(y) + 1).atom = Trim(dat)
  <2>1. Rub(t, ByteBits + Len(x) + Len(y) + 1)
          = [atom |-> Trim(dat), next |-> ByteBits + Len(x) + Len(y) + 1 + Len(Mat(dat))]
    BY <1>7, <1>9, <1>10, RubReads DEF b4
  <2> QED BY <2>1
<1> QED BY <1>6, <1>7, <1>11, <1>12, <1>13, <1>14 DEF HasParts, t, atom

\* The pass on chain tells the networking key and the tweak.
LEMMA PassReads ==
    ASSUME NEW sPub \in Seq(Bit), Len(sPub) = HashBits,
           NEW cPub \in Seq(Bit), Len(cPub) = HashBits, NEW tweak \in Seq(Bit)
    PROVE  LET pass == ReadPass(Trim(PassAtom(sPub, cPub, tweak)))
           IN  pass.tag = PassTag /\ pass.sPub = sPub /\ pass.dat = Trim(tweak)
<1> DEFINE atom == PassAtom(sPub, cPub, tweak)
           t == Trim(atom)
<1>1. PassTag \in Nat /\ Fits(PassTag, ByteBits) /\ ByteBits \in Nat /\ HashBits \in Nat
  BY CometAssumption, BitsAssumption
<1>2. atom = Tagged(PassTag, sPub, cPub, tweak)
  BY DEF PassAtom, Tagged
<1> HIDE DEF atom
<1>0. HasParts(t, PassTag, sPub, cPub, tweak)
  BY <1>1, <1>2, TaggedReads
<1>3. /\ NatOf(Cut(t, 1, ByteBits)) = PassTag
      /\ Cut(t, ByteBits + 1, Len(sPub)) = sPub
      /\ Rub(t, ByteBits + Len(sPub) + Len(cPub) + 1).atom = Trim(tweak)
  BY <1>0 DEF HasParts
<1>4. ByteBits + Len(sPub) + Len(cPub) + 1 = ByteBits + 2 * HashBits + 1
  BY <1>1
<1> HIDE DEF t
<1>5. /\ ReadPass(t).tag = NatOf(Cut(t, 1, ByteBits))
      /\ ReadPass(t).sPub = Cut(t, ByteBits + 1, HashBits)
      /\ ReadPass(t).dat = Rub(t, ByteBits + 2 * HashBits + 1).atom
  BY DEF ReadPass
<1>6. ReadPass(t).tag = PassTag /\ ReadPass(t).sPub = sPub /\ ReadPass(t).dat = Trim(tweak)
  BY <1>3, <1>4, <1>5
<1> QED BY <1>6 DEF t, atom

\* The pass is an atom.
LEMMA PassAtomType ==
    ASSUME NEW sPub \in Seq(Bit), NEW cPub \in Seq(Bit), NEW tweak \in Seq(Bit)
    PROVE  PassAtom(sPub, cPub, tweak) \in Seq(Bit)
<1> DEFINE b1 == Low(ByteBits, PassTag)
           b4 == Mat(tweak)
           bits == b1 \o sPub \o cPub \o b4
<1>1. PassTag \in Nat /\ ByteBits \in Nat
  BY CometAssumption, BitsAssumption
<1>2. b1 \in Seq(Bit) /\ b4 \in Seq(Bit)
  BY <1>1, LowType, MatType
<1>3. PassAtom(sPub, cPub, tweak) = IntoBytes(bits)
  BY DEF PassAtom
<1> HIDE DEF b1, b4
<1>4. bits \in Seq(Bit)
  BY <1>2, PiecesType
<1> HIDE DEF bits
<1> QED BY <1>3, <1>4, IntoBytesBits

\* The runtime makes of a ring the pass that was mined with it.
LEMMA RingReads ==
    ASSUME NEW ring \in Seq(Bit), Len(ring) = 2 * HashBits, NEW tweak \in Seq(Bit)
    PROVE  /\ RingAtom(ring, tweak) \in Seq(Bit)
           /\ PassOfRing(Trim(RingAtom(ring, tweak)))
                = Trim(PassAtom(PubKey(SigningSeed(ring)), PubKey(CryptSeed(ring)), tweak))
<1> DEFINE e == <<>>
           b1 == Low(ByteBits, RingTag)
           b4 == Mat(tweak)
           atom == RingAtom(ring, tweak)
           t == Trim(atom)
<1>1. RingTag \in Nat /\ Fits(RingTag, ByteBits) /\ ByteBits \in Nat /\ HashBits \in Nat
  BY CometAssumption, BitsAssumption
<1>2. e \in Seq(Bit) /\ Len(e) = 0
  OBVIOUS
<1>3. b1 \in Seq(Bit) /\ b4 \in Seq(Bit)
  BY <1>1, LowType, MatType
<1>4. atom = Tagged(RingTag, ring, e, tweak)
  <2>1. atom = IntoBytes(b1 \o ring \o b4)
    BY DEF RingAtom
  <2> HIDE DEF b1, b4
  <2>2. b1 \o ring \in Seq(Bit)
    BY <1>3, ConcatBits
  <2> DEFINE c == b1 \o ring
  <2>3. c \o e = c
    <3> HIDE DEF c
    <3> QED BY <2>2, ConcatEmptySeq DEF c
  <2>4. atom = IntoBytes(b1 \o ring \o e \o b4)
    BY <2>1, <2>3
  <2> QED BY <2>4 DEF Tagged, b1, b4
<1> HIDE DEF e, atom
<1>5. /\ atom \in Seq(Bit) /\ t \in Seq(Bit)
      /\ Cut(t, ByteBits + 1, Len(ring)) = ring
      /\ Rub(t, ByteBits + Len(ring) + Len(e) + 1).atom = Trim(tweak)
  <2>1. atom \in Seq(Bit) /\ HasParts(t, RingTag, ring, e, tweak)
    BY <1>1, <1>2, <1>4, TaggedReads
  <2> QED BY <2>1 DEF HasParts
<1>6. ByteBits + Len(ring) + Len(e) + 1 = ByteBits + 2 * HashBits + 1
  BY <1>1, <1>2
<1> HIDE DEF t
<1>7. ReadRing(t).ring = ring /\ ReadRing(t).dat = Trim(tweak)
  BY <1>5, <1>6 DEF ReadRing
<1>8. Mat(Trim(tweak)) = Mat(tweak)
  BY MatOfTrim
<1>9. PassOfRing(t) = Trim(PassAtom(PubKey(SigningSeed(ring)), PubKey(CryptSeed(ring)), tweak))
  BY <1>7, <1>8 DEF PassOfRing, PassAtom
<1> QED BY <1>5, <1>9 DEF t, atom

-----------------------------------------------------------------------------
(* The coin in the tweak. *)

\* Every bit is in a byte.
LEMMA ByteOf ==
    ASSUME NEW n \in Nat, NEW size \in Nat \ {0}, NEW k \in 1..(n * size)
    PROVE  \E m \in 1..n, j \in 1..size : k = (m - 1) * size + j
<1> DEFINE q == (k - 1) \div size
           r == (k - 1) % size
<1>1. k - 1 \in Nat /\ n * size \in Nat /\ k - 1 < n * size
  <2>1. n * size \in Nat
    OBVIOUS
  <2> DEFINE w == n * size
  <2> HIDE DEF w
  <2>2. w \in Nat /\ k \in 1..w
    BY <2>1 DEF w
  <2>3. k - 1 \in Nat /\ k - 1 < w
    BY <2>2
  <2> QED BY <2>1, <2>3 DEF w
<1>2. q \in Nat /\ r \in 0..(size - 1) /\ k - 1 = q * size + r
  BY <1>1, Division
<1> HIDE DEF q, r
<1>3. q < n
  <2>1. SUFFICES ASSUME q >= n PROVE FALSE
    BY <1>2
  <2>2. n * size <= q * size
    BY <1>2, <2>1, TimesMonotone
  <2>3. q * size \in Nat
    BY <1>2
  <2> DEFINE x == q * size
             y == n * size
  <2> HIDE DEF x, y
  <2>4. x \in Nat /\ y \in Nat /\ k - 1 = x + r /\ k - 1 < y /\ y <= x
    BY <1>1, <1>2, <2>2, <2>3 DEF x, y
  <2> QED BY <1>2, <2>4
<1>4. q + 1 \in 1..n /\ r + 1 \in 1..size /\ (q + 1) - 1 = q
  BY <1>2, <1>3
<1>5. k = q * size + (r + 1)
  <2> DEFINE x == q * size
  <2>1. x \in Nat /\ k - 1 = x + r
    BY <1>2
  <2> HIDE DEF x
  <2>2. k \in Nat
    OBVIOUS
  <2>3. k = x + (r + 1)
    BY <1>2, <2>1, <2>2
  <2> QED BY <2>3 DEF x
<1> QED BY <1>4, <1>5

\* display_hex_to_wire turns the order of the bytes and leaves each as it is.
LEMMA WireType ==
    ASSUME NEW n \in Nat, NEW d \in Seq(Bit), Len(d) = n * ByteBits
    PROVE  /\ InWireOrder(d) \in Seq(Bit) /\ Len(InWireOrder(d)) = n * ByteBits
           /\ \A i \in 1..n : \A j \in 1..ByteBits :
                InWireOrder(d)[(i - 1) * ByteBits + j] = d[(n - i) * ByteBits + j]
<1> DEFINE size == ByteBits
           w == n * size
           piece(i) == SubSeq(d, (n - i) * size + 1, (n - i + 1) * size)
           seqs == [i \in 1..n |-> piece(i)]
<1>1. size \in Nat \ {0} /\ w \in Nat
  BY BitsAssumption
<1>2. Len(d) \div size = n
  <2>1. n * size = n * size + 0 /\ 0 \in 0..(size - 1) /\ n * size \in Nat
    BY <1>1
  <2> HIDE DEF size
  <2>2. (n * size) \div size = n
    BY <1>1, <2>1, QuotientIs
  <2> QED BY <2>2 DEF size
<1>3. InWireOrder(d) = FlattenSeq(seqs)
  BY <1>2 DEF InWireOrder
<1> HIDE DEF size
<1>4. ASSUME NEW i \in 1..n
      PROVE  /\ piece(i) \in Seq(Bit) /\ Len(piece(i)) = size
             /\ \A j \in 1..size : piece(i)[j] = d[(n - i) * size + j]
  <2> DEFINE a == (n - i) * size
             b == (n - i + 1) * size
             c == (i - 1) * size
  <2>1. a \in Nat /\ b = a + size /\ c \in Nat /\ w = b + c
    BY <1>1
  <2> HIDE DEF a, b, c, w
  <2>2. b <= w /\ b \in Nat
    BY <1>1, <2>1
  <2>3. Len(d) = w
    BY DEF w, size
  <2>4. \A k \in (a + 1)..b : d[k] \in Bit
    BY <1>1, <2>1, <2>2, <2>3
  <2> DEFINE y == SubSeq(d, a + 1, b)
  <2>5. /\ y \in Seq(Bit) /\ Len(y) = IF a + 1 <= b THEN b - (a + 1) + 1 ELSE 0
        /\ \A k \in 1..(b - (a + 1) + 1) : y[k] = d[(a + 1) + k - 1]
    BY SMTT(30), <2>1, <2>2, <2>4, SubSeqProperties
  <2>6. b - (a + 1) + 1 = size /\ a + 1 <= b /\ \A k \in 1..size : (a + 1) + k - 1 = a + k
    BY <1>1, <2>1
  <2>7. y = piece(i)
    BY DEF a, b
  <2> HIDE DEF y, piece
  <2>8. y \in Seq(Bit) /\ Len(y) = size /\ \A k \in 1..size : y[k] = d[a + k]
    BY <2>5, <2>6
  <2> QED BY <2>7, <2>8 DEF a
<1> HIDE DEF piece
<1>5. seqs \in Seq(Seq(Bit)) /\ Len(seqs) = n /\ \A i \in 1..n : seqs[i] = piece(i)
  BY <1>4
<1> HIDE DEF seqs
<1>6. \A i \in 1..Len(seqs) : Len(seqs[i]) = size
  BY <1>4, <1>5
<1>7. /\ FlattenSeq(seqs) \in Seq(Bit) /\ Len(FlattenSeq(seqs)) = Len(seqs) * size
      /\ \A i \in 1..Len(seqs) : \A j \in 1..size :
           FlattenSeq(seqs)[(i - 1) * size + j] = seqs[i][j]
  BY ZenonT(30), <1>1, <1>5, <1>6, FlattenEven
<1>8. /\ FlattenSeq(seqs) \in Seq(Bit) /\ Len(FlattenSeq(seqs)) = n * size
      /\ \A i \in 1..n : \A j \in 1..size :
           FlattenSeq(seqs)[(i - 1) * size + j] = d[(n - i) * size + j]
  <2>1. ASSUME NEW i \in 1..n, NEW j \in 1..size
        PROVE  FlattenSeq(seqs)[(i - 1) * size + j] = d[(n - i) * size + j]
    <3>1. seqs[i][j] = d[(n - i) * size + j]
      BY <1>4, <1>5
    <3>2. FlattenSeq(seqs)[(i - 1) * size + j] = seqs[i][j]
      BY <1>5, <1>7
    <3> QED BY <3>1, <3>2
  <2>2. FlattenSeq(seqs) \in Seq(Bit) /\ Len(FlattenSeq(seqs)) = n * size
    BY <1>5, <1>7
  <2> QED BY <2>1, <2>2
<1> QED BY <1>3, <1>8 DEF size

\* No two ids are the same in the order of the wire.
LEMMA WireOfOne ==
    ASSUME NEW n \in Nat, NEW d \in Seq(Bit), Len(d) = n * ByteBits,
           NEW e \in Seq(Bit), Len(e) = n * ByteBits, InWireOrder(d) = InWireOrder(e)
    PROVE  d = e
<1> DEFINE size == ByteBits
           w == n * size
<1>1. size \in Nat \ {0} /\ w \in Nat
  BY BitsAssumption
<1>2. ASSUME NEW k \in 1..w PROVE d[k] = e[k]
  <2>1. PICK m \in 1..n, j \in 1..size : k = (m - 1) * size + j
    <3> HIDE DEF size
    <3> QED BY ZenonT(30), <1>1, ByteOf DEF w
  <2>2. n + 1 - m \in 1..n /\ n - (n + 1 - m) = m - 1
    OBVIOUS
  <2> DEFINE i == n + 1 - m
  <2>3. InWireOrder(d)[(i - 1) * size + j] = d[(n - i) * size + j]
    <3>1. \A a \in 1..n : \A b \in 1..size : InWireOrder(d)[(a - 1) * size + b] = d[(n - a) * size + b]
      BY WireType
    <3>2. i \in 1..n
      BY <2>2
    <3> HIDE DEF i, size
    <3> QED BY <3>1, <3>2
  <2>4. InWireOrder(e)[(i - 1) * size + j] = e[(n - i) * size + j]
    <3>1. \A a \in 1..n : \A b \in 1..size : InWireOrder(e)[(a - 1) * size + b] = e[(n - a) * size + b]
      BY WireType
    <3>2. i \in 1..n
      BY <2>2
    <3> HIDE DEF i, size
    <3> QED BY <3>1, <3>2
  <2>5. n - i = m - 1
    BY <2>2
  <2> HIDE DEF i, size
  <2> QED BY <2>1, <2>3, <2>4, <2>5
<1>3. Len(d) = w /\ Len(e) = w
  OBVIOUS
<1> HIDE DEF w
<1> QED BY <1>1, <1>2, <1>3, SeqEqual

\* Bits of a pair, when the first ones are as long.
Same(s, t) == \A i \in Nat \ {0} : BitAt(s, i) = BitAt(t, i)

\* Equal streams with parts of equal length are equal part by part.
LEMMA SplitSame ==
    ASSUME NEW a \in Seq(Bit), NEW b \in Seq(Bit), NEW c \in Seq(Bit), NEW d \in Seq(Bit),
           Len(a) = Len(c), Same(a \o b, c \o d)
    PROVE  a = c /\ Same(b, d)
<1> DEFINE n == Len(a)
           x == a \o b
           y == c \o d
<1>1. /\ x \in Seq(Bit) /\ Len(x) = n + Len(b) /\ n \in Nat /\ Len(b) \in Nat
      /\ \A i \in 1..(n + Len(b)) : x[i] = IF i <= n THEN a[i] ELSE b[i - n]
  <2>1. Len(a) \in Nat /\ Len(b) \in Nat
    OBVIOUS
  <2>2. /\ x \in Seq(Bit) /\ Len(x) = n + Len(b)
        /\ \A i \in 1..(n + Len(b)) : x[i] = IF i <= n THEN a[i] ELSE b[i - n]
    BY ConcatProperties
  <2> QED BY <2>1, <2>2
<1>2. /\ y \in Seq(Bit) /\ Len(y) = n + Len(d) /\ Len(d) \in Nat
      /\ \A i \in 1..(n + Len(d)) : y[i] = IF i <= n THEN c[i] ELSE d[i - n]
  BY ConcatProperties
<1>3. \A i \in Nat \ {0} : BitAt(x, i) = BitAt(y, i)
  BY DEF Same
<1>4. Len(a) = n /\ Len(c) = n
  OBVIOUS
<1> HIDE DEF x, y, n
<1>5. ASSUME NEW i \in 1..n PROVE a[i] = c[i]
  <2>1. i \in Nat \ {0} /\ i <= Len(x) /\ i <= Len(y) /\ i \in 1..(n + Len(b)) /\ i \in 1..(n + Len(d)) /\ i <= n
    BY <1>1, <1>2
  <2>2. BitAt(x, i) = x[i] /\ BitAt(y, i) = y[i]
    BY <1>1, <1>2, <2>1, BitAtType
  <2>3. x[i] = a[i] /\ y[i] = c[i]
    BY <1>1, <1>2, <2>1
  <2> QED BY <1>3, <2>1, <2>2, <2>3
<1>6. a = c
  BY <1>1, <1>4, <1>5, SeqEqual
<1>7. ASSUME NEW i \in Nat \ {0} PROVE BitAt(x, n + i) = BitAt(b, i)
  <2>1. /\ n + i \in Nat \ {0} /\ ~(n + i <= n) /\ (n + i) - n = i /\ (n + i <= Len(x) <=> i <= Len(b))
        /\ (i <= Len(b) => n + i \in 1..(n + Len(b)))
    BY <1>1
  <2>2. BitAt(x, n + i) = IF n + i <= Len(x) THEN x[n + i] ELSE 0
    BY <1>1, <2>1, BitAtType
  <2>3. BitAt(b, i) = IF i <= Len(b) THEN b[i] ELSE 0
    BY BitAtType
  <2>4. i <= Len(b) => x[n + i] = b[i]
    BY <1>1, <2>1
  <2> QED BY <2>1, <2>2, <2>3, <2>4
<1>8. ASSUME NEW i \in Nat \ {0} PROVE BitAt(y, n + i) = BitAt(d, i)
  <2>1. /\ n + i \in Nat \ {0} /\ ~(n + i <= n) /\ (n + i) - n = i /\ (n + i <= Len(y) <=> i <= Len(d))
        /\ (i <= Len(d) => n + i \in 1..(n + Len(d)))
    BY <1>1, <1>2
  <2>2. BitAt(y, n + i) = IF n + i <= Len(y) THEN y[n + i] ELSE 0
    BY <1>2, <2>1, BitAtType
  <2>3. BitAt(d, i) = IF i <= Len(d) THEN d[i] ELSE 0
    BY BitAtType
  <2>4. i <= Len(d) => y[n + i] = d[i]
    BY <1>2, <2>1
  <2> QED BY <2>1, <2>2, <2>3, <2>4
<1>9. ASSUME NEW i \in Nat \ {0} PROVE BitAt(b, i) = BitAt(d, i)
  <2>1. n + i \in Nat \ {0}
    BY <1>1
  <2> QED BY <1>3, <1>7, <1>8, <2>1
<1> QED BY <1>6, <1>9 DEF Same

\* min_le writes no byte for zero.
LEMMA MinLeOfZero == MinLe(0) = <<>>
<1> DEFINE e == <<>>
<1>1. BitLength(0) = 0
  BY BitLengthFits
<1>2. Low(0, 0) = e
  <2>1. Low(0, 0) \in Seq(Bit) /\ Len(Low(0, 0)) = 0
    BY LowType
  <2> HIDE DEF Low
  <2> QED BY <2>1
<1>3. ByteBits \in Nat \ {0}
  BY BitsAssumption
<1>4. (0 + ByteBits - 1) \div ByteBits = 0
  <2>1. 0 + ByteBits - 1 = 0 * ByteBits + (ByteBits - 1) /\ ByteBits - 1 \in 0..(ByteBits - 1) /\ 0 + ByteBits - 1 \in Nat
    BY <1>3
  <2> QED BY <1>3, <2>1, QuotientIs
<1>5. Len(e) = 0 /\ e \in Seq(Bit)
  OBVIOUS
<1>6. IntoBytes(e) = LeBits(0, e)
  <2>1. IntoBytes(e) = LeBits(((0 + ByteBits - 1) \div ByteBits) * ByteBits, e)
    BY <1>5 DEF IntoBytes
  <2>2. 0 * ByteBits = 0
    BY <1>3
  <2> QED BY <1>4, <2>1, <2>2
<1>7. LeBits(0, e) = e
  <2> HIDE DEF e
  <2>1. LeBits(0, e) \in Seq(Bit) /\ Len(LeBits(0, e)) = 0
    <3>1. 0 \in Nat
      OBVIOUS
    <3> QED BY <1>5, <3>1, LeBitsType
  <2> QED BY <1>5, <2>1, SeqEqual
<1>8. MinLe(0) = IntoBytes(Low(0, 0))
  BY <1>1 DEF MinLe
<1> QED BY <1>2, <1>6, <1>7, <1>8 DEF e

\* A tweak names one coin.
LEMMA TweakOfOne ==
    ASSUME NEW x \in Seq(Bit), NEW y \in Seq(Bit), Len(x) = Len(y), NEW v \in Nat, NEW u \in Nat,
           Trim(Tweak(x, v, 0)) = Trim(Tweak(y, u, 0))
    PROVE  x = y /\ v = u
<1> DEFINE p == TweakPrefix
           a == p \o x
           c == p \o y
           b == MinLe(v)
           d == MinLe(u)
           s == Tweak(x, v, 0)
           t == Tweak(y, u, 0)
<1>1. p \in Seq(Bit) /\ b \in Seq(Bit) /\ d \in Seq(Bit)
  BY CometAssumption, MinLeType
<1>2. a \in Seq(Bit) /\ c \in Seq(Bit) /\ Len(a) = Len(p) + Len(x) /\ Len(c) = Len(p) + Len(y)
  BY <1>1, ConcatBits
<1>3. s = a \o b
  <2> HIDE DEF p, b
  <2>1. s = p \o x \o b \o <<>>
    BY MinLeOfZero DEF Tweak, p, b
  <2> DEFINE z == a \o b
  <2>2. z \in Seq(Bit) /\ s = z \o <<>>
    BY <1>1, <1>2, <2>1, ConcatBits
  <2> HIDE DEF z
  <2>3. s = z
    BY <2>2, ConcatEmptySeq
  <2> QED BY <2>3 DEF z
<1>4. t = c \o d
  <2> HIDE DEF p, d
  <2>1. t = p \o y \o d \o <<>>
    BY MinLeOfZero DEF Tweak, p, d
  <2> DEFINE z == c \o d
  <2>2. z \in Seq(Bit) /\ t = z \o <<>>
    BY <1>1, <1>2, <2>1, ConcatBits
  <2> HIDE DEF z
  <2>3. t = z
    BY <2>2, ConcatEmptySeq
  <2> QED BY <2>3 DEF z
<1>5. Len(a) = Len(c)
  <2> HIDE DEF a, c, p
  <2> QED BY <1>2
<1>6. s \in Seq(Bit) /\ t \in Seq(Bit)
  BY TweakType
<1> HIDE DEF s, t, b, d
<1>7. Same(s, t)
  <2>1. Trim(s) = Trim(t)
    BY DEF s, t
  <2> QED BY <1>6, <2>1, TrimBits DEF Same
<1>8. a = c /\ Same(b, d)
  <2> HIDE DEF a, c
  <2>1. Same(a \o b, c \o d)
    BY <1>3, <1>4, <1>7
  <2> QED BY <1>1, <1>2, <1>5, <2>1, SplitSame
<1>9. x = y
  <2> HIDE DEF p
  <2>1. Same(p \o x, p \o y)
    BY <1>8 DEF Same
  <2>2. Same(x, y)
    BY <1>1, <2>1, SplitSame
  <2>3. Len(x) \in Nat
    OBVIOUS
  <2>4. ASSUME NEW i \in 1..Len(x) PROVE x[i] = y[i]
    <3>1. i \in Nat \ {0} /\ i <= Len(x) /\ i <= Len(y)
      BY <2>3
    <3>2. BitAt(x, i) = x[i] /\ BitAt(y, i) = y[i]
      BY <3>1, BitAtType
    <3> QED BY <2>2, <3>1, <3>2 DEF Same
  <2> QED BY <2>3, <2>4, SeqEqual
<1>10. v = u
  <2>1. NatOf(b) = NatOf(d)
    BY <1>1, <1>8, SameBits DEF Same
  <2> QED BY <2>1, MinLeType DEF b, d
<1> QED BY <1>9, <1>10

-----------------------------------------------------------------------------
(* The job. *)

\* A number is a noun.
LEMMA NumberIsNoun == \A n \in Nat : IsNoun(Number(n))
BY BitLengthFits, LowType, NounOfAtom DEF Number

\* A place with one more branch before it.
LEMMA Before ==
    ASSUME NEW a \in Bit, NEW t \in Seq(Bit), NEW u \in Seq(Bit),
           Len(u) = Len(t) + 1, u[1] = a, \A i \in 1..Len(t) : u[i + 1] = t[i]
    PROVE  <<a>> \o t = u
<1> DEFINE h == <<a>>
           v == h \o t
<1>1. h \in Seq(Bit) /\ Len(h) = 1 /\ h[1] = a /\ Len(t) \in Nat
  OBVIOUS
<1> HIDE DEF h
<1>2. /\ v \in Seq(Bit) /\ Len(v) = Len(h) + Len(t)
      /\ \A i \in 1..(Len(h) + Len(t)) : v[i] = IF i <= Len(h) THEN h[i] ELSE t[i - Len(h)]
  BY <1>1, ConcatProperties
<1> HIDE DEF v
<1>3. ASSUME NEW i \in 1..(Len(t) + 1) PROVE v[i] = u[i]
  <2>1. CASE i = 1
    BY <1>1, <1>2, <2>1
  <2>2. CASE i # 1
    <3>1. i - 1 \in 1..Len(t) /\ (i - 1) + 1 = i /\ ~(i <= 1)
      BY <1>1, <2>2
    <3>2. i \in 1..(Len(h) + Len(t)) /\ ~(i <= Len(h)) /\ i - Len(h) = i - 1
      BY <1>1, <3>1
    <3>3. v[i] = t[i - 1]
      BY <1>2, <3>2
    <3> DEFINE k == i - 1
    <3>4. k \in 1..Len(t) /\ k + 1 = i
      BY <3>1
    <3> HIDE DEF k
    <3>5. u[i] = t[k]
      BY <3>4
    <3> QED BY <3>3, <3>5 DEF k
  <2> QED BY <2>1, <2>2
<1>4. Len(v) = Len(t) + 1 /\ Len(t) + 1 \in Nat
  BY <1>1, <1>2
<1>5. v = u
  BY <1>2, <1>3, <1>4, SeqEqual
<1> QED BY <1>5 DEF v, h

\* The places of the comet and the ring, branch by branch.
LEMMA Paths ==
    /\ <<1>> \o (<<0>> \o <<>>) = <<1, 0>>
    /\ <<1>> \o (<<1>> \o (<<1>> \o (<<0>> \o (<<1>> \o <<>>)))) = <<1, 1, 1, 0, 1>>
<1> DEFINE a0 == <<0>>
           a1 == <<1>>
           a2 == <<0, 1>>
           a3 == <<1, 0, 1>>
           a4 == <<1, 1, 0, 1>>
           a5 == <<1, 1, 1, 0, 1>>
           b2 == <<1, 0>>
<1>0. 0 \in Bit /\ 1 \in Bit
  BY DEF Bit
<1>1. <<0>> \o <<>> = a0 /\ <<1>> \o <<>> = a1
  OBVIOUS
<1>2. /\ a0 \in Seq(Bit) /\ Len(a0) = 1 /\ a0[1] = 0
      /\ a1 \in Seq(Bit) /\ Len(a1) = 1 /\ a1[1] = 1
  BY <1>0
<1>3. a2 \in Seq(Bit) /\ Len(a2) = 2 /\ a2[1] = 0 /\ a2[2] = 1
  BY <1>0
<1>4. a3 \in Seq(Bit) /\ Len(a3) = 3 /\ a3[1] = 1 /\ a3[2] = 0 /\ a3[3] = 1
  BY <1>0
<1>5. a4 \in Seq(Bit) /\ Len(a4) = 4 /\ a4[1] = 1 /\ a4[2] = 1 /\ a4[3] = 0 /\ a4[4] = 1
  BY <1>0
<1>6. a5 \in Seq(Bit) /\ Len(a5) = 5 /\ a5[1] = 1 /\ a5[2] = 1 /\ a5[3] = 1 /\ a5[4] = 0 /\ a5[5] = 1
  BY <1>0
<1>7. b2 \in Seq(Bit) /\ Len(b2) = 2 /\ b2[1] = 1 /\ b2[2] = 0
  BY <1>0
<1> HIDE DEF a0, a1, a2, a3, a4, a5, b2
<1>8. <<1>> \o a0 = b2
  <2>1. Len(b2) = Len(a0) + 1 /\ \A i \in 1..Len(a0) : b2[i + 1] = a0[i]
    BY <1>2, <1>7
  <2> QED BY <1>0, <1>2, <1>7, <2>1, Before
<1>9. <<0>> \o a1 = a2
  <2>1. Len(a2) = Len(a1) + 1 /\ \A i \in 1..Len(a1) : a2[i + 1] = a1[i]
    BY <1>2, <1>3
  <2> QED BY <1>0, <1>2, <1>3, <2>1, Before
<1>10. <<1>> \o a2 = a3
  <2>1. Len(a3) = Len(a2) + 1 /\ \A i \in 1..Len(a2) : a3[i + 1] = a2[i]
    BY <1>3, <1>4
  <2> QED BY <1>0, <1>3, <1>4, <2>1, Before
<1>11. <<1>> \o a3 = a4
  <2>1. Len(a4) = Len(a3) + 1 /\ \A i \in 1..Len(a3) : a4[i + 1] = a3[i]
    BY <1>4, <1>5
  <2> QED BY <1>0, <1>4, <1>5, <2>1, Before
<1>12. <<1>> \o a4 = a5
  <2>1. Len(a5) = Len(a4) + 1 /\ \A i \in 1..Len(a4) : a5[i + 1] = a4[i]
    BY <1>5, <1>6
  <2> QED BY <1>0, <1>5, <1>6, <2>1, Before
<1> QED BY <1>1, <1>8, <1>9, <1>10, <1>11, <1>12 DEF a5, b2

\* The places of the comet and the ring in the feed.
LEMMA FeedIs ==
    ASSUME NEW comet \in Seq(Bit), NEW ring \in Seq(Bit), NEW feed, feed = Feed(comet, 0, 1, ring)
    PROVE  /\ IsNoun(feed)
           /\ AtomAt(Key(feed), <<1, 0>>) = Trim(comet)
           /\ AtomAt(Key(feed), <<1, 1, 1, 0, 1>>) = Trim(ring)
<1> DEFINE e == <<>>
           zero == Number(0)
           one == Number(1)
           r1 == Atom(ring)
           r2 == Cell(one, r1)
           r3 == Cell(r2, zero)
           r4 == Cell(zero, r3)
           c1 == Atom(comet)
           r5 == Cell(c1, r4)
           h == Cell(Number(2), zero)
<1>1. IsNoun(zero) /\ IsNoun(one) /\ IsNoun(Number(2))
  BY NumberIsNoun
<1>2. /\ IsNoun(r1) /\ e \in DOMAIN r1 /\ r1[e] = ring
      /\ IsNoun(c1) /\ e \in DOMAIN c1 /\ c1[e] = comet
  BY NounOfAtom
<1>3. feed = Cell(h, r5)
  BY DEF Feed
<1> HIDE DEF zero, one, r1, c1, e
<1>4. IsNoun(h)
  BY <1>1, NounOfCell
<1> HIDE DEF h
<1>5. IsNoun(r2)
  BY <1>1, <1>2, NounOfCell
<1>6. <<1>> \o e \in DOMAIN r2 /\ r2[<<1>> \o e] = ring
  BY <1>1, <1>2, CellIs
<1> HIDE DEF r2
<1>7. IsNoun(r3)
  BY <1>1, <1>5, NounOfCell
<1>8. <<0>> \o (<<1>> \o e) \in DOMAIN r3 /\ r3[<<0>> \o (<<1>> \o e)] = ring
  BY <1>1, <1>5, <1>6, CellIs
<1> HIDE DEF r3
<1>9. IsNoun(r4)
  BY <1>1, <1>7, NounOfCell
<1>10. <<1>> \o (<<0>> \o (<<1>> \o e)) \in DOMAIN r4 /\ r4[<<1>> \o (<<0>> \o (<<1>> \o e))] = ring
  BY <1>1, <1>7, <1>8, CellIs
<1> HIDE DEF r4
<1>11. IsNoun(r5)
  BY <1>2, <1>9, NounOfCell
<1> DEFINE p4 == <<1>> \o (<<0>> \o (<<1>> \o e))
<1> HIDE DEF p4
<1>12. <<1>> \o p4 \in DOMAIN r5 /\ r5[<<1>> \o p4] = ring
  BY <1>2, <1>9, <1>10, CellIs DEF p4
<1>13. <<0>> \o e \in DOMAIN r5 /\ r5[<<0>> \o e] = comet
  BY <1>2, <1>9, CellIs
<1> HIDE DEF r5
<1>14. IsNoun(feed)
  BY <1>3, <1>4, <1>11, NounOfCell
<1> DEFINE p5 == <<1>> \o p4
           q5 == <<0>> \o e
<1> HIDE DEF p5, q5
<1>15. <<1>> \o p5 \in DOMAIN feed /\ feed[<<1>> \o p5] = ring
  BY <1>3, <1>4, <1>11, <1>12, CellIs DEF p5
<1>16. <<1>> \o q5 \in DOMAIN feed /\ feed[<<1>> \o q5] = comet
  BY <1>3, <1>4, <1>11, <1>13, CellIs DEF q5
<1>17. <<1>> \o p5 = <<1, 1, 1, 0, 1>>
  BY Paths DEF p5, p4, e
<1>18. <<1>> \o q5 = <<1, 0>>
  BY Paths DEF q5, e
<1>19. AtomAt(Key(feed), <<1>> \o p5) = Trim(ring)
  BY <1>14, <1>15, AtomAtIs
<1>20. AtomAt(Key(feed), <<1>> \o q5) = Trim(comet)
  BY <1>14, <1>16, AtomAtIs
<1> QED BY <1>14, <1>17, <1>18, <1>19, <1>20

\* The coin a text that is accepted names.
LEMMA TextIs ==
    ASSUME NEW t \in Texts, Accepts(t)
    PROVE  /\ t.vout \in Nat
           /\ t.txid.digits \in Seq(Bit)
           /\ t.txid = [length |-> TxidHex, prefixed |-> FALSE, hex |-> TRUE, digits |-> t.txid.digits]
           /\ InWireOrder(t.txid.digits) \in Seq(Bit)
           /\ Len(InWireOrder(t.txid.digits)) = TxidHex * HexBits
           /\ \E n \in Nat : TxidHex * HexBits = n * ByteBits /\ Len(t.txid.digits) = n * ByteBits
<1>1. /\ t \in Text /\ TxidHex \in Nat /\ HexBits \in Nat /\ ((TxidHex * HexBits) % ByteBits) = 0
      /\ t.txid.hex => Len(t.txid.digits) = Unprefixed(t.txid) * HexBits
      /\ ByteBits \in Nat \ {0}
  BY AttestationAssumption, BitsAssumption
<1>2. t.vout \in Nat /\ t.txid \in [length : Nat, prefixed : BOOLEAN, hex : BOOLEAN, digits : Seq(Bit)]
  BY <1>1 DEF Accepts, Text
<1>3. t.txid.length = TxidHex /\ ~t.txid.prefixed /\ t.txid.hex
  BY DEF Accepts
<1>4. t.txid.digits \in Seq(Bit) /\ t.txid.prefixed = FALSE /\ t.txid.hex = TRUE
  BY <1>2, <1>3
<1>5. t.txid = [length |-> TxidHex, prefixed |-> FALSE, hex |-> TRUE, digits |-> t.txid.digits]
  BY <1>2, <1>3, <1>4
<1>6. Unprefixed(t.txid) = TxidHex
  BY <1>1, <1>3 DEF Unprefixed
<1>7. Len(t.txid.digits) = TxidHex * HexBits
  BY <1>1, <1>3, <1>6
<1> DEFINE w == TxidHex * HexBits
           n == w \div ByteBits
<1>8. w \in Nat /\ (w % ByteBits) = 0
  BY <1>1
<1>9. n \in Nat /\ w = n * ByteBits
  <2> HIDE DEF w
  <2>1. n \in Nat /\ w = n * ByteBits + (w % ByteBits)
    BY <1>1, <1>8, Division
  <2>2. n * ByteBits \in Nat
    BY <1>1, <2>1
  <2> QED BY <1>8, <2>1, <2>2
<1> HIDE DEF n
<1>10. InWireOrder(t.txid.digits) \in Seq(Bit) /\ Len(InWireOrder(t.txid.digits)) = n * ByteBits
  BY <1>4, <1>7, <1>9, WireType
<1> QED BY <1>2, <1>4, <1>5, <1>7, <1>9, <1>10

\* What holds of a job when its comet is mined.
Mining == text \in Texts /\ Accepts(text)
\* And when it is: some ring was found to have the required star.
MinedIt == Mining /\ \E ring \in Rings : Found(ring) /\ mined = Mined(ring, JobTweak)

\* What the miner found is a spawn that urb-core admits for the coin, with the pass of
\* the ring in the feed.
LEMMA JobIs ==
    ASSUME MinedIt
    PROVE  /\ IsSpawn(SpawnOfJob)
           /\ mined.comet \in Seq(Bit) /\ Len(mined.comet) = CometBits
           /\ mined.ring \in Seq(Bit)
           /\ Admits(mined.comet, SpawnRead(SpawnOfJob), Wire, text.vout)
           /\ PassOfRing(Trim(mined.ring)) = SpawnRead(SpawnOfJob).pass
<1> DEFINE tweak == JobTweak
           point(r) == PointOf(SigningSeed(r))
           s == SpawnRead(SpawnOfJob)
<1>1. PICK ring \in Rings : Found(ring) /\ mined = Mined(ring, tweak)
  BY DEF MinedIt
<1> DEFINE sPub == PubKey(SigningSeed(ring))
           cPub == PubKey(CryptSeed(ring))
           pass == PassAtom(sPub, cPub, tweak)
<1>2. text.vout \in Nat /\ Wire \in Seq(Bit)
  BY TextIs DEF MinedIt, Mining, Wire
<1>3. tweak \in Seq(Bit) /\ UrbTweak(Wire, text.vout, 0) = tweak
  BY <1>2, TweakType DEF JobTweak
<1> HIDE DEF tweak
<1>4. ring \in Seq(Bit) /\ Len(ring) = 2 * HashBits
  BY AttestationAssumption
<1>5. /\ mined.comet = Candidate(ring, tweak) /\ mined.pass = pass
      /\ mined.ring = RingAtom(ring, tweak)
  BY <1>1 DEF Mined
<1>6. /\ sPub \in Seq(Bit) /\ Len(sPub) = HashBits /\ cPub \in Seq(Bit) /\ Len(cPub) = HashBits
      /\ sPub = Compressed(PointOf(SigningSeed(ring)))
  BY PubKeyType DEF PubKey
<1> HIDE DEF sPub, cPub
<1>7. pass \in Seq(Bit)
  BY <1>3, <1>6, PassAtomType
<1>8. /\ ReadPass(Trim(pass)).tag = PassTag /\ ReadPass(Trim(pass)).sPub = sPub
      /\ ReadPass(Trim(pass)).dat = Trim(tweak)
  BY <1>3, <1>6, PassReads
<1> HIDE DEF pass
<1>9. /\ mined.comet \in Seq(Bit) /\ Len(mined.comet) = Half
      /\ mined.comet = UrbComet(sPub, tweak)
  <2>1. PointOf(SigningSeed(ring)) \in 0..(CurveOrder - 1)
    BY PointOfType
  <2> QED BY <1>5, <1>6, <2>1, UrbCometIs DEF Candidate
<1>10. /\ SpawnOfJob.pass = pass /\ SpawnOfJob.fief = None /\ SpawnOfJob.off = 0 /\ SpawnOfJob.tej = 0
       /\ SpawnOfJob.spkh = Spkh(FundingSpk, text.sats)
       /\ SpawnOfJob.vout = IF text.vout = 0 THEN None ELSE [index |-> text.vout]
  BY <1>5 DEF SpawnOfJob
<1>11. IsSpawn(SpawnOfJob)
  <2>1. SpawnOfJob.spkh \in Seq(Bit) /\ Len(SpawnOfJob.spkh) = HashBits
    BY <1>10, HashType DEF Spkh
  <2>2. SpawnOfJob.vout = None \/ SpawnOfJob.vout \in [index : Nat]
    BY <1>2, <1>10
  <2> QED BY <1>7, <1>10, <2>1, <2>2 DEF IsSpawn
<1>12. s.op = 1 /\ s.pass = Trim(pass) /\ s.off = 0
  BY <1>10 DEF SpawnRead
<1> HIDE DEF s
<1>13. Star(mined.comet) = RequiredStar
  BY <1>1, <1>5 DEF Found, tweak
<1>14. Admits(mined.comet, s, Wire, text.vout)
  BY <1>3, <1>8, <1>9, <1>12, <1>13 DEF Admits
<1>15. mined.ring \in Seq(Bit) /\ PassOfRing(Trim(mined.ring)) = s.pass
  BY <1>3, <1>4, <1>5, <1>12, RingReads DEF pass, sPub, cPub
<1>16. CometBits = Half
  BY DEF CometBits, Half
<1> QED BY <1>9, <1>11, <1>14, <1>15, <1>16 DEF s

\* Nor does another coin get the comet admitted.
LEMMA OneCoin ==
    ASSUME Mining, NEW s, s.off = 0, NEW comet, Admits(comet, s, Wire, text.vout),
           NEW t \in Texts, Accepts(t), Admits(comet, s, InWireOrder(t.txid.digits), t.vout)
    PROVE  t.txid = text.txid /\ t.vout = text.vout
<1> DEFINE x == InWireOrder(text.txid.digits)
           y == InWireOrder(t.txid.digits)
<1>1. /\ text.vout \in Nat /\ x \in Seq(Bit) /\ Len(x) = TxidHex * HexBits
      /\ text.txid.digits \in Seq(Bit)
      /\ text.txid = [length |-> TxidHex, prefixed |-> FALSE, hex |-> TRUE, digits |-> text.txid.digits]
  BY TextIs DEF Mining
<1>2. /\ t.vout \in Nat /\ y \in Seq(Bit) /\ Len(y) = TxidHex * HexBits
      /\ t.txid.digits \in Seq(Bit)
      /\ t.txid = [length |-> TxidHex, prefixed |-> FALSE, hex |-> TRUE, digits |-> t.txid.digits]
  BY TextIs
<1> HIDE DEF x, y
<1>3. ReadPass(s.pass).dat = Trim(UrbTweak(x, text.vout, 0))
  BY DEF Admits, Wire, x
<1>4. ReadPass(s.pass).dat = Trim(UrbTweak(y, t.vout, 0))
  BY DEF Admits, y
<1>5. 0 \in Nat
  OBVIOUS
<1>6. UrbTweak(x, text.vout, 0) = Tweak(x, text.vout, 0)
  BY <1>1, <1>5, TweakType
<1>7. UrbTweak(y, t.vout, 0) = Tweak(y, t.vout, 0)
  BY <1>2, <1>5, TweakType
<1>8. x = y /\ text.vout = t.vout
  <2>1. Trim(Tweak(x, text.vout, 0)) = Trim(Tweak(y, t.vout, 0))
    BY <1>3, <1>4, <1>6, <1>7
  <2> QED BY <1>1, <1>2, <2>1, TweakOfOne
<1>9. text.txid.digits = t.txid.digits
  <2>1. PICK n \in Nat : TxidHex * HexBits = n * ByteBits /\ Len(text.txid.digits) = n * ByteBits
    BY TextIs DEF Mining
  <2>2. PICK m \in Nat : TxidHex * HexBits = m * ByteBits /\ Len(t.txid.digits) = m * ByteBits
    BY TextIs
  <2>3. Len(t.txid.digits) = n * ByteBits
    BY <2>1, <2>2
  <2>4. InWireOrder(text.txid.digits) = InWireOrder(t.txid.digits)
    BY <1>8 DEF x, y
  <2> QED BY <1>1, <1>2, <2>1, <2>3, <2>4, WireOfOne
<1> QED BY <1>1, <1>2, <1>8, <1>9

-----------------------------------------------------------------------------
(* The names. *)

\* A function of 1..n, by its values.
LEMMA MadeSequence ==
    ASSUME NEW S, NEW n \in Nat, NEW f, f = [i \in 1..n |-> f[i]], \A i \in 1..n : f[i] \in S
    PROVE  f \in Seq(S) /\ Len(f) = n
<1>1. f \in [1..n -> S]
  OBVIOUS
<1> QED BY <1>1, FunctionIsSequence

\* Turned twice, a sequence is itself.
LEMMA ReverseType ==
    ASSUME NEW bits \in Seq(Bit)
    PROVE  /\ Reverse(bits) \in Seq(Bit) /\ Len(Reverse(bits)) = Len(bits)
           /\ Reverse(Reverse(bits)) = bits
           /\ \A i \in 1..Len(bits) : Reverse(bits)[i] = bits[Len(bits) + 1 - i]
<1> DEFINE n == Len(bits)
           r == Reverse(bits)
           rr == Reverse(r)
<1>1. n \in Nat /\ \A i \in 1..n : bits[i] \in Bit
  OBVIOUS
<1>2. r = [i \in 1..n |-> bits[(n - i) + 1]]
  BY DEF Reverse
<1>3. \A i \in 1..n : (n - i) + 1 \in 1..n /\ (n - i) + 1 = n + 1 - i /\ (n - ((n - i) + 1)) + 1 = i
  BY <1>1
<1>4. r \in [1..n -> Bit]
  BY <1>1, <1>2, <1>3
<1>5. r \in Seq(Bit) /\ Len(r) = n
  BY <1>1, <1>4, FunctionIsSequence
<1>6. \A i \in 1..n : r[i] = bits[n + 1 - i]
  BY <1>2, <1>3
<1>7. rr = [i \in 1..n |-> r[(n - i) + 1]]
  BY <1>5 DEF Reverse
<1> HIDE DEF r
<1>8. \A i \in 1..n : rr[i] = bits[i]
  BY <1>2, <1>3, <1>7
<1>9. rr \in [1..n -> Bit]
  BY <1>3, <1>4, <1>7
<1>10. rr \in Seq(Bit) /\ Len(rr) = n
  BY <1>1, <1>9, FunctionIsSequence
<1> HIDE DEF rr
<1>11. rr = bits
  BY <1>8, <1>10, SeqEqual
<1> QED BY <1>5, <1>6, <1>11 DEF rr, r

\* Zero has no bits.
LEMMA LowOfZero ==
    ASSUME NEW width \in Nat
    PROVE  \A i \in 1..width : Low(width, 0)[i] = 0
<1> DEFINE s == Shifts(0)
           T == {i \in Nat : s[i] = 0}
<1>1. 0 \in Nat
  OBVIOUS
<1>2. s[0] = 0 /\ \A i \in Nat : s[i + 1] = s[i] \div 2
  BY <1>1, ShiftsStep
<1> HIDE DEF s
<1>3. 0 \in T
  BY <1>2
<1>4. ASSUME NEW i \in Nat, i \in T PROVE i + 1 \in T
  BY <1>2, <1>4
<1>5. \A i \in Nat : s[i] = 0
  <2>1. \A i \in Nat : i \in T
    <3> HIDE DEF T
    <3> QED BY <1>3, <1>4, NaturalInduction
  <2> QED BY <2>1
<1>6. \A i \in 1..width : Low(width, 0)[i] = s[i - 1] % 2
  BY <1>1, LowType DEF s
<1> QED BY <1>5, <1>6

\* And bits that are all zero spell zero.
LEMMA ZerosSpellZero ==
    ASSUME NEW bits \in Seq(Bit), \A i \in 1..Len(bits) : bits[i] = 0
    PROVE  NatOf(bits) = 0
<1> DEFINE w == Len(bits)
           zeros == Low(w, 0)
<1>1. w \in Nat /\ 0 \in Nat
  OBVIOUS
<1>2. Fits(0, w)
  <2>1. Fits(0, 0)
    BY ShiftsStep DEF Fits
  <2> QED BY <1>1, <2>1, FitsWider
<1>3. zeros \in Seq(Bit) /\ Len(zeros) = w /\ \A i \in 1..w : zeros[i] = 0
  BY <1>1, LowType, LowOfZero
<1>4. NatOf(zeros) = 0
  BY <1>1, <1>2, NatOfLow
<1> HIDE DEF zeros
<1>5. zeros = bits
  BY <1>3, SeqEqual
<1> QED BY <1>4, <1>5

\* A word spells its bits, and its bits are read back.
LEMMA WordReads ==
    ASSUME NEW bits \in Seq(Bit)
    PROVE  /\ BigEndian(bits) \in Nat /\ BitsOf(Len(bits), BigEndian(bits)) = bits
           /\ BigEndian(bits) = 0 <=> \A i \in 1..Len(bits) : bits[i] = 0
<1> DEFINE r == Reverse(bits)
           n == NatOf(r)
           w == Len(bits)
<1>1. r \in Seq(Bit) /\ Len(r) = w /\ Reverse(r) = bits /\ w \in Nat
  BY ReverseType
<1> HIDE DEF r
<1>2. n \in Nat /\ Low(w, n) = r
  BY <1>1, NatOfBits
<1>3. BigEndian(bits) = n /\ BitsOf(w, n) = Reverse(Low(w, n))
  BY DEF BigEndian, BitsOf, r
<1> HIDE DEF n, w
<1>4. ASSUME n = 0 PROVE \A i \in 1..w : bits[i] = 0
  <2>1. \A i \in 1..w : Low(w, n)[i] = 0
    <3>1. \A i \in 1..w : Low(w, 0)[i] = 0
      BY <1>1, LowOfZero
    <3> QED BY <1>4, <3>1
  <2>2. \A i \in 1..w : r[i] = 0
    BY <1>2, <2>1
  <2>3. \A i \in 1..w : bits[i] = r[w + 1 - i]
    <3>1. \A i \in 1..Len(r) : Reverse(r)[i] = r[Len(r) + 1 - i]
      BY <1>1, ReverseType
    <3> QED BY <1>1, <3>1
  <2> QED BY <1>1, <2>2, <2>3
<1>5. ASSUME \A i \in 1..w : bits[i] = 0 PROVE n = 0
  <2>1. \A i \in 1..w : r[i] = bits[w + 1 - i] /\ w + 1 - i \in 1..w
    BY <1>1, ReverseType DEF r, w
  <2>2. \A i \in 1..Len(r) : r[i] = 0
    BY <1>1, <1>5, <2>1
  <2> QED BY <1>1, <2>2, ZerosSpellZero DEF n
<1> QED BY <1>1, <1>2, <1>3, <1>4, <1>5 DEF w

\* The bits of a window of a bit string.
LEMMA WindowIs ==
    ASSUME NEW bits \in Seq(Bit), NEW a \in Nat, NEW b \in Nat, NEW size \in Nat \ {0},
           b = a + size, b <= Len(bits)
    PROVE  /\ SubSeq(bits, a + 1, b) \in Seq(Bit) /\ Len(SubSeq(bits, a + 1, b)) = size
           /\ \A j \in 1..size : SubSeq(bits, a + 1, b)[j] = bits[a + j]
<1> DEFINE y == SubSeq(bits, a + 1, b)
<1>1. \A k \in (a + 1)..b : bits[k] \in Bit
  OBVIOUS
<1>2. /\ y \in Seq(Bit) /\ Len(y) = IF a + 1 <= b THEN b - (a + 1) + 1 ELSE 0
      /\ \A k \in 1..(b - (a + 1) + 1) : y[k] = bits[(a + 1) + k - 1]
  BY <1>1, SubSeqProperties
<1>3. b - (a + 1) + 1 = size /\ a + 1 <= b /\ \A k \in 1..size : (a + 1) + k - 1 = a + k
  OBVIOUS
<1> HIDE DEF y
<1>4. y \in Seq(Bit) /\ Len(y) = size /\ \A k \in 1..size : y[k] = bits[a + k]
  BY <1>2, <1>3
<1> QED BY <1>4 DEF y

\* The pieces of equal length a bit string is cut into.
LEMMA SliceIs ==
    ASSUME NEW bits \in Seq(Bit), NEW n \in Nat, NEW size \in Nat \ {0}, Len(bits) = n * size,
           NEW i \in 1..n
    PROVE  LET x == SubSeq(bits, (i - 1) * size + 1, i * size)
           IN  /\ x \in Seq(Bit) /\ Len(x) = size
               /\ \A j \in 1..size : x[j] = bits[(i - 1) * size + j]
               /\ (i - 1) * size \in Nat /\ i * size \in Nat /\ i * size <= Len(bits)
<1> DEFINE a == (i - 1) * size
           b == i * size
           w == n * size
           c == (n - i) * size
<1>1. a \in Nat /\ b = a + size /\ c \in Nat /\ w = b + c /\ Len(bits) = w
  OBVIOUS
<1> HIDE DEF a, b, c, w
<1>2. b <= Len(bits) /\ b \in Nat /\ a \in Nat
  BY <1>1
<1>3. /\ SubSeq(bits, a + 1, b) \in Seq(Bit) /\ Len(SubSeq(bits, a + 1, b)) = size
      /\ \A j \in 1..size : SubSeq(bits, a + 1, b)[j] = bits[a + j]
  BY <1>1, <1>2, WindowIs
<1> QED BY <1>2, <1>3 DEF a, b

\* to_mnemonic and to_nym pack bits into words without loss.
LEMMA ChunksBack ==
    ASSUME NEW bits \in Seq(Bit), NEW n \in Nat, Len(bits) = n * WordBits
    PROVE  /\ Chunks(bits) \in Seq(Nat) /\ Len(Chunks(bits)) = n
           /\ Unpacked(Chunks(bits)) = bits
<1> DEFINE size == WordBits
           slice(i) == SubSeq(bits, (i - 1) * size + 1, i * size)
           words == Chunks(bits)
           seqs == [i \in DOMAIN words |-> BitsOf(size, words[i])]
<1>1. size \in Nat \ {0}
  BY WordsAssumption
<1>2. Len(bits) \div size = n
  <2>1. n * size = n * size + 0 /\ 0 \in 0..(size - 1) /\ n * size \in Nat
    BY <1>1
  <2> HIDE DEF size
  <2>2. (n * size) \div size = n
    BY <1>1, <2>1, QuotientIs
  <2> QED BY <2>2 DEF size
<1>3. words = [i \in 1..n |-> BigEndian(slice(i))]
  BY <1>2 DEF Chunks
<1>4. Unpacked(words) = FlattenSeq(seqs)
  BY DEF Unpacked
<1>5. Len(bits) = n * size
  OBVIOUS
<1> HIDE DEF size
<1>6. ASSUME NEW i \in 1..n
      PROVE  /\ slice(i) \in Seq(Bit) /\ Len(slice(i)) = size
             /\ \A j \in 1..size : slice(i)[j] = bits[(i - 1) * size + j]
  BY <1>1, <1>5, SliceIs
<1> HIDE DEF slice
<1>7. ASSUME NEW i \in 1..n
      PROVE  BigEndian(slice(i)) \in Nat /\ BitsOf(size, BigEndian(slice(i))) = slice(i)
  <2>1. slice(i) \in Seq(Bit) /\ Len(slice(i)) = size
    BY <1>6
  <2>2. BigEndian(slice(i)) \in Nat /\ BitsOf(Len(slice(i)), BigEndian(slice(i))) = slice(i)
    BY <2>1, WordReads
  <2> QED BY <2>1, <2>2
<1>8. words \in [1..n -> Nat]
  BY <1>3, <1>7
<1>9. words \in Seq(Nat) /\ Len(words) = n /\ DOMAIN words = 1..n
  BY <1>8, FunctionIsSequence
<1>10. \A i \in 1..n : words[i] = BigEndian(slice(i))
  BY <1>3
<1> HIDE DEF words
<1>11. seqs = [i \in 1..n |-> slice(i)]
  BY <1>7, <1>9, <1>10
<1>12. seqs \in Seq(Seq(Bit)) /\ Len(seqs) = n /\ \A i \in 1..n : seqs[i] = slice(i)
  <2>1. seqs \in [1..n -> Seq(Bit)]
    BY <1>6, <1>11
  <2>2. seqs \in Seq(Seq(Bit)) /\ Len(seqs) = n
    BY <2>1, FunctionIsSequence
  <2> QED BY <1>11, <2>2
<1> HIDE DEF seqs
<1>13. \A i \in 1..Len(seqs) : Len(seqs[i]) = size
  BY <1>6, <1>12
<1> DEFINE flat == FlattenSeq(seqs)
<1>14. /\ flat \in Seq(Bit) /\ Len(flat) = Len(seqs) * size
       /\ \A i \in 1..Len(seqs) : \A j \in 1..size : flat[(i - 1) * size + j] = seqs[i][j]
  BY <1>1, <1>12, <1>13, FlattenEven
<1> HIDE DEF flat
<1>15. Len(flat) = n * size
  BY <1>12, <1>14
<1>16. ASSUME NEW k \in 1..(n * size) PROVE flat[k] = bits[k]
  <2>1. PICK m \in 1..n, j \in 1..size : k = (m - 1) * size + j
    BY <1>1, ByteOf
  <2>2. flat[(m - 1) * size + j] = seqs[m][j]
    BY <1>12, <1>14
  <2>3. seqs[m][j] = bits[(m - 1) * size + j]
    BY <1>6, <1>12
  <2> QED BY <2>1, <2>2, <2>3
<1>17. flat = bits
  <2>1. \A k \in 1..Len(flat) : flat[k] = bits[k]
    BY <1>15, <1>16
  <2> QED BY <1>5, <1>14, <1>15, <2>1, SeqEqual
<1> QED BY <1>4, <1>9, <1>17 DEF flat, words

\* A bit string of whole units, with its checksum, is whole words.
LEMMA CheckedIs ==
    ASSUME NEW bits \in Seq(Bit), NEW u \in Nat, Len(bits) = u * UnitBits
    PROVE  /\ Checked(bits) \in Seq(Bit)
           /\ u * WordsPerUnit \in Nat
           /\ Len(Checked(bits)) = (u * WordsPerUnit) * WordBits
           /\ SubSeq(Checked(bits), 1, u * UnitBits) = bits
<1> DEFINE ones == Checksum(bits)
           sum == [i \in 1..Units(bits) |-> IF i \in ones THEN 1 ELSE 0]
           w == u * UnitBits
<1>1. UnitBits \in Nat \ {0} /\ WordBits \in Nat \ {0} /\ WordsPerUnit * WordBits = UnitBits + 1
  BY WordsAssumption
<1>2. WordsPerUnit \in Nat
  <2>1. (UnitBits + 1) \in Nat /\ ((UnitBits + 1) \div WordBits) \in Nat
    BY <1>1, Division
  <2> QED BY <2>1 DEF WordsPerUnit
<1>3. Units(bits) = u
  <2>1. w = u * UnitBits + 0 /\ 0 \in 0..(UnitBits - 1) /\ w \in Nat
    BY <1>1
  <2>2. w \div UnitBits = u
    <3> HIDE DEF w
    <3> QED BY <1>1, <2>1, QuotientIs
  <2> QED BY <2>2 DEF Units
<1>4. sum \in Seq(Bit) /\ Len(sum) = u
  <2>1. \A i \in 1..u : (IF i \in ones THEN 1 ELSE 0) \in Bit
    BY DEF Bit
  <2>2. sum = [i \in 1..u |-> IF i \in ones THEN 1 ELSE 0]
    BY <1>3
  <2> HIDE DEF ones, sum
  <2>3. sum = [i \in 1..u |-> sum[i]] /\ \A i \in 1..u : sum[i] \in Bit
    BY <2>1, <2>2
  <2> QED BY <2>3, MadeSequence
<1>5. Checked(bits) = bits \o sum
  BY DEF Checked
<1> HIDE DEF sum
<1>6. /\ bits \o sum \in Seq(Bit) /\ Len(bits \o sum) = w + u
      /\ \A i \in 1..w : (bits \o sum)[i] = bits[i]
  BY <1>4
<1>7. w + u = (u * WordsPerUnit) * WordBits
  <2>1. (u * WordsPerUnit) * WordBits = u * (WordsPerUnit * WordBits)
    BY <1>1, <1>2
  <2>2. u * (UnitBits + 1) = w + u
    BY <1>1
  <2> QED BY <1>1, <2>1, <2>2
<1>8. w \in Nat /\ Len(bits) = w
  BY <1>1
<1> HIDE DEF w
<1>9. SubSeq(bits \o sum, 1, w) = bits
  <2> DEFINE y == bits \o sum
  <2>1. y \in Seq(Bit) /\ w <= Len(y) /\ \A i \in 1..w : y[i] = bits[i] /\ y[i] \in Bit
    BY <1>6, <1>8
  <2> HIDE DEF y
  <2>2. /\ SubSeq(y, 1, w) \in Seq(Bit)
        /\ Len(SubSeq(y, 1, w)) = IF 1 <= w THEN w - 1 + 1 ELSE 0
        /\ \A i \in 1..(w - 1 + 1) : SubSeq(y, 1, w)[i] = y[1 + i - 1]
    BY <1>8, <2>1, SubSeqProperties
  <2>3. Len(SubSeq(y, 1, w)) = w /\ \A i \in 1..w : SubSeq(y, 1, w)[i] = bits[i]
    BY <1>8, <2>1, <2>2
  <2>4. SubSeq(y, 1, w) = bits
    BY <1>8, <2>2, <2>3, SeqEqual
  <2> QED BY <2>4 DEF y
<1>10. u * WordsPerUnit \in Nat
  BY <1>2
<1> QED BY <1>5, <1>6, <1>7, <1>9, <1>10 DEF w

\* mnemonyms decode reads from to_nym the comet it names: the leading zero words
\* dropped are those the width tells are missing.
LEMMA NymBack ==
    ASSUME NEW comet \in Seq(Bit), NEW u \in Nat, Len(comet) = u * UnitBits
    PROVE  DecodeNym(ToNym(comet), Len(comet)) = comet
<1> DEFINE width == Len(comet)
           data == Reverse(comet)
           bits == Checked(data)
           n == u * WordsPerUnit
           words == Chunks(bits)
           some == {i \in DOMAIN words : words[i] # 0} \cup {Len(words) + 1}
           from == Min(some)
           nym == ToNym(comet)
           full == (width \div UnitBits) * WordsPerUnit
           padded == [i \in 1..full |-> IF i + Len(nym) <= full THEN 0 ELSE nym[i + Len(nym) - full]]
<1>1. data \in Seq(Bit) /\ Len(data) = u * UnitBits /\ Reverse(data) = comet
  BY ReverseType
<1>2. /\ bits \in Seq(Bit) /\ n \in Nat /\ Len(bits) = n * WordBits
      /\ SubSeq(bits, 1, width) = data
  <2> HIDE DEF data
  <2> QED BY <1>1, CheckedIs
<1>3. words \in Seq(Nat) /\ Len(words) = n /\ Unpacked(words) = bits
  <2> HIDE DEF bits, n
  <2> QED BY <1>2, ChunksBack
<1>4. full = n
  <2>1. width \div UnitBits = u
    <3>1. UnitBits \in Nat \ {0} /\ u * UnitBits \in Nat
      BY WordsAssumption
    <3>2. u * UnitBits = u * UnitBits + 0 /\ 0 \in 0..(UnitBits - 1)
      BY <3>1
    <3>3. \A a \in Nat : a = u * UnitBits => a \div UnitBits = u
      BY <3>1, <3>2, QuotientIs
    <3> QED BY <3>1, <3>3
  <2> QED BY <2>1
<1>5. nym = SubSeq(words, from, Len(words))
  BY DEF ToNym
<1> HIDE DEF words, bits, data, n, full, nym
<1>6. /\ from \in 1..(n + 1) /\ (from <= n => words[from] # 0)
      /\ \A i \in 1..n : i < from => words[i] = 0
  <2>1. some \subseteq Nat /\ some # {} /\ n + 1 \in some /\ DOMAIN words = 1..n
    BY <1>2, <1>3
  <2>2. from \in some /\ \A x \in some : from <= x
    <3> HIDE DEF some
    <3> QED BY <2>1, MinOfNumbers
  <2> HIDE DEF from
  <2>3. from \in 1..(n + 1) /\ (from <= n => words[from] # 0)
    BY <1>2, <1>3, <2>1, <2>2
  <2>4. \A i \in 1..n : i < from => words[i] = 0
    BY <1>2, <2>1, <2>2, <2>3
  <2> QED BY <2>3, <2>4
<1> HIDE DEF from
<1>7. /\ Len(nym) = n + 1 - from
      /\ \A i \in 1..(n + 1 - from) : nym[i] = words[from + i - 1]
  <2>1. \A i \in from..n : words[i] \in Nat
    BY <1>2, <1>3, <1>6
  <2>2. /\ Len(nym) = IF from <= n THEN n - from + 1 ELSE 0
        /\ \A i \in 1..(n - from + 1) : nym[i] = words[from + i - 1]
    <3>1. from \in Int /\ n \in Int /\ nym = SubSeq(words, from, n)
      BY <1>2, <1>3, <1>5, <1>6
    <3>2. /\ Len(SubSeq(words, from, n)) = IF from <= n THEN n - from + 1 ELSE 0
          /\ \A i \in 1..(n - from + 1) : SubSeq(words, from, n)[i] = words[from + i - 1]
      BY <2>1, <3>1, SubSeqProperties
    <3> QED BY <3>1, <3>2
  <2> QED BY <1>2, <1>6, <2>2
<1>8. padded = words
  <2>1. \A i \in 1..n : (IF i + Len(nym) <= full THEN 0 ELSE nym[i + Len(nym) - full]) = words[i]
    <3> SUFFICES ASSUME NEW i \in 1..n
                 PROVE  (IF i + Len(nym) <= full THEN 0 ELSE nym[i + Len(nym) - full]) = words[i]
      OBVIOUS
    <3>1. CASE i < from
      <4>1. i + Len(nym) <= full
        BY <1>2, <1>4, <1>6, <1>7, <3>1
      <4> QED BY <1>6, <3>1, <4>1
    <3>2. CASE i >= from
      <4>1. /\ ~(i + Len(nym) <= full) /\ i + Len(nym) - full = i + 1 - from
            /\ i + 1 - from \in 1..(n + 1 - from) /\ from + (i + 1 - from) - 1 = i
        BY <1>2, <1>4, <1>6, <1>7, <3>2
      <4> QED BY <1>7, <4>1
    <3> QED BY <1>2, <1>6, <3>1, <3>2
  <2>2. words = [i \in 1..n |-> words[i]]
    BY <1>2, <1>3
  <2> QED BY <1>4, <2>1, <2>2
<1>9. Len(nym) <= full
  BY <1>2, <1>4, <1>6, <1>7
<1>10. nym # <<>> => nym[1] # 0
  <2>1. ASSUME nym # <<>> PROVE nym[1] # 0
    <3>1. nym \in Seq(Nat)
      <4>1. \A i \in from..n : words[i] \in Nat
        BY <1>2, <1>3, <1>6
      <4> QED BY <1>2, <1>3, <1>5, <1>6, <4>1, SubSeqProperties
    <3>2. Len(nym) # 0
      BY <2>1, <3>1
    <3>3. from <= n /\ 1 \in 1..(n + 1 - from) /\ from + 1 - 1 = from
      BY <1>2, <1>6, <1>7, <3>2
    <3> QED BY <1>6, <1>7, <3>3
  <2> QED BY <2>1
<1>11. bits = Checked(SubSeq(bits, 1, width))
  BY <1>2 DEF bits
<1> HIDE DEF padded
<1>12. DecodeNym(nym, width) =
         IF Len(nym) <= full /\ (nym # <<>> => nym[1] # 0)
              /\ Unpacked(padded) = Checked(SubSeq(Unpacked(padded), 1, width))
         THEN Reverse(SubSeq(Unpacked(padded), 1, width)) ELSE NoEntropy
  BY DEF DecodeNym, full, padded
<1>13. DecodeNym(nym, width) = Reverse(data)
  BY <1>2, <1>3, <1>8, <1>9, <1>10, <1>11, <1>12
<1> QED BY <1>1, <1>13 DEF nym

\* The bits of the i-th byte of a comet.
LEMMA ByteSlice ==
    ASSUME NEW comet \in Seq(Bit), NEW bytes \in Nat, Len(comet) = bytes * ByteBits,
           NEW i \in 1..bytes
    PROVE  /\ SubSeq(comet, (i - 1) * ByteBits + 1, i * ByteBits) \in Seq(Bit)
           /\ Len(SubSeq(comet, (i - 1) * ByteBits + 1, i * ByteBits)) = ByteBits
           /\ \A j \in 1..ByteBits :
                SubSeq(comet, (i - 1) * ByteBits + 1, i * ByteBits)[j]
                    = comet[(i - 1) * ByteBits + j]
           /\ i * ByteBits <= Len(comet) /\ i * ByteBits \in Nat
<1> DEFINE a == (i - 1) * ByteBits
           b == i * ByteBits
           w == bytes * ByteBits
           c == (bytes - i) * ByteBits
<1>1. ByteBits \in Nat \ {0}
  BY BitsAssumption
<1>2. a \in Nat /\ b = a + ByteBits /\ c \in Nat /\ w = b + c /\ Len(comet) = w
  BY <1>1
<1> HIDE DEF a, b, c, w
<1>3. b <= Len(comet) /\ b \in Nat
  BY <1>1, <1>2
<1>4. /\ SubSeq(comet, a + 1, b) \in Seq(Bit) /\ Len(SubSeq(comet, a + 1, b)) = ByteBits
      /\ \A j \in 1..ByteBits : SubSeq(comet, a + 1, b)[j] = comet[a + j]
  BY <1>1, <1>2, <1>3, WindowIs
<1> QED BY <1>3, <1>4 DEF a, b

\* The i-th byte of a comet and the bits another program reads of it.
LEMMA ByteIs ==
    ASSUME NEW comet \in Seq(Bit), NEW bytes \in Nat, Len(comet) = bytes * ByteBits,
           NEW i \in 1..bytes
    PROVE  LET n == ByteAt(comet, ByteBits, i)
               bits == BitsOf(ByteBits, n)
           IN  /\ n \in Nat /\ bits \in Seq(Bit) /\ Len(bits) = ByteBits
               /\ \A j \in 1..ByteBits : bits[ByteBits + 1 - j] = comet[(i - 1) * ByteBits + j]
               /\ n = 0 <=> \A j \in 1..ByteBits : comet[(i - 1) * ByteBits + j] = 0
<1> DEFINE b == ByteBits
           slice == SubSeq(comet, (i - 1) * b + 1, i * b)
           turned == Reverse(slice)
           n == ByteAt(comet, b, i)
           bits == BitsOf(b, n)
<1>1. b \in Nat \ {0}
  BY BitsAssumption
<1>2. /\ slice \in Seq(Bit) /\ Len(slice) = b
      /\ \A j \in 1..b : slice[j] = comet[(i - 1) * b + j]
      /\ i * b <= Len(comet) /\ i * b \in Nat
  BY ByteSlice
<1>3. n = BigEndian(turned)
  <2>1. b * (i - 1) = (i - 1) * b /\ b * i = i * b
    BY <1>1
  <2>2. ~(Len(comet) < b * i)
    BY <1>2, <2>1
  <2> QED BY <2>1, <2>2 DEF ByteAt
<1> HIDE DEF slice, n
<1>4. /\ turned \in Seq(Bit) /\ Len(turned) = b
      /\ \A j \in 1..b : turned[j] = slice[b + 1 - j]
  BY <1>2, ReverseType
<1> HIDE DEF turned, b
<1>5. /\ n \in Nat /\ BitsOf(b, n) = turned
      /\ n = 0 <=> \A j \in 1..b : turned[j] = 0
  BY <1>3, <1>4, WordReads
<1>6. \A j \in 1..b : b + 1 - j \in 1..b /\ b + 1 - (b + 1 - j) = j
  BY <1>1
<1>7. \A j \in 1..b : turned[b + 1 - j] = comet[(i - 1) * b + j]
  BY <1>2, <1>4, <1>6
<1>8. n = 0 <=> \A j \in 1..b : comet[(i - 1) * b + j] = 0
  <2>1. ASSUME \A j \in 1..b : comet[(i - 1) * b + j] = 0, NEW j \in 1..b PROVE turned[j] = 0
    <3>1. b + 1 - j \in 1..b /\ turned[b + 1 - (b + 1 - j)] = comet[(i - 1) * b + (b + 1 - j)]
      BY <1>6, <1>7
    <3> QED BY <1>6, <2>1, <3>1
  <2> QED BY <1>5, <1>6, <1>7, <2>1
<1> QED BY <1>4, <1>5, <1>7, <1>8 DEF b, n

\* The lowest s bytes of a comet, the most significant first.
Turned(bits, comet, s) ==
    /\ bits \in Seq(Bit) /\ Len(bits) = s * ByteBits
    /\ \A i \in 1..s : \A j \in 1..ByteBits :
         bits[(s - i) * ByteBits + (ByteBits + 1 - j)] = comet[(i - 1) * ByteBits + j]

\* Where they are all of it.
ZeroAbove(comet, bytes, s) ==
    \A i \in 1..bytes : i > s => \A j \in 1..ByteBits : comet[(i - 1) * ByteBits + j] = 0

\* Turned again, and with zeros above, they are the comet.
LEMMA BytesTurned ==
    ASSUME NEW comet \in Seq(Bit), NEW bytes \in Nat, Len(comet) = bytes * ByteBits,
           NEW s \in Nat, s <= bytes, NEW bits, Turned(bits, comet, s), ZeroAbove(comet, bytes, s)
    PROVE  [i \in 1..Len(comet) |-> IF i <= Len(bits) THEN bits[Len(bits) + 1 - i] ELSE 0] = comet
<1> DEFINE b == ByteBits
           read == [i \in 1..Len(comet) |->
                      IF i <= Len(bits) THEN bits[Len(bits) + 1 - i] ELSE 0]
<1>1. b \in Nat \ {0}
  BY BitsAssumption
<1>2. /\ Len(comet) = bytes * b /\ bits \in Seq(Bit) /\ Len(bits) = s * b /\ Len(comet) \in Nat
      /\ \A i \in 1..s : \A j \in 1..b :
           bits[(s - i) * b + (b + 1 - j)] = comet[(i - 1) * b + j]
      /\ \A i \in 1..bytes : i > s => \A j \in 1..b : comet[(i - 1) * b + j] = 0
  BY DEF Turned, ZeroAbove
<1> HIDE DEF b
<1>3. ASSUME NEW x \in 1..Len(comet)
      PROVE  (IF x <= Len(bits) THEN bits[Len(bits) + 1 - x] ELSE 0) = comet[x]
  <2>1. x \in 1..(bytes * b)
    BY <1>2
  <2>2. PICK i \in 1..bytes, j \in 1..b : x = (i - 1) * b + j
    BY <1>1, <2>1, ByteOf
  <2>3. CASE i <= s
    <3> DEFINE before == (i - 1) * b
               after == (s - i) * b
               all == s * b
    <3>1. before \in Nat /\ after \in Nat /\ all = before + b + after
      BY <1>1, <2>3
    <3>2. x = before + j /\ Len(bits) = all
      BY <1>2, <2>2
    <3>3. bits[after + (b + 1 - j)] = comet[before + j]
      BY <1>2, <2>3
    <3> HIDE DEF before, after, all
    <3>4. x <= Len(bits) /\ Len(bits) + 1 - x = after + (b + 1 - j)
      BY <1>1, <3>1, <3>2
    <3> QED BY <3>2, <3>3, <3>4
  <2>4. CASE i > s
    <3> DEFINE before == (i - 1) * b
               gap == (i - 1 - s) * b
               all == s * b
    <3>1. gap \in Nat /\ before = all + gap /\ all \in Nat
      BY <1>1, <2>4
    <3>2. x = before + j /\ Len(bits) = all
      BY <1>2, <2>2
    <3>3. comet[before + j] = 0
      BY <1>2, <2>4
    <3> HIDE DEF before, gap, all
    <3>4. ~(x <= Len(bits))
      BY <1>1, <3>1, <3>2
    <3> QED BY <3>2, <3>3, <3>4
  <2> QED BY <2>3, <2>4
<1>4. read \in Seq(Bit) /\ Len(read) = Len(comet)
  <2>1. \A x \in 1..Len(comet) : comet[x] \in Bit
    OBVIOUS
  <2>2. read \in [1..Len(comet) -> Bit]
    BY <1>3, <2>1
  <2> QED BY <1>2, <2>2, FunctionIsSequence
<1>5. \A x \in 1..Len(comet) : read[x] = comet[x]
  BY <1>3
<1> HIDE DEF read
<1>6. read = comet
  BY <1>4, <1>5, SeqEqual
<1> QED BY <1>6 DEF read

\* The syllables and dashes of an @p of w words.
Syllables == [part : {"prefix", "suffix", "dash"}, index : Nat]

\* The @p of the lowest w words of a comet, the last without a dash after it.
PatpOf(patp, comet, w) ==
    /\ patp \in Seq(Syllables) /\ Len(patp) = 3 * w - 1
    /\ \A k \in 1..w :
         /\ patp[3 * k - 2] = Syllable("prefix", ByteAt(comet, ByteBits, 2 * (w + 1 - k)))
         /\ patp[3 * k - 1] = Syllable("suffix", ByteAt(comet, ByteBits, 2 * (w + 1 - k) - 1))
         /\ k < w => patp[3 * k] = IF (w - k) % PatpGroup = 0 THEN DoubleDash ELSE Dash

\* A dash after a word.
LEMMA Third ==
    ASSUME NEW S, NEW x \in S, NEW y \in S, NEW z \in S
    PROVE  /\ <<x, y>> \o <<z>> = <<x, y, z>>
           /\ <<x, y>> \in Seq(S) /\ Len(<<x, y>>) = 2 /\ <<x, y>>[1] = x /\ <<x, y>>[2] = y
           /\ <<x, y, z>> \in Seq(S) /\ Len(<<x, y, z>>) = 3
           /\ <<x, y, z>>[1] = x /\ <<x, y, z>>[2] = y /\ <<x, y, z>>[3] = z
<1> DEFINE a == <<x, y>>
           b == <<z>>
           c == <<x, y, z>>
<1>1. a \in Seq(S) /\ Len(a) = 2 /\ a[1] = x /\ a[2] = y
  OBVIOUS
<1>2. b \in Seq(S) /\ Len(b) = 1 /\ b[1] = z
  OBVIOUS
<1>3. c \in Seq(S) /\ Len(c) = 3 /\ c[1] = x /\ c[2] = y /\ c[3] = z
  OBVIOUS
<1> HIDE DEF a, b, c
<1>4. /\ a \o b \in Seq(S) /\ Len(a \o b) = Len(a) + Len(b)
      /\ \A i \in 1..(Len(a) + Len(b)) : (a \o b)[i] = IF i <= Len(a) THEN a[i] ELSE b[i - Len(a)]
  BY <1>1, <1>2, ConcatProperties
<1>5. Len(a \o b) = 3 /\ (a \o b)[1] = x /\ (a \o b)[2] = y /\ (a \o b)[3] = z
  BY <1>1, <1>2, <1>4
<1>6. \A i \in 1..Len(c) : (a \o b)[i] = c[i]
  BY <1>3, <1>5
<1>7. a \o b = c
  BY <1>3, <1>4, <1>5, <1>6, SeqEqual
<1> QED BY <1>1, <1>3, <1>7 DEF a, b, c

\* to_patp of a comet of more than one byte: whole words, the last without a dash.
LEMMA PatpIs ==
    ASSUME NEW comet \in Seq(Bit), NEW bytes \in Nat, Len(comet) = bytes * ByteBits,
           NEW w \in Nat \ {0}, 2 * w <= bytes, NEW patp,
           patp = FlattenSeq([k \in 1..w |->
                    LET i == w + 1 - k
                        word == <<Syllable("prefix", ByteAt(comet, ByteBits, 2 * i)),
                                  Syllable("suffix", ByteAt(comet, ByteBits, 2 * i - 1))>>
                    IN  IF i = 1 THEN word
                        ELSE word \o <<IF (i - 1) % PatpGroup = 0 THEN DoubleDash ELSE Dash>>])
    PROVE  PatpOf(patp, comet, w)
<1> DEFINE S == Syllables
           first(k) == Syllable("prefix", ByteAt(comet, ByteBits, 2 * (w + 1 - k)))
           second(k) == Syllable("suffix", ByteAt(comet, ByteBits, 2 * (w + 1 - k) - 1))
           third(k) == IF (w - k) % PatpGroup = 0 THEN DoubleDash ELSE Dash
           part(k) == IF k = w THEN <<first(k), second(k)>> ELSE <<first(k), second(k), third(k)>>
           seqs == [k \in 1..w |-> part(k)]
           off == [k \in 0..w |-> IF k < w THEN 3 * k ELSE 3 * w - 1]
<1>1. ASSUME NEW k \in 1..w PROVE first(k) \in S /\ second(k) \in S /\ third(k) \in S
  <2>1. 2 * (w + 1 - k) \in 1..bytes /\ 2 * (w + 1 - k) - 1 \in 1..bytes
    OBVIOUS
  <2>2. ByteAt(comet, ByteBits, 2 * (w + 1 - k)) \in Nat
    BY <2>1, ByteIs
  <2>3. ByteAt(comet, ByteBits, 2 * (w + 1 - k) - 1) \in Nat
    BY <2>1, ByteIs
  <2>4. third(k) \in S
    BY DEF Dash, DoubleDash, Syllables
  <2> QED BY <2>2, <2>3, <2>4 DEF Syllable, Syllables
<1>2. patp = FlattenSeq(seqs)
  <2>1. ASSUME NEW k \in 1..w
        PROVE  (LET i == w + 1 - k
                    word == <<Syllable("prefix", ByteAt(comet, ByteBits, 2 * i)),
                              Syllable("suffix", ByteAt(comet, ByteBits, 2 * i - 1))>>
                IN  IF i = 1 THEN word
                    ELSE word \o <<IF (i - 1) % PatpGroup = 0 THEN DoubleDash ELSE Dash>>) = part(k)
    <3>1. w + 1 - k = 1 <=> k = w
      OBVIOUS
    <3>2. (w + 1 - k) - 1 = w - k
      OBVIOUS
    <3>3. <<first(k), second(k)>> \o <<third(k)>> = <<first(k), second(k), third(k)>>
      <4> HIDE DEF first, second, third, S
      <4> QED BY <1>1, Third
    <3> QED BY <3>1, <3>2, <3>3
  <2> QED BY <2>1
<1> HIDE DEF first, second, third, S
<1>3. ASSUME NEW k \in 1..w
      PROVE  /\ part(k) \in Seq(S) /\ Len(part(k)) = IF k = w THEN 2 ELSE 3
             /\ part(k)[1] = first(k) /\ part(k)[2] = second(k)
             /\ k < w => part(k)[3] = third(k)
  BY <1>1, Third
<1> HIDE DEF part
<1>4. seqs \in Seq(Seq(S)) /\ Len(seqs) = w /\ \A k \in 1..w : seqs[k] = part(k)
  <2>1. seqs \in [1..w -> Seq(S)]
    BY <1>3
  <2>2. seqs \in Seq(Seq(S)) /\ Len(seqs) = w
    BY <2>1, FunctionIsSequence
  <2> QED BY <2>2
<1> HIDE DEF seqs
<1>5. Offsets(off, seqs)
  <2>1. off \in [0..w -> Nat] /\ off[0] = 0
    OBVIOUS
  <2>2. ASSUME NEW k \in 1..w PROVE off[k] = off[k - 1] + Len(seqs[k])
    <3>1. Len(seqs[k]) = IF k = w THEN 2 ELSE 3
      BY <1>3, <1>4
    <3>2. k - 1 \in 0..w /\ k \in 0..w /\ k - 1 < w
      OBVIOUS
    <3>3. off[k - 1] = 3 * (k - 1) /\ off[k] = IF k < w THEN 3 * k ELSE 3 * w - 1
      BY <3>2
    <3> HIDE DEF off
    <3> QED BY <3>1, <3>3
  <2> QED BY <1>4, <2>1, <2>2 DEF Offsets
<1>6. \A k \in 1..w : off[k - 1] = 3 * (k - 1)
  OBVIOUS
<1>7. off[w] = 3 * w - 1
  OBVIOUS
<1> HIDE DEF off
<1>8. /\ patp \in Seq(S) /\ Len(patp) = 3 * w - 1
      /\ \A k \in 1..w : \A j \in 1..Len(seqs[k]) : patp[3 * (k - 1) + j] = seqs[k][j]
  <2>1. FlattenSeq(seqs) \in Seq(S) /\ Len(FlattenSeq(seqs)) = off[Len(seqs)]
    BY <1>4, <1>5, FlattenAt
  <2>2. ASSUME NEW k \in 1..w, NEW j \in 1..Len(seqs[k])
        PROVE  FlattenSeq(seqs)[off[k - 1] + j] = seqs[k][j]
    <3>1. Placed(FlattenSeq(seqs), off, seqs)
      BY <1>4, <1>5, FlattenAt
    <3> QED BY <1>4, <3>1 DEF Placed
  <2> QED BY <1>2, <1>4, <1>6, <1>7, <2>1, <2>2
<1>9. ASSUME NEW k \in 1..w
      PROVE  /\ patp[3 * k - 2] = first(k) /\ patp[3 * k - 1] = second(k)
             /\ k < w => patp[3 * k] = third(k)
  <2>1. Len(seqs[k]) = (IF k = w THEN 2 ELSE 3) /\ seqs[k] = part(k)
    BY <1>3, <1>4
  <2>2. 3 * (k - 1) + 1 = 3 * k - 2 /\ 3 * (k - 1) + 2 = 3 * k - 1 /\ 3 * (k - 1) + 3 = 3 * k
    OBVIOUS
  <2>3. \A j \in 1..Len(seqs[k]) : patp[3 * (k - 1) + j] = part(k)[j]
    BY <1>8, <2>1
  <2>4. patp[3 * k - 2] = first(k)
    <3>1. 1 \in 1..Len(seqs[k])
      BY <2>1
    <3> QED BY <1>3, <2>2, <2>3, <3>1
  <2>5. patp[3 * k - 1] = second(k)
    <3>1. 2 \in 1..Len(seqs[k])
      BY <2>1
    <3> QED BY <1>3, <2>2, <2>3, <3>1
  <2>6. ASSUME k < w PROVE patp[3 * k] = third(k)
    <3>1. 3 \in 1..Len(seqs[k])
      BY <2>1, <2>6
    <3> QED BY <1>3, <2>2, <2>3, <2>6, <3>1
  <2> QED BY <2>4, <2>5, <2>6
<1> QED BY <1>8, <1>9 DEF PatpOf, first, second, third, S

\* Each of its items is a prefix, a suffix or a dash.
LEMMA ItemOf ==
    ASSUME NEW w \in Nat \ {0}, NEW m \in 1..(3 * w - 1)
    PROVE  \E k \in 1..w : m = 3 * k - 2 \/ m = 3 * k - 1 \/ (m = 3 * k /\ k < w)
<1> DEFINE k == (m + 2) \div 3
           r == (m + 2) % 3
<1>1. k \in Nat /\ r \in 0..2 /\ m + 2 = k * 3 + r
  BY Division
<1> HIDE DEF k, r
<1>2. k \in 1..w
  BY <1>1
<1>3. m = 3 * k - 2 \/ m = 3 * k - 1 \/ (m = 3 * k /\ k < w)
  BY <1>1
<1> QED BY <1>2, <1>3

\* What urb-ob reads of the syllables.
SyllableBits(patp) ==
    FlattenSeq([i \in DOMAIN patp |->
        IF patp[i].part = "dash" THEN <<>> ELSE BitsOf(ByteBits, patp[i].index)])

\* Of an @p it reads the bytes in their order.
LEMMA PatpReads ==
    ASSUME NEW comet \in Seq(Bit), NEW bytes \in Nat, Len(comet) = bytes * ByteBits,
           NEW w \in Nat \ {0}, 2 * w <= bytes, NEW patp, PatpOf(patp, comet, w)
    PROVE  Turned(SyllableBits(patp), comet, 2 * w)
<1> DEFINE b == ByteBits
           n == 3 * w - 1
           byte(i) == BitsOf(b, ByteAt(comet, b, i))
           seqs == [i \in DOMAIN patp |->
                      IF patp[i].part = "dash" THEN <<>> ELSE BitsOf(b, patp[i].index)]
           at(m) == m - m \div 3
           off == [m \in 0..n |-> at(m) * b]
           bits == FlattenSeq(seqs)
<1>1. b \in Nat \ {0} /\ n \in Nat /\ Len(patp) = n /\ DOMAIN patp = 1..n
  BY BitsAssumption DEF PatpOf
<1>2. ASSUME NEW i \in 1..(2 * w)
      PROVE  /\ byte(i) \in Seq(Bit) /\ Len(byte(i)) = b
             /\ \A j \in 1..b : byte(i)[b + 1 - j] = comet[(i - 1) * b + j]
  <2>1. i \in 1..bytes
    OBVIOUS
  <2> QED BY <2>1, ByteIs
<1> HIDE DEF byte
<1>3. ASSUME NEW k \in 1..w
      PROVE  /\ seqs[3 * k - 2] = byte(2 * (w + 1 - k))
             /\ seqs[3 * k - 1] = byte(2 * (w + 1 - k) - 1)
             /\ k < w => seqs[3 * k] = <<>>
  <2>1. /\ patp[3 * k - 2] = Syllable("prefix", ByteAt(comet, b, 2 * (w + 1 - k)))
        /\ patp[3 * k - 1] = Syllable("suffix", ByteAt(comet, b, 2 * (w + 1 - k) - 1))
        /\ k < w => patp[3 * k] \in {Dash, DoubleDash}
    BY DEF PatpOf
  <2>2. 3 * k - 2 \in 1..n /\ 3 * k - 1 \in 1..n /\ (k < w => 3 * k \in 1..n)
    OBVIOUS
  <2>3. seqs[3 * k - 2] = byte(2 * (w + 1 - k))
    <3>1. patp[3 * k - 2].part = "prefix" /\ patp[3 * k - 2].index = ByteAt(comet, b, 2 * (w + 1 - k))
      BY <2>1 DEF Syllable
    <3> QED BY <1>1, <2>2, <3>1 DEF byte
  <2>4. seqs[3 * k - 1] = byte(2 * (w + 1 - k) - 1)
    <3>1. patp[3 * k - 1].part = "suffix" /\ patp[3 * k - 1].index = ByteAt(comet, b, 2 * (w + 1 - k) - 1)
      BY <2>1 DEF Syllable
    <3> QED BY <1>1, <2>2, <3>1 DEF byte
  <2>5. k < w => seqs[3 * k] = <<>>
    <3>1. k < w => patp[3 * k].part = "dash"
      BY <2>1 DEF Dash, DoubleDash
    <3> QED BY <1>1, <2>2, <3>1
  <2> QED BY <2>3, <2>4, <2>5
<1>4. ASSUME NEW k \in 1..w
      PROVE  /\ 2 * (w + 1 - k) \in 1..(2 * w) /\ 2 * (w + 1 - k) - 1 \in 1..(2 * w)
             /\ seqs[3 * k - 2] \in Seq(Bit) /\ Len(seqs[3 * k - 2]) = b
             /\ seqs[3 * k - 1] \in Seq(Bit) /\ Len(seqs[3 * k - 1]) = b
             /\ k < w => seqs[3 * k] \in Seq(Bit) /\ Len(seqs[3 * k]) = 0
  <2>0. \A x : x = <<>> => x \in Seq(Bit) /\ Len(x) = 0
    OBVIOUS
  <2>1. 2 * (w + 1 - k) \in 1..(2 * w) /\ 2 * (w + 1 - k) - 1 \in 1..(2 * w)
    OBVIOUS
  <2>2. byte(2 * (w + 1 - k)) \in Seq(Bit) /\ Len(byte(2 * (w + 1 - k))) = b
    BY <1>2, <2>1
  <2>3. byte(2 * (w + 1 - k) - 1) \in Seq(Bit) /\ Len(byte(2 * (w + 1 - k) - 1)) = b
    BY <1>2, <2>1
  <2> HIDE DEF seqs
  <2>4. k < w => seqs[3 * k] \in Seq(Bit) /\ Len(seqs[3 * k]) = 0
    BY <1>3, <2>0
  <2> QED BY <1>3, <2>1, <2>2, <2>3, <2>4
<1>5. seqs \in Seq(Seq(Bit)) /\ Len(seqs) = n
  <2>1. seqs = [i \in 1..n |-> seqs[i]]
    BY <1>1
  <2> HIDE DEF seqs
  <2>2. \A i \in 1..n : seqs[i] \in Seq(Bit)
    <3> SUFFICES ASSUME NEW i \in 1..n PROVE seqs[i] \in Seq(Bit)
      OBVIOUS
    <3>1. PICK k \in 1..w : i = 3 * k - 2 \/ i = 3 * k - 1 \/ (i = 3 * k /\ k < w)
      BY ItemOf
    <3> QED BY <1>4, <3>1
  <2>3. n \in Nat
    BY <1>1
  <2> HIDE DEF n
  <2> DEFINE T == Seq(Bit)
  <2>4. \A i \in 1..n : seqs[i] \in T
    BY <2>2
  <2> HIDE DEF T
  <2>5. seqs \in Seq(T) /\ Len(seqs) = n
    BY <2>1, <2>3, <2>4, MadeSequence
  <2> QED BY <2>5 DEF T
<1> HIDE DEF seqs
<1>6. ASSUME NEW k \in 1..w
      PROVE  /\ at(3 * k - 3) = 2 * k - 2 /\ at(3 * k - 2) = 2 * k - 1 /\ at(3 * k - 1) = 2 * k
             /\ at(3 * k) = 2 * k
  OBVIOUS
<1>7. \A m \in 0..n : at(m) \in Nat
  OBVIOUS
<1> HIDE DEF at
<1>8. Offsets(off, seqs)
  <2>1. off \in [0..n -> Nat] /\ off[0] = 0
    <3>1. at(0) = 0
      BY DEF at
    <3>2. \A m \in 0..n : at(m) * b \in Nat
      BY <1>1, <1>7
    <3> QED BY <1>1, <3>1, <3>2
  <2>2. ASSUME NEW m \in 1..n PROVE off[m] = off[m - 1] + Len(seqs[m])
    <3>1. off[m] = at(m) * b /\ off[m - 1] = at(m - 1) * b
      BY <1>1
    <3>2. PICK k \in 1..w : m = 3 * k - 2 \/ m = 3 * k - 1 \/ (m = 3 * k /\ k < w)
      BY ItemOf
    <3>3. \/ at(m) = at(m - 1) + 1 /\ Len(seqs[m]) = b
          \/ at(m) = at(m - 1) /\ Len(seqs[m]) = 0
      <4>1. CASE m = 3 * k - 2
        <5>1. m - 1 = 3 * k - 3
          BY <4>1
        <5> QED BY <1>4, <1>6, <4>1, <5>1
      <4>2. CASE m = 3 * k - 1
        <5>1. m - 1 = 3 * k - 2
          BY <4>2
        <5> QED BY <1>4, <1>6, <4>2, <5>1
      <4>3. CASE m = 3 * k /\ k < w
        <5>1. m - 1 = 3 * k - 1
          BY <4>3
        <5> QED BY <1>4, <1>6, <4>3, <5>1
      <4> QED BY <3>2, <4>1, <4>2, <4>3
    <3>4. at(m - 1) \in Nat
      BY <1>7
    <3>5. (at(m - 1) + 1) * b = at(m - 1) * b + b
      BY <1>1, <3>4
    <3>6. at(m - 1) * b \in Nat
      BY <1>1, <3>4
    <3> HIDE DEF off
    <3>7. CASE at(m) = at(m - 1) + 1 /\ Len(seqs[m]) = b
      BY <3>1, <3>5, <3>7
    <3>8. CASE at(m) = at(m - 1) /\ Len(seqs[m]) = 0
      <4> DEFINE y == at(m - 1) * b
      <4>1. off[m] = y /\ off[m - 1] = y /\ y \in Nat
        BY <3>1, <3>6, <3>8
      <4> HIDE DEF y
      <4> QED BY <3>8, <4>1
    <3> QED BY <3>3, <3>7, <3>8
  <2> QED BY <1>5, <2>1, <2>2 DEF Offsets
<1>9. /\ bits \in Seq(Bit) /\ Len(bits) = off[n]
      /\ \A m \in 1..n : \A j \in 1..Len(seqs[m]) : bits[off[m - 1] + j] = seqs[m][j]
  <2> HIDE DEF off, n
  <2>1. bits \in Seq(Bit) /\ Len(bits) = off[n]
    BY <1>5, <1>8, FlattenAt
  <2>2. ASSUME NEW m \in 1..n, NEW j \in 1..Len(seqs[m]) PROVE bits[off[m - 1] + j] = seqs[m][j]
    <3>1. Placed(bits, off, seqs)
      BY <1>5, <1>8, FlattenAt
    <3> QED BY <1>5, <3>1 DEF Placed
  <2> QED BY <2>1, <2>2
<1> HIDE DEF bits
<1>10. Len(bits) = (2 * w) * b
  <2>1. w \in 1..w /\ n \in 0..n
    OBVIOUS
  <2>2. at(n) = 2 * w
    BY <1>6, <2>1
  <2> QED BY <1>9, <2>1, <2>2
<1>11. ASSUME NEW i \in 1..(2 * w), NEW j \in 1..b
       PROVE  bits[(2 * w - i) * b + (b + 1 - j)] = comet[(i - 1) * b + j]
  <2>1. \E k \in 1..w : i = 2 * (w + 1 - k) \/ i = 2 * (w + 1 - k) - 1
    <3> DEFINE k == w + 1 - (i + 1) \div 2
    <3>1. k \in 1..w /\ (i = 2 * (w + 1 - k) \/ i = 2 * (w + 1 - k) - 1)
      OBVIOUS
    <3> QED BY <3>1
  <2>2. PICK k \in 1..w : i = 2 * (w + 1 - k) \/ i = 2 * (w + 1 - k) - 1
    BY <2>1
  <2>3. PICK m \in 1..n : seqs[m] = byte(i) /\ at(m - 1) = 2 * w - i
    <3>1. CASE i = 2 * (w + 1 - k)
      <4>1. 3 * k - 2 \in 1..n /\ (3 * k - 2) - 1 = 3 * k - 3
        OBVIOUS
      <4>2. seqs[3 * k - 2] = byte(i)
        BY <1>3, <3>1
      <4>3. at((3 * k - 2) - 1) = 2 * w - i
        BY <1>6, <3>1, <4>1
      <4> QED BY <4>1, <4>2, <4>3
    <3>2. CASE i = 2 * (w + 1 - k) - 1
      <4>1. 3 * k - 1 \in 1..n /\ (3 * k - 1) - 1 = 3 * k - 2
        OBVIOUS
      <4>2. seqs[3 * k - 1] = byte(i)
        BY <1>3, <3>2
      <4>3. at((3 * k - 1) - 1) = 2 * w - i
        BY <1>6, <3>2, <4>1
      <4> QED BY <4>1, <4>2, <4>3
    <3> QED BY <2>2, <3>1, <3>2
  <2>4. off[m - 1] = (2 * w - i) * b
    BY <1>1, <2>3
  <2>5. b + 1 - j \in 1..b /\ Len(seqs[m]) = b
    BY <1>1, <1>2, <2>3
  <2>6. bits[off[m - 1] + (b + 1 - j)] = byte(i)[b + 1 - j]
    <3> HIDE DEF off
    <3> QED BY <1>9, <2>3, <2>5
  <2>7. byte(i)[b + 1 - j] = comet[(i - 1) * b + j]
    BY <1>2
  <2> HIDE DEF off
  <2> QED BY <2>4, <2>6, <2>7
<1>12. SyllableBits(patp) = bits
  BY DEF SyllableBits, bits, seqs
<1> QED BY <1>9, <1>10, <1>11, <1>12 DEF Turned

\* An @p parses, and its syllables spell its comet: the words dropped are zero, and a
\* comet of one byte is a suffix alone.
LEMMA PatpBack ==
    ASSUME NEW comet \in Seq(Bit), NEW h \in Nat \ {0}, Len(comet) = (2 * h) * ByteBits
    PROVE  /\ SyllableAtom(ToPatp(comet, ByteBits), ByteBits, Len(comet)) = comet
           /\ PatpParses(ToPatp(comet, ByteBits))
<1> DEFINE b == ByteBits
           bytes == 2 * h
           some == {0} \cup {i \in 1..(Len(comet) \div b) : ByteAt(comet, b, i) # 0}
           sig == Max(some)
           w == (sig + 1) \div 2
           patp == ToPatp(comet, b)
           long == FlattenSeq([k \in 1..w |->
                     LET i == w + 1 - k
                         word == <<Syllable("prefix", ByteAt(comet, b, 2 * i)),
                                   Syllable("suffix", ByteAt(comet, b, 2 * i - 1))>>
                     IN  IF i = 1 THEN word
                         ELSE word \o <<IF (i - 1) % PatpGroup = 0 THEN DoubleDash ELSE Dash>>])
           bits == SyllableBits(patp)
<1>1. b \in Nat \ {0} /\ bytes \in Nat /\ Len(comet) = bytes * b
  BY BitsAssumption
<1>2. Len(comet) \div b = bytes
  <2> DEFINE l == bytes * b
  <2>1. l \in Nat /\ l = bytes * b + 0 /\ 0 \in 0..(b - 1) /\ Len(comet) = l
    BY <1>1
  <2> HIDE DEF l, b, bytes
  <2>2. l \div b = bytes
    BY <1>1, <2>1, QuotientIs
  <2> QED BY <2>1, <2>2
<1>3. /\ sig \in 0..bytes
      /\ \A i \in 1..bytes : i > sig => ByteAt(comet, b, i) = 0
  <2>1. some \subseteq 0..bytes /\ some # {} /\ \A i \in 1..bytes : ByteAt(comet, b, i) # 0 => i \in some
    BY <1>2
  <2>2. sig \in some /\ \A x \in some : sig >= x
    <3> HIDE DEF some, bytes
    <3> QED BY <1>1, <2>1, MaxOfNumbers
  <2> HIDE DEF sig, some, bytes
  <2>3. sig \in 0..bytes
    BY <2>1, <2>2
  <2>4. ASSUME NEW i \in 1..bytes, i > sig PROVE ByteAt(comet, b, i) = 0
    <3>1. i \notin some
      BY <1>1, <2>2, <2>3, <2>4
    <3> QED BY <2>1, <3>1
  <2> QED BY <2>3, <2>4
<1>4. patp = IF sig <= 1 THEN <<Syllable("suffix", ByteAt(comet, b, 1))>> ELSE long
  BY DEF ToPatp, SigBytes
<1>5. SyllableAtom(patp, b, Len(comet))
        = [i \in 1..Len(comet) |-> IF i <= Len(bits) THEN bits[Len(bits) + 1 - i] ELSE 0]
  BY DEF SyllableAtom, SyllableBits
<1> HIDE DEF sig, some, long, patp, b, bytes, bits
<1>6. ASSUME NEW i \in 1..bytes
      PROVE  LET n == ByteAt(comet, b, i)
                 byte == BitsOf(b, n)
             IN  /\ n \in Nat /\ byte \in Seq(Bit) /\ Len(byte) = b
                 /\ \A j \in 1..b : byte[b + 1 - j] = comet[(i - 1) * b + j]
                 /\ n = 0 => \A j \in 1..b : comet[(i - 1) * b + j] = 0
  BY <1>1, ByteIs DEF b
<1>7. ASSUME NEW s \in Nat, s <= bytes, s >= sig, Turned(bits, comet, s)
      PROVE  SyllableAtom(patp, b, Len(comet)) = comet
  <2>1. ASSUME NEW i \in 1..bytes, i > s PROVE \A j \in 1..b : comet[(i - 1) * b + j] = 0
    <3>1. ByteAt(comet, b, i) = 0
      BY <1>1, <1>3, <1>7, <2>1
    <3> QED BY <1>6, <3>1
  <2>2. ZeroAbove(comet, bytes, s)
    BY <2>1 DEF ZeroAbove, b
  <2>3. Len(comet) = bytes * ByteBits
    BY <1>1 DEF b
  <2>4. [i \in 1..Len(comet) |-> IF i <= Len(bits) THEN bits[Len(bits) + 1 - i] ELSE 0] = comet
    BY <1>1, <1>7, <2>2, <2>3, BytesTurned
  <2> QED BY <1>5, <2>4
<1>8. CASE sig <= 1
  <2> DEFINE first == BitsOf(b, ByteAt(comet, b, 1))
  <2>1. 1 \in 1..bytes
    BY DEF bytes
  <2>2. ByteAt(comet, b, 1) \in Nat /\ first \in Seq(Bit) /\ Len(first) = b
    BY <1>6, <2>1
  <2>3. \A j \in 1..b : first[b + 1 - j] = comet[(1 - 1) * b + j]
    BY <1>6, <2>1
  <2>4. Len(patp) = 1 /\ DOMAIN patp = {1} /\ patp[1].part = "suffix"
        /\ patp[1].index = ByteAt(comet, b, 1)
    BY <1>4, <1>8 DEF Syllable
  <2>5. [i \in DOMAIN patp |->
           IF patp[i].part = "dash" THEN <<>> ELSE BitsOf(ByteBits, patp[i].index)] = <<first>>
    BY <2>4 DEF b
  <2> HIDE DEF first
  <2>6. FlattenSeq(<<first>>) = first
    BY DEF FlattenSeq
  <2>7. bits = first
    BY <2>5, <2>6 DEF bits, SyllableBits
  <2>8. ASSUME NEW i \in 1..1, NEW j \in 1..b
        PROVE  bits[(1 - i) * b + (b + 1 - j)] = comet[(i - 1) * b + j]
    <3>1. i = 1 /\ (1 - i) * b + (b + 1 - j) = b + 1 - j
      BY <1>1
    <3> QED BY <2>3, <2>7, <3>1
  <2>9. 1 <= bytes /\ 1 >= sig /\ Len(bits) = 1 * b
    BY <1>1, <1>3, <1>8, <2>1, <2>2, <2>7
  <2>10. Turned(bits, comet, 1)
    BY <2>2, <2>7, <2>8, <2>9 DEF Turned, b
  <2>11. SyllableAtom(patp, b, Len(comet)) = comet
    BY <1>7, <2>9, <2>10
  <2> QED BY <2>4, <2>11 DEF PatpParses, patp, b
<1>9. CASE ~(sig <= 1)
  <2>1. w \in Nat \ {0} /\ 2 * w <= bytes /\ 2 * w >= sig /\ 2 * w \in Nat
    BY <1>3, <1>9 DEF bytes
  <2> HIDE DEF w
  <2>2. PatpOf(patp, comet, w)
    <3>1. patp = long
      BY <1>4, <1>9
    <3>2. PatpOf(long, comet, w)
      BY <1>1, <2>1, PatpIs DEF long, b
    <3> QED BY <3>1, <3>2
  <2>3. Turned(bits, comet, 2 * w)
    <3>1. Len(comet) = bytes * ByteBits
      BY <1>1 DEF b
    <3> QED BY <1>1, <2>1, <2>2, <3>1, PatpReads DEF bits
  <2>4. SyllableAtom(patp, b, Len(comet)) = comet
    <3> DEFINE s == 2 * w
    <3>1. s \in Nat /\ s <= bytes /\ s >= sig /\ Turned(bits, comet, s)
      BY <2>1, <2>3
    <3> HIDE DEF s
    <3> QED BY <1>7, <3>1
  <2>5. PatpParses(patp)
    <3>1. Len(patp) = 3 * w - 1 /\ (Len(patp) + 1) \div 3 = w
      BY <2>1, <2>2 DEF PatpOf
    <3>2. ASSUME NEW k \in 1..w
          PROVE  /\ patp[3 * k - 2].part = "prefix" /\ patp[3 * k - 1].part = "suffix"
                 /\ k < w => patp[3 * k] = IF (w - k) % PatpGroup = 0 THEN DoubleDash ELSE Dash
      <4>1. /\ patp[3 * k - 2] = Syllable("prefix", ByteAt(comet, ByteBits, 2 * (w + 1 - k)))
            /\ patp[3 * k - 1] = Syllable("suffix", ByteAt(comet, ByteBits, 2 * (w + 1 - k) - 1))
            /\ k < w => patp[3 * k] = IF (w - k) % PatpGroup = 0 THEN DoubleDash ELSE Dash
        BY <2>2 DEF PatpOf
      <4>2. \A part, n : Syllable(part, n).part = part
        BY DEF Syllable
      <4> QED BY <4>1, <4>2
    <3> QED BY <3>1, <3>2 DEF PatpParses
  <2> QED BY <2>4, <2>5 DEF patp, b
<1> QED BY <1>8, <1>9

\* What the assertion lets pass is no number of the scrambled band: at most two bytes
\* of a comet have a one, or one above ScrambleBytes does.
LEMMA ScopedIsNoBand ==
    ASSUME NEW comet \in Seq(Bit), NEW bytes \in Nat, Len(comet) = bytes * ByteBits,
           PatpScoped(comet, ByteBits)
    PROVE  ~InBand(comet, ByteBits)
<1> DEFINE b == ByteBits
           some == {0} \cup {i \in 1..(Len(comet) \div b) : ByteAt(comet, b, i) # 0}
           sig == SigBytes(comet, b)
           low == 2 * b
           high == ScrambleBytes * b
<1>1. b \in Nat \ {0} /\ ScrambleBytes \in Nat /\ Len(comet) = bytes * b /\ Len(comet) \in Nat
  BY BitsAssumption, WordsAssumption
<1>2. Len(comet) \div b = bytes
  <2> DEFINE l == bytes * b
  <2>1. l \in Nat /\ l = bytes * b + 0 /\ 0 \in 0..(b - 1) /\ Len(comet) = l
    BY <1>1
  <2> HIDE DEF l, b
  <2>2. l \div b = bytes
    BY <1>1, <2>1, QuotientIs
  <2> QED BY <2>1, <2>2
<1>3. /\ sig \in Nat
      /\ sig = 0 \/ (sig \in 1..bytes /\ ByteAt(comet, b, sig) # 0)
      /\ \A i \in 1..bytes : i > sig => ByteAt(comet, b, i) = 0
  <2>1. /\ some \subseteq 0..bytes /\ some # {}
        /\ \A i \in 1..bytes : ByteAt(comet, b, i) # 0 => i \in some
        /\ \A i \in some : i = 0 \/ (i \in 1..bytes /\ ByteAt(comet, b, i) # 0)
    BY <1>2
  <2>2. sig = Max(some)
    BY DEF SigBytes
  <2>3. sig \in some /\ \A x \in some : sig >= x
    <3> HIDE DEF some, sig
    <3> QED BY <1>1, <2>1, <2>2, MaxOfNumbers
  <2> HIDE DEF sig, some
  <2>4. ASSUME NEW i \in 1..bytes, i > sig PROVE ByteAt(comet, b, i) = 0
    <3>1. sig \in 0..bytes
      BY <2>1, <2>3
    <3>2. i \notin some
      BY <1>1, <2>3, <2>4, <3>1
    <3> QED BY <2>1, <3>2
  <2> QED BY <2>1, <2>3, <2>4
<1>4. sig <= 2 \/ sig >= ScrambleBytes + 1
  BY DEF PatpScoped
<1> HIDE DEF sig, b
<1>5. ASSUME NEW i \in 1..bytes
      PROVE  /\ \A j \in 1..b : (i - 1) * b + j \in DOMAIN comet
             /\ ByteAt(comet, b, i) = 0 <=> \A j \in 1..b : comet[(i - 1) * b + j] = 0
  <2>1. /\ ByteAt(comet, b, i) = 0 => \A j \in 1..b : comet[(i - 1) * b + j] = 0
        /\ (\A j \in 1..b : comet[(i - 1) * b + j] = 0) => ByteAt(comet, b, i) = 0
    BY <1>1, ByteIs DEF b
  <2>2. ASSUME NEW j \in 1..b PROVE (i - 1) * b + j \in DOMAIN comet
    <3> DEFINE before == (i - 1) * b
               after == (bytes - i) * b
               all == bytes * b
    <3>1. before \in Nat /\ after \in Nat /\ all = before + b + after /\ Len(comet) = all
      BY <1>1
    <3> HIDE DEF before, after, all
    <3> QED BY <1>1, <3>1
  <2> QED BY <2>1, <2>2
<1>6. CASE sig <= 2
  <2>1. ASSUME NEW x \in DOMAIN comet, x > low PROVE comet[x] = 0
    <3>1. PICK i \in 1..bytes, j \in 1..b : x = (i - 1) * b + j
      <4>1. x \in 1..(bytes * b)
        BY <1>1
      <4> QED BY <1>1, <4>1, ByteOf
    <3>2. i > 2
      <4>1. CASE i = 1
        BY <1>1, <2>1, <3>1, <4>1
      <4>2. CASE i = 2
        BY <1>1, <2>1, <3>1, <4>2
      <4> QED BY <4>1, <4>2
    <3>3. ByteAt(comet, b, i) = 0
      BY <1>3, <1>6, <3>2
    <3> QED BY <1>5, <3>1, <3>3
  <2> QED BY <2>1 DEF InBand, b
<1>7. CASE sig >= ScrambleBytes + 1
  <2>1. sig \in 1..bytes /\ ByteAt(comet, b, sig) # 0
    BY <1>1, <1>3, <1>7
  <2>2. PICK j \in 1..b : comet[(sig - 1) * b + j] # 0
    BY <1>5, <2>1
  <2>3. (sig - 1) * b + j > high
    <3> DEFINE gap == (sig - 1 - ScrambleBytes) * b
               before == (sig - 1) * b
    <3>1. gap \in Nat /\ before = high + gap /\ high \in Nat
      BY <1>1, <1>7, <2>1
    <3> HIDE DEF gap, before, high
    <3>2. before + j > high
      BY <1>1, <3>1
    <3> QED BY <3>2 DEF before
  <2>4. (sig - 1) * b + j \in DOMAIN comet
    BY <1>5, <2>1
  <2> QED BY <2>2, <2>3, <2>4 DEF InBand, b
<1> QED BY <1>4, <1>6, <1>7

\* What the names are made of.
IsName(comet) == comet \in Seq(Bit) /\ Len(comet) = CometBits

\* Both names of a comet, read by other programs; the @p where urbit-ob does not
\* scramble.
LEMMA NamesRead ==
    ASSUME NEW comet, IsName(comet)
    PROVE  /\ DecodeNym(ToNym(comet), Len(comet)) = comet
           /\ PatpParses(ToPatp(comet, ByteBits))
           /\ PatpScoped(comet, ByteBits) =>
                ReadPatp(ToPatp(comet, ByteBits), ByteBits, Len(comet)) = comet
<1>1. comet \in Seq(Bit) /\ Len(comet) = CometBits /\ CometBits \in Nat \ {0}
  <2>1. HashBits \in Nat \ {0} /\ HashBits % 2 = 0
    BY CometAssumption
  <2>2. HashBits \div 2 \in Nat \ {0}
    BY <2>1
  <2> QED BY <2>2 DEF IsName, CometBits
<1>2. PICK u \in Nat : Len(comet) = u * UnitBits
  <2> DEFINE q == CometBits \div UnitBits
  <2>1. UnitBits \in Nat \ {0} /\ CometBits % UnitBits = 0
    BY WordsAssumption, AttestationAssumption
  <2>2. q \in Nat /\ CometBits = q * UnitBits + (CometBits % UnitBits)
    BY <1>1, <2>1, Division
  <2> HIDE DEF q
  <2>3. q * UnitBits \in Nat
    BY <2>1, <2>2
  <2>4. CometBits = q * UnitBits
    BY <2>1, <2>2, <2>3
  <2> QED BY <1>1, <2>2, <2>4
<1>3. PICK h \in Nat \ {0} : Len(comet) = (2 * h) * ByteBits
  <2> DEFINE word == 2 * ByteBits
             q == CometBits \div word
  <2>1. ByteBits \in Nat \ {0} /\ word \in Nat \ {0} /\ CometBits % word = 0
    BY BitsAssumption, AttestationAssumption
  <2>2. q \in Nat /\ CometBits = q * word + (CometBits % word)
    <3> HIDE DEF word
    <3> QED BY <1>1, <2>1, Division
  <2> HIDE DEF q
  <2>3. q * word = (2 * q) * ByteBits /\ q * word \in Nat
    BY <2>1, <2>2
  <2> HIDE DEF word
  <2>4. CometBits = (2 * q) * ByteBits
    BY <2>1, <2>2, <2>3
  <2>5. q # 0
    <3>1. (2 * 0) * ByteBits = 0
      BY <2>1
    <3> QED BY <1>1, <2>4, <3>1
  <2> QED BY <1>1, <2>2, <2>4, <2>5
<1>4. DecodeNym(ToNym(comet), Len(comet)) = comet
  BY <1>1, <1>2, NymBack
<1>5. /\ SyllableAtom(ToPatp(comet, ByteBits), ByteBits, Len(comet)) = comet
      /\ PatpParses(ToPatp(comet, ByteBits))
  BY <1>1, <1>3, PatpBack
<1>6. ASSUME PatpScoped(comet, ByteBits)
      PROVE  ReadPatp(ToPatp(comet, ByteBits), ByteBits, Len(comet)) = comet
  <2>1. ~InBand(comet, ByteBits)
    BY <1>1, <1>3, <1>6, ScopedIsNoBand
  <2> QED BY <1>5, <2>1 DEF ReadPatp
<1> QED BY <1>4, <1>5, <1>6

-----------------------------------------------------------------------------
(* The inductive invariant. *)

\* What the assembly leaves for the jam.
Assembled ==
    /\ MinedIt
    /\ spawn = SpawnOfJob
    /\ leaf = Leaf(EncodeSpawn(spawn), LeafKey)
    /\ noun = Feed(mined.comet, 0, 1, mined.ring)

\* The key file on the Airlock.
Spelled == JamInv /\ Jammed /\ keyFile = Uw(IntoBytes(out))

\* What each place in the flow has established.
IInv ==
    /\ pc \in {"enter", "mine", "assemble", "encode", "name", "jam", "done", "refused",
              "exhausted", "failed", "panicked"}
    /\ pc \in {"enter", "mine", "assemble"} => leaf = None /\ spawn = None
    /\ pc = "enter" => text \in Texts
    /\ pc = "mine" => Mining
    /\ pc = "assemble" => MinedIt
    /\ pc = "refused" => ~Accepts(text)
    /\ pc \in {"encode", "name"} => text = None
    /\ pc = "encode" => IsSpawn(spawn)
    /\ leaf # None => IsSpawn(spawn) /\ leaf = Leaf(EncodeSpawn(spawn), LeafKey)
    /\ pc = "jam" => JamInv
    /\ pc = "jam" => (text # None => Assembled)
    /\ pc # "done" => keyFile = None
    /\ keyFile # None => Spelled
    /\ pc = "done" => (text # None => Assembled /\ Spelled)

\* A job has failed exactly if the amount is short of what its %spawn costs.
Short == text.sats < CommitFee + RevealFee(spawn) + Dust
FailInv == (text # None /\ spawn # None) => (pc = "failed" <=> Short)

\* The names are those of a comet that no later step changes.
Named == IsName(mined.comet) /\ names = NamesOf(mined.comet)
NamesInv ==
    /\ pc = "name" => IsName(mined.comet)
    /\ names # None => pc \in {"jam", "done"}
    /\ names # None => Named

\* What parse_funding accepts, the two later conversions take.
LEMMA AcceptedIsTaken ==
    ASSUME NEW t \in Texts, Accepts(t)
    PROVE  TweakTakes(t) /\ WireTakes(t)
<1>1. TxidHex \in Nat
  BY AttestationAssumption
<1> QED BY <1>1 DEF Accepts, TweakTakes, WireTakes, Unprefixed

\* The refusals of build_and_sign_spawn, in order, are one comparison.
LEMMA AffordsIs ==
    ASSUME Mining, IsSpawn(SpawnOfJob)
    PROVE  Affords(text.sats, SpawnOfJob)
             <=> ~(text.sats < CommitFee + RevealFee(SpawnOfJob) + Dust)
<1> DEFINE len == Len(EncodeSpawn(SpawnOfJob))
           size == len \div (4 * ByteBits)
           commit == CommitFee
           reveal == RevealFee(SpawnOfJob)
<1>1. text.sats \in Nat
  <2>1. text \in Text /\ text.sats # None
    BY AttestationAssumption DEF Mining, Accepts
  <2> QED BY <2>1 DEF Text
<1>2. FeeRate \in Nat /\ CommitVb \in Nat /\ RevealVb \in Nat /\ Dust \in Nat \ {0}
  BY AttestationAssumption
<1>3. size \in Nat
  <2>1. len \in Nat
    BY SpawnReads
  <2>2. 4 * ByteBits \in Nat \ {0}
    BY BitsAssumption
  <2> HIDE DEF len
  <2> QED BY <2>1, <2>2
<1>4. commit \in Nat
  BY <1>2 DEF CommitFee
<1>5. reveal \in Nat
  <2>1. reveal = (RevealVb + size) * FeeRate
    BY DEF RevealFee
  <2> HIDE DEF size, reveal
  <2> QED BY <1>2, <1>3, <2>1
<1>6. Affords(text.sats, SpawnOfJob)
        <=> /\ text.sats >= commit /\ text.sats - commit > 0
            /\ text.sats - commit >= reveal
            /\ text.sats - commit - reveal >= Dust
  BY DEF Affords
<1> HIDE DEF commit, reveal
<1>7. Affords(text.sats, SpawnOfJob) <=> ~(text.sats < commit + reveal + Dust)
  BY <1>1, <1>2, <1>4, <1>5, <1>6
<1> QED BY <1>7 DEF commit, reveal

\* It holds at first, also where a behaviour begins with another spawn, noun or comet.
LEMMA InitIInv == Init => IInv
<1> SUFFICES ASSUME Init PROVE IInv
  OBVIOUS
<1>1. /\ leaf = None /\ keyFile = None /\ out = <<>> /\ refs = <<>>
      /\ pc = "enter" => spawn = None
      /\ pc \in {"enter", "encode", "name", "jam"}
      /\ pc = "enter" => text \in Texts
      /\ pc # "enter" => text = None
      /\ pc = "encode" => spawn \in Spawns
      /\ pc = "jam" => noun \in Nouns /\ todo = << <<>> >>
  BY DEF Init
<1>2. pc = "encode" => IsSpawn(spawn)
  BY <1>1, AttestationAssumption
<1>3. pc = "jam" => JamInv
  <2>1. ASSUME pc = "jam" PROVE JamInv
    <3>1. IsNoun(noun)
      BY <1>1, <2>1, AttestationAssumption
    <3> QED BY <1>1, <2>1, <3>1, JamStarts
  <2> QED BY <2>1
<1> QED BY <1>1, <1>2, <1>3 DEF IInv

\* Where nothing of the job changes, nor of the jam, what was said of them stays.
LEMMA JobStays ==
    ASSUME UNCHANGED <<text, mined>>
    PROVE  /\ Mining' = Mining
           /\ MinedIt' = MinedIt
           /\ UNCHANGED <<spawn, leaf, noun>> => Assembled' = Assembled
<1>1. Mining' = Mining
  BY DEF Mining, Accepts
<1>2. JobTweak' = JobTweak
  BY DEF JobTweak, Tweak, MinLe, Wire, InWireOrder
<1>3. \A ring : Found(ring)' = Found(ring)
  BY <1>2 DEF Found
<1>4. MinedIt' = MinedIt
  BY <1>1, <1>2, <1>3 DEF MinedIt
<1>5. SpawnOfJob' = SpawnOfJob
  BY DEF SpawnOfJob
<1>6. UNCHANGED <<spawn, leaf, noun>> => Assembled' = Assembled
  BY <1>4, <1>5 DEF Assembled
<1> QED BY <1>1, <1>4, <1>6

\* Where the stream stays, what was said of it stays.
LEMMA JamStays == UNCHANGED jamVars => JamInv' = JamInv /\ (UNCHANGED keyFile => Spelled' = Spelled)
BY DEF jamVars, JamInv, Spelled, Jammed

\* The same in the state that starts the jam.
JamStarted == IsNoun(noun) /\ todo = << <<>> >> /\ out = <<>> /\ refs = <<>>

\* It satisfies the invariant of the jam,
LEMMA StartedInv == JamStarted => JamInv
BY JamStarts DEF JamStarted

\* also as the next state,
LEMMA StartedNext == JamStarted' => JamInv'
BY StartedInv, PTL

\* with the noun that assemble_spawn puts there.
LEMMA JamStartsNext ==
    ASSUME IsNoun(noun'), todo' = << <<>> >>, out' = <<>>, refs' = <<>>
    PROVE  JamInv'
BY StartedNext DEF JamStarted

\* Writing does not change the noun.
LEMMA EncodeNoun == Encode => UNCHANGED noun
BY DEF Encode, NewCell, KnownCell, NewAtom, ShortAtom, LongAtom, Write

\* Every step keeps it.
LEMMA NextIInv == IInv /\ [Next]_vars => IInv'
<1> SUFFICES ASSUME IInv, [Next]_vars PROVE IInv'
  OBVIOUS
<1>1. CASE Enter
  <2>1. pc = "enter" /\ text \in Texts /\ UNCHANGED <<text, mined, spawn, leaf, keyFile, jamVars>>
    BY <1>1 DEF Enter, IInv
  <2>2. CASE Accepts(text)
    <3>1. pc' = "mine"
      BY <1>1, <2>1, <2>2, AcceptedIsTaken DEF Enter
    <3>2. Mining'
      BY <2>1, <2>2, JobStays DEF Mining
    <3> QED BY <2>1, <3>1, <3>2, JamStays DEF IInv
  <2>3. CASE ~Accepts(text)
    <3>1. pc' = "refused"
      BY <1>1, <2>3 DEF Enter
    <3>2. ~Accepts(text)'
      BY <2>1, <2>3
    <3> QED BY <2>1, <3>1, <3>2, JamStays DEF IInv
  <2> QED BY <2>2, <2>3
<1>2. ASSUME NEW ring \in Rings, Try(ring) PROVE IInv'
  <2>1. pc = "mine" /\ Mining /\ UNCHANGED <<text, spawn, leaf, keyFile, jamVars>>
    BY <1>2 DEF Try, IInv
  <2>2. CASE Found(ring)
    <3>1. pc' = "assemble" /\ mined' = Mined(ring, JobTweak)
      BY <1>2, <2>2 DEF Try
    <3>2. JobTweak' = JobTweak
      BY <2>1 DEF JobTweak, Wire
    <3>3. Found(ring)'
      BY <2>2, <3>2 DEF Found
    <3>4. Mining'
      BY <2>1 DEF Mining
    <3>5. MinedIt'
      BY <3>1, <3>2, <3>3, <3>4 DEF MinedIt
    <3> QED BY <2>1, <3>1, <3>5, JamStays DEF IInv
  <2>3. CASE ~Found(ring)
    <3>1. UNCHANGED <<mined, pc>>
      BY <1>2, <2>3 DEF Try
    <3>2. Mining'
      BY <2>1 DEF Mining
    <3> QED BY <2>1, <3>1, <3>2, JamStays DEF IInv
  <2> QED BY <2>2, <2>3
<1>3. CASE GiveUp
  <2>1. /\ pc = "mine" /\ pc' = "exhausted"
        /\ UNCHANGED <<text, mined, spawn, leaf, keyFile, jamVars>>
    BY <1>3 DEF GiveUp
  <2> QED BY <2>1, JamStays DEF IInv
<1>4. CASE Assemble
  <2>1. /\ pc = "assemble" /\ MinedIt /\ UNCHANGED <<text, mined, keyFile>> /\ spawn' = SpawnOfJob
        /\ leaf = None /\ keyFile = None
    BY <1>4 DEF Assemble, IInv
  <2>2. WireTakes(text)
    BY <2>1, AcceptedIsTaken DEF MinedIt, Mining
  <2>3. CASE Affords(text.sats, spawn')
    <3>1. /\ pc' = "jam" /\ leaf' = Leaf(EncodeSpawn(spawn'), LeafKey)
          /\ StartJam(Feed(mined.comet, 0, 1, mined.ring))
      BY <1>4, <2>2, <2>3 DEF Assemble
    <3>2. MinedIt' /\ SpawnOfJob' = SpawnOfJob
      BY <2>1, JobStays DEF SpawnOfJob
    <3>3. Assembled'
      BY <2>1, <3>1, <3>2 DEF Assembled, StartJam
    <3>4. IsSpawn(SpawnOfJob) /\ mined.comet \in Seq(Bit) /\ mined.ring \in Seq(Bit)
      BY <2>1, JobIs
    <3>5. JamInv'
      <4>1. IsNoun(Feed(mined.comet, 0, 1, mined.ring))
        BY <3>4, FeedIs
      <4>2. IsNoun(noun') /\ todo' = << <<>> >> /\ out' = <<>> /\ refs' = <<>>
        BY <3>1, <4>1 DEF StartJam
      <4> QED BY <4>2, JamStartsNext
    <3> QED BY <2>1, <3>1, <3>3, <3>4, <3>5 DEF IInv
  <2>4. CASE ~Affords(text.sats, spawn')
    <3>1. pc' = "failed" /\ UNCHANGED leaf
      BY <1>4, <2>4 DEF Assemble
    <3> QED BY <2>1, <3>1 DEF IInv
  <2> QED BY <2>3, <2>4
<1>5. CASE JamStep
  <2>1. pc = "jam" /\ Encode /\ UNCHANGED <<pc, text, mined, spawn, leaf, keyFile>>
    BY <1>5 DEF JamStep
  <2>2. JamInv'
    BY <2>1, EncodeKeeps DEF IInv
  <2>3. Assembled' = Assembled
    BY <2>1, EncodeNoun, JobStays
  <2>4. keyFile' = None
    BY <2>1 DEF IInv
  <2> QED BY <2>1, <2>2, <2>3, <2>4 DEF IInv
<1>6. CASE Spell
  <2>1. /\ pc = "jam" /\ pc' = "done" /\ Jammed /\ keyFile' = Uw(IntoBytes(out)) /\ JamInv
        /\ UNCHANGED <<text, mined, spawn, leaf, jamVars>>
    BY <1>6 DEF Spell, IInv
  <2>2. Spelled'
    BY <2>1, JamStays DEF Spelled, jamVars, Jammed
  <2>3. Assembled' = Assembled
    BY <2>1, JobStays DEF jamVars
  <2> QED BY <2>1, <2>2, <2>3 DEF IInv
<1>7. CASE EncodeAny
  <2>1. /\ pc = "encode" /\ pc' = "done" /\ leaf' = Leaf(EncodeSpawn(spawn), LeafKey)
        /\ UNCHANGED <<text, mined, spawn, keyFile, jamVars>>
    BY <1>7 DEF EncodeAny
  <2>2. text = None /\ IsSpawn(spawn) /\ keyFile = None
    BY <2>1 DEF IInv
  <2> QED BY <2>1, <2>2 DEF IInv
<1>8. CASE NameAny
  <2>1. /\ pc = "name" /\ pc' = "done" /\ UNCHANGED <<text, mined, spawn, leaf, keyFile, jamVars>>
    BY <1>8 DEF NameAny
  <2>2. text = None /\ keyFile = None
    BY <2>1 DEF IInv
  <2> QED BY <2>1, <2>2 DEF IInv
<1>9. CASE Panic
  <2>1. /\ pc \in {"name", "assemble"} /\ pc' = "panicked"
        /\ UNCHANGED <<text, mined, spawn, leaf, keyFile, jamVars>>
    BY <1>9 DEF Panic
  <2> QED BY <2>1, JamStays DEF IInv
<1>10. CASE UNCHANGED vars
  <2>1. UNCHANGED <<pc, text, mined, spawn, leaf, keyFile, noun, jamVars>>
    BY <1>10 DEF vars, jamVars
  <2>2. /\ Mining' = Mining /\ MinedIt' = MinedIt /\ Assembled' = Assembled
        /\ JamInv' = JamInv /\ Spelled' = Spelled
    BY <2>1, JobStays, JamStays
  <2> QED BY <2>1, <2>2 DEF IInv
<1> QED BY <1>1, <1>2, <1>3, <1>4, <1>5, <1>6, <1>7, <1>8, <1>9, <1>10 DEF Next

\* The inductive invariant of the attestation: what each place in the flow has
\* established (SpawnJob, assemble_spawn, jam, spell in src/src/urb/spawn.rs and
\* src/src/urb/boot.rs), the spawn in the leaf and the noun in the stream.
THEOREM AttestationInvariant == Spec => []IInv
<1>1. Init => IInv
  BY InitIInv
<1>2. IInv /\ [Next]_vars => IInv'
  BY NextIInv
<1> QED BY <1>1, <1>2, PTL DEF Spec

\* The names of the comets a behaviour begins with.
LEMMA InitNames == Init => NamesInv
<1> SUFFICES ASSUME Init PROVE NamesInv
  OBVIOUS
<1>1. names = None
  BY DEF Init
<1>2. ASSUME pc = "name" PROVE IsName(mined.comet)
  <2>1. PICK comet \in Comets : mined = [comet |-> comet]
    BY <1>2 DEF Init
  <2>2. comet \in Seq(Bit) /\ Len(comet) = CometBits
    BY AttestationAssumption
  <2> QED BY <2>1, <2>2 DEF IsName
<1> QED BY <1>1, <1>2 DEF NamesInv

\* What was said of the names stays with the comet.
LEMMA NamesStay ==
    ASSUME UNCHANGED <<mined, names>>
    PROVE  IsName(mined.comet)' = IsName(mined.comet) /\ Named' = Named
BY DEF Named, IsName, NamesOf

\* Every step keeps what was said of the names: only a try finds a comet, and no try
\* follows the naming.
LEMMA NextNames == IInv /\ NamesInv /\ [Next]_vars => NamesInv'
<1> SUFFICES ASSUME IInv, NamesInv, [Next]_vars PROVE NamesInv'
  OBVIOUS
<1>1. CASE Enter
  <2>1. pc = "enter" /\ pc' \in {"mine", "refused"} /\ UNCHANGED <<mined, names>>
    <3>1. pc = "enter" /\ text \in Texts /\ UNCHANGED <<mined, names>>
      BY <1>1 DEF Enter, IInv
    <3>2. pc' \in {"mine", "refused"}
      BY <1>1, <3>1, AcceptedIsTaken DEF Enter
    <3> QED BY <3>1, <3>2
  <2> QED BY <2>1 DEF NamesInv
<1>2. ASSUME NEW ring \in Rings, Try(ring) PROVE NamesInv'
  <2>1. pc = "mine" /\ pc' \in {"mine", "assemble"} /\ UNCHANGED names
    BY <1>2 DEF Try
  <2> QED BY <2>1 DEF NamesInv
<1>3. CASE GiveUp
  <2>1. pc = "mine" /\ pc' = "exhausted" /\ UNCHANGED <<mined, names>>
    BY <1>3 DEF GiveUp
  <2> QED BY <2>1 DEF NamesInv
<1>4. CASE Assemble
  <2>1. pc = "assemble" /\ MinedIt /\ UNCHANGED mined
    BY <1>4 DEF Assemble, IInv
  <2>2. \/ pc' = "jam" /\ names' = NamesOf(mined.comet)
        \/ pc' = "failed" /\ UNCHANGED names
    BY <1>4 DEF Assemble
  <2>3. IsName(mined.comet)
    BY <2>1, JobIs DEF IsName
  <2>4. pc' = "jam" => Named'
    BY <2>1, <2>2, <2>3 DEF Named, IsName, NamesOf
  <2> QED BY <2>1, <2>2, <2>4 DEF NamesInv
<1>5. CASE JamStep
  <2>1. pc = "jam" /\ UNCHANGED <<pc, mined, names>>
    BY <1>5 DEF JamStep
  <2> QED BY <2>1, NamesStay DEF NamesInv
<1>6. CASE Spell
  <2>1. pc = "jam" /\ pc' = "done" /\ UNCHANGED <<mined, names>>
    BY <1>6 DEF Spell
  <2> QED BY <2>1, NamesStay DEF NamesInv
<1>7. CASE EncodeAny
  <2>1. pc = "encode" /\ pc' = "done" /\ UNCHANGED <<mined, names>>
    BY <1>7 DEF EncodeAny
  <2> QED BY <2>1, NamesStay DEF NamesInv
<1>8. CASE NameAny
  <2>1. pc = "name" /\ pc' = "done" /\ UNCHANGED mined /\ names' = NamesOf(mined.comet)
    BY <1>8 DEF NameAny
  <2>2. IsName(mined.comet)
    BY <2>1 DEF NamesInv
  <2>3. Named'
    BY <2>1, <2>2 DEF Named, IsName, NamesOf
  <2> QED BY <2>1, <2>3 DEF NamesInv
<1>9. CASE Panic
  <2>1. pc \in {"name", "assemble"} /\ pc' = "panicked" /\ UNCHANGED <<mined, names>>
    BY <1>9 DEF Panic
  <2> QED BY <2>1 DEF NamesInv
<1>10. CASE UNCHANGED vars
  <2>1. UNCHANGED <<pc, mined, names>>
    BY <1>10 DEF vars
  <2> QED BY <2>1, NamesStay DEF NamesInv
<1> QED BY <1>1, <1>2, <1>3, <1>4, <1>5, <1>6, <1>7, <1>8, <1>9, <1>10 DEF Next

-----------------------------------------------------------------------------
(* The properties. *)

\* Every step keeps it: only assemble_spawn fails a job, with the %spawn it made.
LEMMA NextFails == IInv /\ FailInv /\ [Next]_vars => FailInv'
<1> SUFFICES ASSUME IInv, FailInv, [Next]_vars PROVE FailInv'
  OBVIOUS
<1>1. ASSUME UNCHANGED <<text, spawn>>, pc' = "failed" <=> pc = "failed" PROVE FailInv'
  <2>1. Short' = Short
    BY <1>1 DEF Short, RevealFee, CommitFee
  <2> QED BY <1>1, <2>1 DEF FailInv
<1>2. CASE Assemble
  <2>1. pc = "assemble" /\ MinedIt /\ UNCHANGED text /\ spawn' = SpawnOfJob
    BY <1>2 DEF Assemble, IInv
  <2>2. WireTakes(text) /\ Mining
    BY <2>1, AcceptedIsTaken DEF MinedIt, Mining
  <2>3. pc' = IF Affords(text.sats, spawn') THEN "jam" ELSE "failed"
    BY <1>2, <2>2 DEF Assemble
  <2>4. Affords(text.sats, SpawnOfJob)
          <=> ~(text.sats < CommitFee + RevealFee(SpawnOfJob) + Dust)
    BY <2>1, <2>2, JobIs, AffordsIs
  <2>5. Short' <=> ~Affords(text.sats, SpawnOfJob)
    BY <2>1, <2>4 DEF Short, RevealFee, CommitFee
  <2> QED BY <2>1, <2>3, <2>5 DEF FailInv
<1>3. CASE Enter
  <2>1. pc' # "failed" /\ pc # "failed" /\ UNCHANGED <<text, spawn>>
    BY <1>3 DEF Enter
  <2> QED BY <1>1, <2>1
<1>4. ASSUME NEW ring \in Rings, Try(ring) PROVE FailInv'
  <2>1. pc' # "failed" /\ pc # "failed" /\ UNCHANGED <<text, spawn>>
    BY <1>4 DEF Try
  <2> QED BY <1>1, <2>1
<1>5. CASE GiveUp \/ Panic \/ Spell \/ EncodeAny \/ NameAny
  <2>1. pc' # "failed" /\ pc # "failed" /\ UNCHANGED <<text, spawn>>
    BY <1>5 DEF GiveUp, Panic, Spell, EncodeAny, NameAny
  <2> QED BY <1>1, <2>1
<1>6. CASE JamStep
  <2>1. UNCHANGED <<pc, text, spawn>>
    BY <1>6 DEF JamStep
  <2> QED BY <1>1, <2>1
<1>7. CASE UNCHANGED vars
  <2>1. UNCHANGED <<pc, text, spawn>>
    BY <1>7 DEF vars
  <2> QED BY <1>1, <2>1
<1> QED BY <1>2, <1>3, <1>4, <1>5, <1>6, <1>7 DEF Next

\* A text that set_funding accepts is taken by SpawnJob::new, and after the mining
\* assemble_spawn fails on the amount and on nothing else: exactly where the fees of
\* build_and_sign_spawn and the reveal's output exceed it (src/src/urb/spawn.rs:237).
THEOREM AttestationFailsOnlyIfShort == Spec => []FailsOnlyIfShort
<1>1. Init => IInv /\ FailInv
  <2>1. Init => FailInv
    BY DEF Init, FailInv
  <2> QED BY <2>1, InitIInv
<1>2. (IInv /\ FailInv) /\ [Next]_vars => (IInv /\ FailInv)'
  BY NextIInv, NextFails
<1>3. IInv /\ FailInv => FailsOnlyIfShort
  BY DEF IInv, FailInv, Short, FailsOnlyIfShort
<1> QED BY <1>1, <1>2, <1>3, PTL DEF Spec

\* Of any spawn, with a fief or without, an index or none: urb-core reads from the
\* pushes of urb_leaf_script the spawn that encode_spawn was given
\* (src/src/urb/encoder.rs, src/src/urb/tx.rs).
THEOREM AttestationLeafReadsBack == Spec => []LeafReadsBack
<1>1. ASSUME IInv, leaf # None PROVE ReadSpawn(ReadLeaf(leaf)) = SpawnRead(spawn)
  <2>1. IsSpawn(spawn) /\ leaf = Leaf(EncodeSpawn(spawn), LeafKey)
    BY <1>1 DEF IInv
  <2>2. EncodeSpawn(spawn) \in Seq(Bit) /\ ReadSpawn(EncodeSpawn(spawn)) = SpawnRead(spawn)
    BY <2>1, SpawnReads
  <2>3. ReadLeaf(leaf) = EncodeSpawn(spawn)
    BY <2>1, <2>2, LeafReads
  <2> QED BY <2>2, <2>3
<1>2. IInv => LeafReadsBack
  BY <1>1 DEF LeafReadsBack, SpawnRead
<1> QED BY <1>2, AttestationInvariant, PTL

\* Of any noun: the runtime parses the key file and cues from it the noun jam was
\* given, every back-reference resolved (jam, jam_feed, src/src/urb/boot.rs).
THEOREM AttestationFeedReadsBack == Spec => []FeedReadsBack
<1>1. ASSUME IInv, keyFile # None
      PROVE  UwParses(keyFile) /\ Cue(ReadUw(keyFile)) = Key(noun)
  <2>1. JamInv /\ Jammed /\ keyFile = Uw(IntoBytes(out))
    BY <1>1 DEF IInv, Spelled
  <2> QED BY <2>1, FeedReads
<1>2. IInv => FeedReadsBack
  BY <1>1 DEF FeedReadsBack
<1> QED BY <1>2, AttestationInvariant, PTL

\* What a finished job leaves on chain and on the Airlock.
LEMMA DoneIs ==
    ASSUME IInv, pc = "done", text # None
    PROVE  /\ ReadSpawn(ReadLeaf(leaf)) = SpawnRead(SpawnOfJob)
           /\ AtomAt(Cue(ReadUw(keyFile)), <<1, 0>>) = Trim(mined.comet)
           /\ AtomAt(Cue(ReadUw(keyFile)), <<1, 1, 1, 0, 1>>) = Trim(mined.ring)
<1>1. Assembled /\ Spelled
  BY DEF IInv
<1>2. IsSpawn(SpawnOfJob) /\ mined.comet \in Seq(Bit) /\ mined.ring \in Seq(Bit)
  BY <1>1, JobIs DEF Assembled
<1>3. EncodeSpawn(SpawnOfJob) \in Seq(Bit) /\ ReadSpawn(EncodeSpawn(SpawnOfJob)) = SpawnRead(SpawnOfJob)
  BY <1>2, SpawnReads
<1>4. leaf = Leaf(EncodeSpawn(SpawnOfJob), LeafKey)
  BY <1>1 DEF Assembled
<1>5. ReadLeaf(leaf) = EncodeSpawn(SpawnOfJob)
  BY <1>3, <1>4, LeafReads
<1>6. Cue(ReadUw(keyFile)) = Key(noun)
  <2>1. JamInv /\ Jammed /\ keyFile = Uw(IntoBytes(out))
    BY <1>1 DEF Spelled
  <2> QED BY <2>1, FeedReads
<1>7. noun = Feed(mined.comet, 0, 1, mined.ring)
  BY <1>1 DEF Assembled
<1>8. /\ AtomAt(Key(noun), <<1, 0>>) = Trim(mined.comet)
      /\ AtomAt(Key(noun), <<1, 1, 1, 0, 1>>) = Trim(mined.ring)
  BY <1>2, <1>7, FeedIs
<1> QED BY <1>3, <1>5, <1>6, <1>8

\* Of a job that ends: urb-core admits the comet of the feed for the coin the text
\* names and for no other, the attestation names that coin and its amount, and the
\* ring in the feed is that of the pass on chain (spawn_once and mine_until in
\* src/src/urb/mine.rs, SpawnJob and assemble_spawn in src/src/urb/spawn.rs).
THEOREM AttestationCometProvesItself == Spec => []CometProvesItself
<1>1. IInv => CometProvesItself
  <2> SUFFICES ASSUME IInv, pc = "done", text # None PROVE CometProvesItself
    BY DEF CometProvesItself
  <2> DEFINE s     == ReadSpawn(ReadLeaf(leaf))
             feed  == Cue(ReadUw(keyFile))
             ring  == AtomAt(feed, <<1, 1, 1, 0, 1>>)
             comet == LeBits(CometBits, AtomAt(feed, <<1, 0>>))
             vout  == IF s.vout = None THEN 0 ELSE s.vout.index
  <2>1. MinedIt /\ Mining
    BY DEF IInv, Assembled, MinedIt
  <2>2. s = SpawnRead(SpawnOfJob) /\ ring = Trim(mined.ring)
    BY DoneIs
  <2>3. /\ mined.comet \in Seq(Bit) /\ Len(mined.comet) = CometBits
        /\ Admits(mined.comet, SpawnRead(SpawnOfJob), Wire, text.vout)
        /\ PassOfRing(Trim(mined.ring)) = SpawnRead(SpawnOfJob).pass
    BY <2>1, JobIs
  <2>4. comet = mined.comet
    <3>1. comet = LeBits(Len(mined.comet), Trim(mined.comet))
      BY <2>3, DoneIs
    <3> QED BY <2>3, <3>1, TrimBack
  <2>5. /\ s.off = 0 /\ s.spkh = Spkh(FundingSpk, text.sats)
        /\ s.vout = IF text.vout = 0 THEN None ELSE [index |-> text.vout]
    BY <2>2 DEF SpawnRead, SpawnOfJob
  <2>6. vout = text.vout
    <3>1. text.vout \in Nat
      BY <2>1, TextIs DEF Mining
    <3>2. [index |-> text.vout] # None /\ [index |-> text.vout].index = text.vout
      BY <3>1, AttestationAssumption
    <3> QED BY <2>5, <3>2
  <2>7. Admits(comet, s, Wire, vout)
    BY <2>2, <2>3, <2>4, <2>6
  <2>8. PassOfRing(ring) = s.pass
    BY <2>2, <2>3
  <2>9. ASSUME NEW t \in Texts, Accepts(t), Admits(comet, s, InWireOrder(t.txid.digits), t.vout)
        PROVE  t.txid = text.txid /\ t.vout = text.vout
    <3>1. Admits(comet, s, Wire, text.vout)
      BY <2>6, <2>7
    <3> HIDE DEF s, comet
    <3> QED BY <2>1, <2>5, <2>9, <3>1, OneCoin
  <2> QED BY <2>5, <2>6, <2>7, <2>8, <2>9 DEF CometProvesItself
<1> QED BY <1>1, AttestationInvariant, PTL

\* Of any comet: the mnemonym decodes to it, the @p has the form other programs
\* parse, and is read to it unless the comet is a number urbit-ob scrambles, which is
\* what the assertion forbids (to_nym and to_patp in src/src/identity.rs).
THEOREM AttestationNamesReadBack == Spec => []NamesReadBack
<1>1. Init => IInv /\ NamesInv
  BY InitIInv, InitNames
<1>2. (IInv /\ NamesInv) /\ [Next]_vars => (IInv /\ NamesInv)'
  BY NextIInv, NextNames
<1>3. NamesInv => NamesReadBack
  <2> SUFFICES ASSUME NamesInv, names # None PROVE NamesReadBack
    BY DEF NamesReadBack
  <2>1. IsName(mined.comet) /\ names = NamesOf(mined.comet)
    BY DEF NamesInv, Named
  <2>2. /\ DecodeNym(ToNym(mined.comet), Len(mined.comet)) = mined.comet
        /\ PatpParses(ToPatp(mined.comet, ByteBits))
        /\ PatpScoped(mined.comet, ByteBits) =>
             ReadPatp(ToPatp(mined.comet, ByteBits), ByteBits, Len(mined.comet)) = mined.comet
    BY <2>1, NamesRead
  <2>3. names.nym = ToNym(mined.comet) /\ names.patp = ToPatp(mined.comet, ByteBits)
    BY <2>1 DEF NamesOf
  <2> QED BY <2>2, <2>3 DEF NamesReadBack
<1> QED BY <1>1, <1>2, <1>3, PTL DEF Spec
=============================================================================
