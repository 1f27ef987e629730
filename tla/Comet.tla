-------------------------------- MODULE Comet -------------------------------
(***************************************************************************)
(* One comet (src/src/urb/mine.rs, tweak.rs, encoder.rs, spawn.rs): the    *)
(* tweak that ties it to a satpoint, its networking key, fingerprint, pass *)
(* and ring, and the %spawn attestation in its leaf script -- and what     *)
(* urb-core makes of the leaf and the runtime of the ring.                 *)
(*   A byte string is the sequence of its bits, as in Bits.  A curve point *)
(* is its discrete logarithm; SHA-256 is any function, given by where the  *)
(* ones of its result are.                                                 *)
(***************************************************************************)
EXTENDS Bits

CONSTANTS
    Sha(_),        \* the ones in the SHA-256 of a bit string
    HashBits,      \* bits of its result (256); a comet has half as many
    CurveOrder,    \* order of the ed25519 base point
    PassTag,       \* 'c'
    RingTag,       \* 'C'
    TweakPrefix,   \* the bytes of 9, ~tyr, urb-watcher, btc, gw and 9
    Salt,          \* "cfig"
    RequiredStar,  \* ~daplyd
    StarBits,      \* bits of a star (16)
    ChunkBytes,    \* bytes of one push (520)
    ValueBits,     \* bits of an amount (64)
    IpBits,        \* bits of an address, one version of IP to another (32, 128)
    PortBits,      \* bits of a port (16)
    None

ASSUME CometAssumption ==
    /\ HashBits \in Nat \ {0} /\ HashBits % 2 = 0
    /\ CurveOrder \in Nat \ {0} /\ Fits(CurveOrder - 1, HashBits)
    /\ PassTag \in Nat /\ Fits(PassTag, ByteBits)
    /\ RingTag \in Nat /\ Fits(RingTag, ByteBits)
    /\ TweakPrefix \in Seq(Bit) /\ Salt \in Seq(Bit)
    /\ ChunkBytes \in Nat \ {0}
    /\ StarBits \in 1..(HashBits \div 2) /\ RequiredStar \in Nat /\ Fits(RequiredStar, StarBits)
    /\ IpBits \in [{4, 6} -> Nat] /\ PortBits \in Nat /\ ValueBits \in Nat

-----------------------------------------------------------------------------
(* The tweak. *)

\* The bits of a number in whole bytes, as few as it needs.
MinLe(n) == IntoBytes(Low(BitLength(n), n))

\* A bug: the output's index is left out.
TweakOfTransaction(txid, vout, off) == TweakPrefix \o txid \o MinLe(off)

\* build_tweak_bytes; the id is in wire order.
Tweak(txid, vout, off) == TweakPrefix \o txid \o MinLe(vout) \o MinLe(off)

-----------------------------------------------------------------------------
(* The comet. *)

\* SHA-256.
Hash(bits) ==
    LET ones == Sha(bits) IN [i \in 1..HashBits |-> IF i \in ones THEN 1 ELSE 0]

Scalar(bits) == NatOf(bits) % CurveOrder

\* A point in its compressed form.
Compressed(point) == Low(HashBits, point)

\* ed_point_from_seed: the clamp is part of the hash.
PointOf(seed) == Scalar(Hash(seed))
PubKey(seed) == Compressed(PointOf(seed))

\* ed_add_scalar_public.
Tweaked(point, scalar) == Compressed((point + Scalar(scalar)) % CurveOrder)

Xor(a, b) == [i \in DOMAIN a |-> (a[i] + (IF i <= Len(b) THEN b[i] ELSE 0)) % 2]

\* shas, for a salt no longer than a hash; shaf.
Shas(salt, msg) == Hash(Xor(Hash(msg), salt))
Shaf(salt, msg) ==
    LET h == Shas(salt, msg)
    IN  Xor(SubSeq(h, 1, HashBits \div 2), SubSeq(h, HashBits \div 2 + 1, HashBits))

\* The fingerprint of a networking key with its tweak.
Fingerprint(point, tweak) ==
    Shaf(Salt, Tweaked(point, Hash(Compressed(point) \o tweak)))

Star(comet) == NatOf(SubSeq(comet, 1, StarBits))

\* The two secret seeds of a ring.
SigningSeed(ring) == SubSeq(ring, 1, HashBits)
CryptSeed(ring)   == SubSeq(ring, HashBits + 1, 2 * HashBits)

PassAtom(sPub, cPub, tweak) ==
    IntoBytes(Low(ByteBits, PassTag) \o sPub \o cPub \o Mat(tweak))

RingAtom(ring, tweak) == IntoBytes(Low(ByteBits, RingTag) \o ring \o Mat(tweak))

\* spawn_once: the ring is SHA-512 of the random seed.
Candidate(ring, tweak) == Fingerprint(PointOf(SigningSeed(ring)), tweak)

\* What mine_until returns for the ring it accepts.
Mined(ring, tweak) ==
    [comet |-> Candidate(ring, tweak),
     pass  |-> PassAtom(PubKey(SigningSeed(ring)), PubKey(CryptSeed(ring)), tweak),
     ring  |-> RingAtom(ring, tweak)]

-----------------------------------------------------------------------------
(* The attestation. *)

\* A spawn: what fits the fields of a fixed width.
IsSpawn(s) ==
    /\ s.pass \in Seq(Bit) /\ s.spkh \in Seq(Bit) /\ Len(s.spkh) = HashBits
    /\ s.off \in Nat /\ s.tej \in Nat
    /\ s.vout = None \/ s.vout \in [index : Nat]
    /\ \/ s.fief = None
       \/ /\ s.fief \in [version : {4, 6}, ip : Nat, port : Nat]
          /\ Fits(s.fief.ip, IpBits[s.fief.version]) /\ Fits(s.fief.port, PortBits)

\* compute_spkh: which coin, by its script and amount.
Spkh(spk, value) == Hash(spk \o Low(ValueBits, value))

\* encode_fief_inline: no fief, or one of an IP version.
EncodeFief(fief) ==
    IF fief = None THEN Low(2, 0)
    ELSE Low(2, IF fief.version = 4 THEN 2 ELSE 3)
           \o Low(IpBits[fief.version], fief.ip) \o Low(PortBits, fief.port)

SpawnHead(s) == Low(7, 1) \o Low(1, 0) \o Mat(s.pass) \o EncodeFief(s.fief)

\* A bug: the script's hash is written as an atom of any length.
EncodeSpawnLooseHash(s) ==
    IntoBytes(
      SpawnHead(s) \o LeBits(SigBits(s.spkh), s.spkh) \o MatNat(s.off) \o MatNat(s.tej)
      \o (IF s.vout = None THEN Low(2, 0) ELSE Low(2, 1) \o MatNat(s.vout.index)))

\* encode_spawn: the %spawn opcode, zero padding, and the fields.
EncodeSpawn(s) ==
    IntoBytes(
      SpawnHead(s) \o LeBits(HashBits, s.spkh) \o MatNat(s.off) \o MatNat(s.tej)
      \o (IF s.vout = None THEN Low(2, 0) ELSE Low(2, 1) \o MatNat(s.vout.index)))

Op(name) == [op |-> name]
Push(data) == [push |-> data]
IsPush(item) == "push" \in DOMAIN item

Urb == <<"u", "r", "b">>

\* urb_leaf_script: the data in pushes of at most ChunkBytes.
Leaf(dat, key) ==
    LET size == ChunkBytes * ByteBits
        chunk(i) == Push(SubSeq(dat, (i - 1) * size + 1, Min({i * size, Len(dat)})))
    IN  <<Op("0"), Op("if"), Push(Urb)>>
          \o [i \in 1..((Len(dat) + size - 1) \div size) |-> chunk(i)]
          \o <<Op("endif"), Push(key), Op("checksig")>>

-----------------------------------------------------------------------------
(* urb-core: reads the leaf on chain. *)

\* The data of an urb envelope.
ReadLeaf(script) ==
    LET end == CHOOSE i \in DOMAIN script : script[i] = Op("endif")
    IN  FlattenSeq([i \in 1..(end - 4) |-> script[i + 3].push])

ReadFief(dat, p) ==
    LET kind    == NatOf(Cut(dat, p, 2))
        version == IF kind = 2 THEN 4 ELSE 6
        ip      == IpBits[version]
    IN  IF kind < 2 THEN [fief |-> None, next |-> p + 2]
        ELSE [fief |-> [version |-> version,
                        ip   |-> NatOf(Cut(dat, p + 2, ip)),
                        port |-> NatOf(Cut(dat, p + 2 + ip, PortBits))],
              next |-> p + 2 + ip + PortBits]

ReadSpawn(dat) ==
    LET pass == Rub(dat, 9)
        fief == ReadFief(dat, pass.next)
        off  == Rub(dat, fief.next + HashBits)
        tej  == Rub(dat, off.next)
        vout == Rub(dat, tej.next + 2)
    IN  [op   |-> NatOf(Cut(dat, 1, 7)),
         pass |-> pass.atom,
         fief |-> fief.fief,
         spkh |-> Cut(dat, fief.next, HashBits),
         off  |-> NatOf(off.atom),
         tej  |-> NatOf(tej.atom),
         vout |-> IF NatOf(Cut(dat, tej.next, 2)) = 0 THEN None
                  ELSE [index |-> NatOf(vout.atom)]]

ReadPass(pass) ==
    [tag  |-> NatOf(Cut(pass, 1, ByteBits)),
     sPub |-> Cut(pass, ByteBits + 1, HashBits),
     cPub |-> Cut(pass, ByteBits + HashBits + 1, HashBits),
     dat  |-> Rub(pass, ByteBits + 2 * HashBits + 1).atom]

\* The tweak and the comet of a networking key, as lib/urb-core.hoon has them
\* (tweak.rs, mine.rs quote it): the atoms joined, and the key moved by them.
UrbTweak(txid, vout, off) == FlattenSeq(<<TweakPrefix, txid, MinLe(vout), MinLe(off)>>)
UrbComet(sPub, tweak) ==
    LET key == Compressed((NatOf(sPub) + Scalar(Hash(sPub \o tweak))) % CurveOrder)
        h   == Hash(Xor(Hash(key), Salt))
    IN  [i \in 1..(HashBits \div 2) |-> (h[i] + h[i + HashBits \div 2]) % 2]

\* The comet urb-core admits for a spawn that reveals the coin txid:vout.
Admits(comet, spawn, txid, vout) ==
    LET pass == ReadPass(spawn.pass) IN
    /\ spawn.op = 1
    /\ pass.tag = PassTag
    /\ pass.dat = Trim(UrbTweak(txid, vout, spawn.off))
    /\ comet = UrbComet(pass.sPub, UrbTweak(txid, vout, spawn.off))
    /\ Star(comet) = RequiredStar

\* The runtime: the pass that goes with a ring.
ReadRing(ring) ==
    [tag  |-> NatOf(Cut(ring, 1, ByteBits)),
     ring |-> Cut(ring, ByteBits + 1, 2 * HashBits),
     dat  |-> Rub(ring, ByteBits + 2 * HashBits + 1).atom]

PassOfRing(ringAtom) ==
    LET r == ReadRing(ringAtom)
    IN  Trim(PassAtom(PubKey(SigningSeed(r.ring)), PubKey(CryptSeed(r.ring)), r.dat))
=============================================================================
