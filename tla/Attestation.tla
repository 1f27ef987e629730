----------------------------- MODULE Attestation ----------------------------
(***************************************************************************)
(* From the text of a funding UTXO to the leaf script that attests a comet *)
(* and the key file that boots it (src/src/urb/spawn.rs): the text is      *)
(* parsed, the comet mined, the %spawn encoded, the feed jammed one noun   *)
(* at a time and spelled.  The transactions around the leaf are Taproot's, *)
(* their fees SpawnTx's, the thread that mines Miner's.                    *)
(*   encode_spawn, jam and the namings are checked for more than the       *)
(* device passes them: a behaviour may also begin with any spawn, noun or  *)
(* comet.                                                                  *)
(***************************************************************************)
EXTENDS Comet, Jam, Words

CONSTANTS
    Texts,     \* what the user types or scans: see Text
    TxidHex,   \* hex digits of a transaction id (64)
    HexBits,   \* bits of a hex digit (4)
    MaxVout,   \* largest u32
    MaxSats,   \* largest u64
    Rings,     \* ring materials the random numbers may give
    MaxTries,  \* the budget
    FeeRate,   \* sats per virtual byte (2)
    CommitVb,  \* virtual bytes of a commit (112)
    RevealVb,  \* and of a reveal without its attestation
    Dust,      \* least amount the reveal's output may have (330)
    FundingSpk,\* script of the device's own funding address
    LeafKey,   \* its internal key
    Spawns,    \* other spawns for encode_spawn
    Nouns,     \* other nouns for jam
    Comets     \* other comets to name

\* A text: its colon-separated fields, the first three as what they say: how long
\* the id is, whether it begins with 0x, whether the rest is hex, and then its
\* bits in the explorer's order.
Text == [fields : Nat,
         txid   : [length : Nat, prefixed : BOOLEAN, hex : BOOLEAN, digits : Seq(Bit)],
         vout   : Nat \cup {None},   \* None: not a number
         sats   : Nat \cup {None}]

Unprefixed(txid) == txid.length - (IF txid.prefixed THEN 2 ELSE 0)

CometBits == HashBits \div 2

ASSUME AttestationAssumption ==
    /\ {TxidHex, MaxVout, MaxSats, MaxTries, HexBits} \subseteq Nat
    /\ {FeeRate, CommitVb, RevealVb} \subseteq Nat /\ Dust \in Nat \ {0}
    /\ (TxidHex * HexBits) % ByteBits = 0
    /\ Texts \subseteq Text
    /\ \A t \in Texts :
         t.txid.hex => Len(t.txid.digits) = Unprefixed(t.txid) * HexBits
    /\ None \notin [index : Nat]
    /\ \A ring \in Rings : ring \in Seq(Bit) /\ Len(ring) = 2 * HashBits
    /\ \A s \in Spawns : IsSpawn(s)
    /\ \A n \in Nouns : IsNoun(n)
    /\ \A comet \in Comets : comet \in Seq(Bit) /\ Len(comet) = CometBits
    /\ CometBits % (2 * ByteBits) = 0 /\ CometBits % UnitBits = 0

VARIABLES
    pc,      \* "enter", "mine", "assemble", "encode", "name", "jam", "done",
             \*   "refused", "exhausted", "failed": refused after the mining, or
             \*   "panicked": the thread is gone
    text,    \* what was entered, or None
    tries,
    mined,   \* the comet with its pass and ring, or None
    spawn,   \* what encode_spawn gets, or None
    leaf,    \* the leaf script, or None
    names,   \* the comet's names, or None
    keyFile  \* the text on the Airlock, or None

vars == <<pc, text, tries, mined, spawn, leaf, names, keyFile, jamVars>>

Init ==
    /\ tries = 0 /\ leaf = None /\ names = None /\ keyFile = None
    /\ out = <<>> /\ refs = <<>>
    /\ \/ /\ pc = "enter" /\ text \in Texts
          /\ mined = None /\ spawn = None /\ noun = None /\ todo = <<>>
       \/ /\ pc = "encode" /\ spawn \in Spawns
          /\ text = None /\ mined = None /\ noun = None /\ todo = <<>>
       \/ /\ pc = "name" /\ mined \in [comet : Comets]
          /\ text = None /\ spawn = None /\ noun = None /\ todo = <<>>
       \/ /\ pc = "jam" /\ noun \in Nouns /\ todo = << <<>> >>
          /\ text = None /\ mined = None /\ spawn = None

-----------------------------------------------------------------------------
(* The text. *)

\* A bug: 0x before the id is let through.
AcceptsPrefixed(t) ==
    /\ t.fields = 3
    /\ t.txid.length = TxidHex + (IF t.txid.prefixed THEN 2 ELSE 0) /\ t.txid.hex
    /\ t.vout # None /\ t.vout <= MaxVout
    /\ t.sats # None /\ t.sats <= MaxSats
    /\ t.sats > 0

\* parse_funding.
Accepts(t) ==
    /\ t.fields = 3
    /\ t.txid.length = TxidHex /\ ~t.txid.prefixed /\ t.txid.hex
    /\ t.vout # None /\ t.vout <= MaxVout
    /\ t.sats # None /\ t.sats <= MaxSats
    /\ t.sats > 0

\* What build_tweak_bytes takes, and later display_hex_to_wire: only the first
\* one drops 0x.
TweakTakes(t) == Unprefixed(t.txid) = TxidHex /\ t.txid.hex
WireTakes(t) == t.txid.length = TxidHex /\ ~t.txid.prefixed /\ t.txid.hex

\* The id's bytes the other way round: bytes stay, their order turns.
InWireOrder(digits) ==
    LET n == Len(digits) \div ByteBits
    IN  FlattenSeq([i \in 1..n |->
            SubSeq(digits, (n - i) * ByteBits + 1, (n - i + 1) * ByteBits)])

Wire == InWireOrder(text.txid.digits)

\* The tweak of this job: the offset is zero.
JobTweak == Tweak(Wire, text.vout, 0)

\* set_funding, and SpawnJob::new.
Enter ==
    /\ pc = "enter"
    /\ pc' = IF Accepts(text) /\ TweakTakes(text) THEN "mine" ELSE "refused"
    /\ UNCHANGED <<text, tries, mined, spawn, leaf, names, keyFile, jamVars>>

-----------------------------------------------------------------------------
(* mine_until. *)

Found(ring) == Star(Candidate(ring, JobTweak)) = RequiredStar

Try(ring) ==
    /\ pc = "mine" /\ tries < MaxTries
    /\ tries' = tries + 1
    /\ IF Found(ring)
       THEN mined' = Mined(ring, JobTweak) /\ pc' = "assemble"
       ELSE UNCHANGED <<mined, pc>>
    /\ UNCHANGED <<text, spawn, leaf, names, keyFile, jamVars>>

GiveUp ==
    /\ pc = "mine" /\ tries = MaxTries
    /\ pc' = "exhausted"
    /\ UNCHANGED <<text, tries, mined, spawn, leaf, names, keyFile, jamVars>>

-----------------------------------------------------------------------------
(* assemble_spawn. *)

\* The %spawn: the coin that is spent, index zero as none.
SpawnOfJob ==
    [pass |-> mined.pass, fief |-> None,
     spkh |-> Spkh(FundingSpk, text.sats), off |-> 0, tej |-> 0,
     vout |-> IF text.vout = 0 THEN None ELSE [index |-> text.vout]]

NamesOf(comet) == [nym |-> ToNym(comet), patp |-> ToPatp(comet, ByteBits)]

Number(n) == Atom(Low(BitLength(n), n))

\* jam_feed: [[2 0] comet rift [[life ring] 0]].
Feed(comet, rift, life, ring) ==
    Cell(Cell(Number(2), Number(0)),
         Cell(Atom(comet),
              Cell(Number(rift),
                   Cell(Cell(Number(life), Atom(ring)), Number(0)))))

\* A virtual byte is four of the witness, where the attestation is; the exact sizes
\* are SpawnTx's.
CommitFee == CommitVb * FeeRate
RevealFee(spend) == (RevealVb + Len(EncodeSpawn(spend)) \div (4 * ByteBits)) * FeeRate

\* build_and_sign_spawn's refusals at the device's rate: nothing is left after
\* the commit's fee, or dust after the reveal's.
Affords(sats, spend) ==
    /\ sats >= CommitFee /\ sats - CommitFee > 0
    /\ sats - CommitFee >= RevealFee(spend)
    /\ sats - CommitFee - RevealFee(spend) >= Dust

Assemble ==
    /\ pc = "assemble"
    /\ spawn' = SpawnOfJob
    /\ IF WireTakes(text) /\ Affords(text.sats, spawn')
       THEN /\ pc' = "jam"
            /\ leaf' = Leaf(EncodeSpawn(spawn'), LeafKey)
            /\ names' = NamesOf(mined.comet)
            /\ StartJam(Feed(mined.comet, 0, 1, mined.ring))
       ELSE pc' = "failed" /\ UNCHANGED <<leaf, names, jamVars>>
    /\ UNCHANGED <<text, tries, mined, keyFile>>

\* A debug build, as on the simulator, ends the thread at to_patp's assertion; a
\* release build, as on the device, has none and goes on.
Panic ==
    /\ \/ pc = "name"
       \/ pc = "assemble" /\ WireTakes(text) /\ Affords(text.sats, SpawnOfJob)
    /\ ~PatpScoped(mined.comet, ByteBits)
    /\ pc' = "panicked"
    /\ UNCHANGED <<text, tries, mined, spawn, leaf, names, keyFile, jamVars>>

JamStep == pc = "jam" /\ Encode /\ UNCHANGED <<pc, text, tries, mined, spawn, leaf, names, keyFile>>

\* The key file and the boot command.
Spell ==
    /\ pc = "jam" /\ Jammed
    /\ keyFile' = Uw(IntoBytes(out))
    /\ pc' = "done"
    /\ UNCHANGED <<text, tries, mined, spawn, leaf, names, jamVars>>

\* encode_spawn for another caller.
EncodeAny ==
    /\ pc = "encode"
    /\ leaf' = Leaf(EncodeSpawn(spawn), LeafKey)
    /\ pc' = "done"
    /\ UNCHANGED <<text, tries, mined, spawn, names, keyFile, jamVars>>

\* to_nym and to_patp of any comet.
NameAny ==
    /\ pc = "name"
    /\ names' = NamesOf(mined.comet)
    /\ pc' = "done"
    /\ UNCHANGED <<text, tries, mined, spawn, leaf, keyFile, jamVars>>

Next ==
    \/ Enter
    \/ \E ring \in Rings : Try(ring)
    \/ GiveUp
    \/ Assemble
    \/ Panic
    \/ JamStep
    \/ Spell
    \/ EncodeAny
    \/ NameAny

Spec == Init /\ [][Next]_vars

-----------------------------------------------------------------------------
(* Properties. *)

\* Assembly only fails on a too small UTXO (the comment at spawn.rs:237): the job
\* takes every text that parses, and when the search for its comet is over the id,
\* converted once more and by stricter rules, is not what it fails on -- it fails
\* where the two fees and the reveal's output do not fit the amount, and only there.
FailsOnlyIfShort ==
    /\ pc = "refused" => ~Accepts(text)
    /\ (text # None /\ spawn # None) =>
         (pc = "failed" <=> text.sats < CommitFee + RevealFee(spawn) + Dust)

\* urb-core reads from the leaf script, across its pushes, exactly the spawn that
\* was written: no field runs into the next, whatever zeros they end in.
LeafReadsBack ==
    leaf # None =>
        ReadSpawn(ReadLeaf(leaf)) =
            [op |-> 1, pass |-> Trim(spawn.pass), fief |-> spawn.fief,
             spkh |-> spawn.spkh, off |-> spawn.off, tej |-> spawn.tej,
             vout |-> spawn.vout]

\* The runtime reads from the key file exactly the noun that was jammed: the dots
\* parse, the back-references lead to the nouns they stand for.
FeedReadsBack ==
    keyFile # None =>
        /\ UwParses(keyFile)
        /\ Cue(ReadUw(keyFile)) = Key(noun)

\* What the chain and the computer know of a comet agrees, and ties it to one
\* coin: urb-core admits the comet of the boot feed for the spent coin and for no
\* other, and the ring in the feed is the one whose pass is on chain.
CometProvesItself ==
    (pc = "done" /\ text # None) =>
        LET s    == ReadSpawn(ReadLeaf(leaf))
            feed == Cue(ReadUw(keyFile))
            ring == AtomAt(feed, <<1, 1, 1, 0, 1>>)
            comet == LeBits(CometBits, AtomAt(feed, <<1, 0>>))
            vout == IF s.vout = None THEN 0 ELSE s.vout.index
        IN  /\ Admits(comet, s, Wire, vout)
            /\ vout = text.vout
            /\ s.spkh = Spkh(FundingSpk, text.sats)
            /\ PassOfRing(ring) = s.pass
            /\ \A t \in Texts :
                 Accepts(t) /\ Admits(comet, s, InWireOrder(t.txid.digits), t.vout)
                   => t.txid = text.txid /\ t.vout = text.vout

\* The mnemonym of any comet leads back to it: no two comets share one.  The @p
\* the boot command carries is in the form other programs parse, and leads back to
\* every comet to_patp is meant for (the assertion at identity.rs:45): its bound,
\* on bytes, leaves out all that urbit-ob, going by the number, would unscramble.
NamesReadBack ==
    names # None =>
        /\ DecodeNym(names.nym, Len(mined.comet)) = mined.comet
        /\ PatpParses(names.patp)
        /\ PatpScoped(mined.comet, ByteBits) =>
             ReadPatp(names.patp, ByteBits, Len(mined.comet)) = mined.comet
=============================================================================
