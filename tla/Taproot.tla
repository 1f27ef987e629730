------------------------------ MODULE Taproot -------------------------------
(***************************************************************************)
(* The ticket's keys (src/src/identity.rs) and the two transactions they   *)
(* sign (src/src/urb/tx.rs), with what Bitcoin makes of them.              *)
(*   A point of the curve is its discrete logarithm: a point and its       *)
(* negation have one x, and exactly one of them an odd y.  SHA-512 and the *)
(* TapTweak hash are any functions; the hashes that only commit to what is *)
(* hashed (TapLeaf, TapSighash, the txid) stand for it.  A signature tells *)
(* key and message.  Lengths and the fee formula are SpawnTx's.            *)
(***************************************************************************)
EXTENDS Integers, Sequences

CONSTANTS
    Order,           \* of the curve
    OddY(_),         \* whether a point has an odd y
    Master(_),       \* HMAC of a seed: a key and a chain code
    Hmac(_, _, _),   \* HMAC under a chain code of a parent and an index
    TapTweak(_, _),  \* of an x and the root of a script tree, or None
    CommitFee, RevealFee,
    Dust,            \* the least amount of the reveal's output
    None

ASSUME CurveAssumption ==
    /\ Order \in Nat \ {0}
    /\ \A p \in 1..(Order - 1) : OddY(p) \in BOOLEAN /\ OddY(Order - p) = ~OddY(p)

ASSUME FeeAssumption == {CommitFee, RevealFee, Dust} \subseteq Nat /\ None \notin Nat

-----------------------------------------------------------------------------
(* The curve. *)

Add(p, q) == (p + q) % Order
Neg(p) == IF p = 0 THEN 0 ELSE Order - p

X(p) == IF p <= Neg(p) THEN p ELSE Neg(p)

\* lift_x_even.
LiftX(x) == IF OddY(x) THEN Neg(x) ELSE x

-----------------------------------------------------------------------------
(* The keys: taproot_keypath. *)

\* One level of BIP-32: a hardened child comes from the secret key, a normal one
\* from the point.
Child(node, index, hardened) ==
    LET parent == IF hardened THEN [secret |-> node.key] ELSE [point |-> node.key]
        h      == Hmac(node.chain, parent, index)
    IN  [key |-> Add(h.key, node.key), chain |-> h.chain]

\* m/86'/1'/0'/0/0.
Node(seed) ==
    Child(Child(Child(Child(Child(Master(seed),
        86, TRUE), 1, TRUE), 0, TRUE), 0, FALSE), 0, FALSE)

\* A bug: the secret of a point with an odd y is not negated.
KeyPathUnnegated(seed) ==
    LET k        == Node(seed).key
        dOutput  == Add(k, TapTweak(X(k), None))
    IN  [dInternal |-> k, internalX |-> X(k), dOutput |-> dOutput, outputX |-> X(dOutput)]

\* The internal key, its secret negated where the point's y is odd, and the
\* output key of a tree without scripts.
KeyPath(seed) ==
    LET k         == Node(seed).key
        dInternal == IF OddY(k) THEN Neg(k) ELSE k
        dOutput   == Add(dInternal, TapTweak(X(k), None))
    IN  [dInternal |-> dInternal, internalX |-> X(k),
         dOutput   |-> dOutput,   outputX   |-> X(dOutput)]

\* derive_funding_address.
FundingAddress(seed) == [hrp |-> "bc", version |-> 1, program |-> KeyPath(seed).outputX]

\* schnorr_sign: k256 normalizes the key.
SchnorrSign(secret, msg) == [key |-> X(secret), msg |-> msg]

KeyPathSign(seed, msg) == SchnorrSign(KeyPath(seed).dOutput, msg)
ScriptPathSign(seed, msg) == SchnorrSign(KeyPath(seed).dInternal, msg)

-----------------------------------------------------------------------------
(* The transactions. *)

P2tr(x) == [version |-> 1, program |-> x]

LeafVersion == 192

TapLeaf(script) == [version |-> LeafVersion, script |-> script]

TaprootOutput(internalX, root) ==
    LET q == Add(LiftX(internalX), TapTweak(internalX, root))
    IN  [x |-> X(q), odd |-> OddY(q)]

ControlBlock(internalX, odd) == [version |-> LeafVersion, odd |-> odd, internal |-> internalX]

\* urb_leaf_script: the envelope and the key that OP_CHECKSIG takes.
UrbLeaf(dat, x) == [envelope |-> dat, checksig |-> x]

\* One input, one output, no witness.
Tx(prevout, value, spk) ==
    [version |-> 2, locktime |-> 0, prevout |-> prevout, sequence |-> "final",
     out |-> [value |-> value, spk |-> spk]]

\* Of what serialize_no_witness writes.
Txid(tx) == [kind |-> "hash", of |-> tx]

\* A bug: the amount of what is spent is not signed.
SighashWithoutAmount(tx, prevout, leaf) ==
    [hashType |-> 0, version |-> tx.version, locktime |-> tx.locktime,
     prevout  |-> tx.prevout, amount |-> 0, spk |-> prevout.spk,
     sequence |-> tx.sequence, out |-> tx.out, index |-> 0, leaf |-> leaf]

\* What a signature commits to (sighash), for the one input that spends the output
\* `prevout`; leaf is None for a key-path spend.
Sighash(tx, prevout, leaf) ==
    [hashType |-> 0, version |-> tx.version, locktime |-> tx.locktime,
     prevout  |-> tx.prevout, amount |-> prevout.value, spk |-> prevout.spk,
     sequence |-> tx.sequence, out |-> tx.out, index |-> 0, leaf |-> leaf]

\* build_and_sign_spawn: whether the UTXO is worth both fees, and the signed pair.
Affords(utxo) ==
    /\ utxo.value - CommitFee > 0
    /\ utxo.value - CommitFee - RevealFee >= Dust

Spk(seed) == P2tr(KeyPath(seed).outputX)

Root(seed, dat) == TapLeaf(UrbLeaf(dat, KeyPath(seed).internalX))

CommitOut(seed, utxo, dat) ==
    [value |-> utxo.value - CommitFee,
     spk   |-> P2tr(TaprootOutput(KeyPath(seed).internalX, Root(seed, dat)).x)]

CommitTx(seed, utxo, dat) ==
    Tx([txid |-> utxo.txid, vout |-> utxo.vout],
       CommitOut(seed, utxo, dat).value, CommitOut(seed, utxo, dat).spk)

Commit(seed, utxo, dat) ==
    LET tx == CommitTx(seed, utxo, dat)
    IN  [tx |-> tx,
         witness |-> <<KeyPathSign(seed,
             Sighash(tx, [value |-> utxo.value, spk |-> Spk(seed)], None))>>]

\* A bug: the sat goes to the internal key, not to the funding address.
RevealTxToInternal(seed, utxo, dat) ==
    Tx([txid |-> Txid(CommitTx(seed, utxo, dat)), vout |-> 0],
       utxo.value - CommitFee - RevealFee, P2tr(KeyPath(seed).internalX))

RevealTx(seed, utxo, dat) ==
    Tx([txid |-> Txid(CommitTx(seed, utxo, dat)), vout |-> 0],
       utxo.value - CommitFee - RevealFee, Spk(seed))

Reveal(seed, utxo, dat) ==
    LET tx == RevealTx(seed, utxo, dat)
        x  == KeyPath(seed).internalX
        root == Root(seed, dat)
    IN  [tx |-> tx,
         witness |-> <<ScriptPathSign(seed, Sighash(tx, CommitOut(seed, utxo, dat), root)),
                       root.script,
                       ControlBlock(x, TaprootOutput(x, root).odd)>>]

-----------------------------------------------------------------------------
(* Bitcoin: a coin is an output that may be spent. *)

Coin(txid, vout, out) == [txid |-> txid, vout |-> vout, value |-> out.value, spk |-> out.spk]

\* BIP-341's message, for a transaction that spends the coin.
SigMsg(tx, coin, leaf) ==
    [hashType |-> 0, version |-> tx.version, locktime |-> tx.locktime,
     prevout  |-> [txid |-> coin.txid, vout |-> coin.vout],
     amount   |-> coin.value, spk |-> coin.spk,
     sequence |-> tx.sequence, out |-> tx.out, index |-> 0, leaf |-> leaf]

SchnorrVerifies(x, msg, sig) == sig = [key |-> x, msg |-> msg]

KeyPathValid(coin, signed) ==
    /\ Len(signed.witness) = 1
    /\ SchnorrVerifies(coin.spk.program, SigMsg(signed.tx, coin, None), signed.witness[1])

ScriptPathValid(coin, signed) ==
    /\ Len(signed.witness) = 3
    /\ LET script == signed.witness[2]
           block  == signed.witness[3]
           leaf   == [version |-> block.version, script |-> script]
           q      == Add(LiftX(block.internal), TapTweak(block.internal, leaf))
       IN  /\ X(q) = coin.spk.program /\ OddY(q) = block.odd
           /\ SchnorrVerifies(script.checksig, SigMsg(signed.tx, coin, leaf), signed.witness[1])

Valid(coin, signed) ==
    /\ signed.tx.prevout = [txid |-> coin.txid, vout |-> coin.vout]
    /\ signed.tx.out.value <= coin.value
    /\ KeyPathValid(coin, signed) \/ ScriptPathValid(coin, signed)

\* Where another wallet pays for an address.
ScriptOf(address) == [version |-> address.version, program |-> address.program]

\* BIP-86: the output key of the point, as another program derives it from a seed.
Bip86(seed) ==
    LET x == X(Node(seed).key)
    IN  P2tr(X(Add(LiftX(x), TapTweak(x, None))))
=============================================================================
