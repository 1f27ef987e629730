----------------------------- MODULE MCCustody ------------------------------
(***************************************************************************)
(* Model-checking instance of Custody: tickets of six bits as phrases of   *)
(* four words, a curve of prime order, hashes that tell apart what they    *)
(* are given.  The tickets are chosen so that both parities occur.         *)
(***************************************************************************)
EXTENDS Custody

Poly(bits, base, modulus) == FoldLeft(LAMBDA h, b : (h * base + b + 1) % modulus, 7, bits)
MCChecksum(bits) == {i \in 1..4 : Low(4, Poly(bits, 43, 251))[i] = 1}

MCOddY(p) == p % 2 = 1
MCMaster(seed) == [key |-> Poly(seed, 53, Order), chain |-> Poly(seed, 31, 4093)]
MCHmac(chain, parent, index) ==
    LET n == IF "secret" \in DOMAIN parent THEN 2 * parent.secret ELSE 2 * parent.point + 1
    IN  [key |-> (chain * 5 + n * 7 + index + 1) % Order, chain |-> (chain + n) % 4093]
MCTapTweak(x, root) ==
    IF root = None THEN (x * 17 + 3) % Order
    ELSE LET dat == root.script.envelope
         IN  (x * 19 + dat.ring * 101 + dat.spkh.value * 211
                + dat.satpoint.vout * 401 + dat.satpoint.txid.of.payment * 601) % Order

MCTickets == {<<0, 0, 1, 0, 1, 1>>, <<1, 0, 1, 1, 0, 0>>}
MCTaps == [1..4 -> WordSet]

Wallet(n) == [kind |-> "wallet", of |-> [payment |-> n]]
MCWalletCoins == [txid : {Wallet(1)}, vout : {0, 1}, value : {6}]
MCUtxos ==
    MCWalletCoins
    \cup {[txid |-> Wallet(1), vout |-> 0, value |-> v] : v \in {4, 5}}

MCRingOf(seed, satpoint) == 1 + ((seed[1] + satpoint.vout) % 2)
=============================================================================
