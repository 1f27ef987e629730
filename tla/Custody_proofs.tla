--------------------------- MODULE Custody_proofs ---------------------------
(***************************************************************************)
(* What Custody checks on a small curve holds for every curve order, every *)
(* hash function without the collisions its assumptions exclude, any       *)
(* tickets, UTXOs and fees.                                                *)
(***************************************************************************)
EXTENDS Custody, TLAPS

Ok(seed) == Node(seed).key \in 1..(Order - 1)

-----------------------------------------------------------------------------
(* Keys. *)

\* A point and its negation have the same x.
LEMMA XOfNeg ==
    ASSUME NEW p \in 1..(Order - 1)
    PROVE  X(Neg(p)) = X(p)
BY CurveAssumption DEF X, Neg

\* The x of a point lifts to the one of the two with an even y.
LEMMA LiftOfX ==
    ASSUME NEW p \in 1..(Order - 1)
    PROVE  LiftX(X(p)) = IF OddY(p) THEN Neg(p) ELSE p
<1>1. Neg(p) = Order - p /\ Neg(p) \in 1..(Order - 1) /\ Neg(Neg(p)) = p
    BY CurveAssumption DEF Neg
<1>2. OddY(p) \in BOOLEAN /\ OddY(Neg(p)) = ~OddY(p)
    BY <1>1, CurveAssumption
<1>3. CASE p <= Neg(p)
    <2>1. X(p) = p
        BY <1>3 DEF X
    <2>2. QED
        BY <2>1 DEF LiftX
<1>4. CASE ~(p <= Neg(p))
    <2>1. X(p) = Neg(p)
        BY <1>4 DEF X
    <2>2. QED
        BY <1>1, <1>2, <2>1 DEF LiftX
<1>5. QED
    BY <1>3, <1>4

\* derive_funding_address and BIP-86 agree: negating the secret of a point with an
\* odd y is lifting its x.
THEOREM AddressIsBip86 ==
    ASSUME NEW seed, Ok(seed)
    PROVE  Bip86(seed) = ScriptOf(FundingAddress(seed))
<1> DEFINE k == Node(seed).key
<1>1. LiftX(X(k)) = IF OddY(k) THEN Neg(k) ELSE k
    BY LiftOfX DEF Ok
<1>2. KeyPath(seed).outputX = X(Add(LiftX(X(k)), TapTweak(X(k), None)))
    BY <1>1 DEF KeyPath
<1>3. QED
    BY <1>2 DEF Bip86, ScriptOf, FundingAddress, P2tr

\* Both signing keys are the ones that are paid: the output key in the address,
\* the internal key in the leaf.
LEMMA SigningKeys ==
    ASSUME NEW seed, Ok(seed)
    PROVE  /\ X(KeyPath(seed).dOutput) = KeyPath(seed).outputX
           /\ X(KeyPath(seed).dInternal) = KeyPath(seed).internalX
<1>1. X(Neg(Node(seed).key)) = X(Node(seed).key)
    BY XOfNeg DEF Ok
<1>2. QED
    BY <1>1 DEF KeyPath

-----------------------------------------------------------------------------
(* Transactions. *)

IsUtxo(u) ==
    /\ DOMAIN u = {"txid", "vout", "value"}
    /\ u.txid.kind = "wallet" /\ u.vout \in Nat /\ u.value \in Nat

\* A coin that is as the device was told is spent by the commit.
LEMMA CommitValid ==
    ASSUME NEW seed, Ok(seed), NEW u, IsUtxo(u), NEW dat
    PROVE  Valid(Coin(u.txid, u.vout, [value |-> u.value, spk |-> Spk(seed)]),
                 Commit(seed, u, dat))
<1> DEFINE coin == Coin(u.txid, u.vout, [value |-> u.value, spk |-> Spk(seed)])
           s    == Commit(seed, u, dat)
           out  == [value |-> u.value, spk |-> Spk(seed)]
<1>1. /\ s.tx = CommitTx(seed, u, dat)
      /\ s.witness = <<KeyPathSign(seed, Sighash(s.tx, out, None))>>
    BY DEF Commit
<1>2. /\ s.tx.prevout = [txid |-> coin.txid, vout |-> coin.vout]
      /\ s.tx.out.value = u.value - CommitFee
    BY <1>1 DEF CommitTx, CommitOut, Tx, Coin
<1>3. coin.value = u.value /\ coin.spk = Spk(seed)
    BY DEF Coin
<1>4. s.tx.out.value <= coin.value
    BY <1>2, <1>3, FeeAssumption DEF IsUtxo
<1>5. Sighash(s.tx, out, None) = SigMsg(s.tx, coin, None)
    BY <1>2, <1>3 DEF Sighash, SigMsg
<1>6. SchnorrVerifies(coin.spk.program, SigMsg(s.tx, coin, None), s.witness[1])
    BY <1>1, <1>3, <1>5, SigningKeys
       DEF KeyPathSign, SchnorrSign, SchnorrVerifies, Spk, P2tr
<1>7. Len(s.witness) = 1
    BY <1>1
<1>8. KeyPathValid(coin, s)
    BY <1>6, <1>7 DEF KeyPathValid
<1>9. QED
    BY <1>2, <1>4, <1>8 DEF Valid

\* The commit's output is spent by the reveal.
LEMMA RevealValid ==
    ASSUME NEW seed, Ok(seed), NEW u, IsUtxo(u), NEW dat
    PROVE  Valid(Coin(Txid(CommitTx(seed, u, dat)), 0, CommitTx(seed, u, dat).out),
                 Reveal(seed, u, dat))
<1> DEFINE coin == Coin(Txid(CommitTx(seed, u, dat)), 0, CommitTx(seed, u, dat).out)
           s    == Reveal(seed, u, dat)
           x    == KeyPath(seed).internalX
           root == Root(seed, dat)
           out  == CommitOut(seed, u, dat)
           q    == Add(LiftX(x), TapTweak(x, root))
<1>1. /\ s.tx = RevealTx(seed, u, dat)
      /\ s.witness = <<ScriptPathSign(seed, Sighash(s.tx, out, root)), root.script,
                       ControlBlock(x, TaprootOutput(x, root).odd)>>
    BY DEF Reveal
<1>2. CommitTx(seed, u, dat).out = [value |-> out.value, spk |-> out.spk]
    BY DEF CommitTx, Tx
<1>3. coin.value = out.value /\ coin.spk = out.spk
    BY <1>2 DEF Coin
<1>4. s.tx.prevout = [txid |-> coin.txid, vout |-> coin.vout]
    BY <1>1 DEF RevealTx, Tx, Coin
<1>5. s.tx.out.value <= coin.value
    <2>1. s.tx.out.value = u.value - CommitFee - RevealFee
        BY <1>1 DEF RevealTx, Tx
    <2>2. coin.value = u.value - CommitFee
        BY <1>3 DEF CommitOut
    <2>3. QED
        BY <2>1, <2>2, FeeAssumption DEF IsUtxo
<1>6. Sighash(s.tx, out, root) = SigMsg(s.tx, coin, root)
    BY <1>3, <1>4 DEF Sighash, SigMsg
<1>7. /\ s.witness[1] = ScriptPathSign(seed, SigMsg(s.tx, coin, root))
      /\ s.witness[2] = root.script
      /\ s.witness[3] = ControlBlock(x, TaprootOutput(x, root).odd)
      /\ Len(s.witness) = 3
    BY <1>1, <1>6
<1>8. /\ s.witness[3].internal = x /\ s.witness[3].version = LeafVersion
      /\ s.witness[3].odd = OddY(q)
    BY <1>7 DEF ControlBlock, TaprootOutput
<1>9. root = [version |-> LeafVersion, script |-> root.script] /\ root.script.checksig = x
    BY DEF Root, TapLeaf, UrbLeaf
<1>10. X(q) = coin.spk.program
    BY <1>3 DEF CommitOut, P2tr, TaprootOutput
<1>11. SchnorrVerifies(root.script.checksig, SigMsg(s.tx, coin, root), s.witness[1])
    BY <1>7, <1>9, SigningKeys DEF ScriptPathSign, SchnorrSign, SchnorrVerifies
<1>12. ScriptPathValid(coin, s)
    <2> HIDE DEF coin, s, x, root, out
    <2>1. QED
        BY <1>7, <1>8, <1>9, <1>10, <1>11 DEF ScriptPathValid
<1>13. QED
    BY <1>4, <1>5, <1>12 DEF Valid

\* A commit spends nothing but the coin the device was told, as it was told: the
\* signature is over its amount and script.
LEMMA CommitSpendsOnly ==
    ASSUME NEW seed, NEW u, NEW dat, NEW coin,
           Valid(coin, Commit(seed, u, dat))
    PROVE  /\ coin.txid = u.txid /\ coin.vout = u.vout
           /\ coin.value = u.value /\ coin.spk = Spk(seed)
<1> DEFINE s   == Commit(seed, u, dat)
           out == [value |-> u.value, spk |-> Spk(seed)]
<1>1. /\ s.tx = CommitTx(seed, u, dat)
      /\ s.witness = <<KeyPathSign(seed, Sighash(s.tx, out, None))>>
    BY DEF Commit
<1>2. Len(s.witness) = 1 /\ s.witness[1] = KeyPathSign(seed, Sighash(s.tx, out, None))
    BY <1>1
<1>3. s.tx.prevout = [txid |-> u.txid, vout |-> u.vout]
    BY <1>1 DEF CommitTx, Tx
<1>4. s.tx.prevout = [txid |-> coin.txid, vout |-> coin.vout]
    BY DEF Valid
<1>5. coin.txid = u.txid /\ coin.vout = u.vout
    BY <1>3, <1>4
<1>6. KeyPathValid(coin, s)
    BY <1>2 DEF Valid, ScriptPathValid
<1>7. Sighash(s.tx, out, None) = SigMsg(s.tx, coin, None)
    BY <1>2, <1>6 DEF KeyPathValid, SchnorrVerifies, KeyPathSign, SchnorrSign
<1>8. /\ Sighash(s.tx, out, None).amount = SigMsg(s.tx, coin, None).amount
      /\ Sighash(s.tx, out, None).spk = SigMsg(s.tx, coin, None).spk
    BY <1>7
<1>9. coin.value = u.value /\ coin.spk = Spk(seed)
    BY <1>8 DEF Sighash, SigMsg
<1>10. QED
    BY <1>5, <1>9

\* A reveal spends nothing but an output of its own commit.
LEMMA RevealSpendsOnly ==
    ASSUME NEW seed, NEW u, NEW dat, NEW coin, Valid(coin, Reveal(seed, u, dat))
    PROVE  coin.txid = Txid(CommitTx(seed, u, dat)) /\ coin.vout = 0
<1>1. Reveal(seed, u, dat).tx.prevout = [txid |-> Txid(CommitTx(seed, u, dat)), vout |-> 0]
    BY DEF Reveal, RevealTx, Tx
<1>2. Reveal(seed, u, dat).tx.prevout = [txid |-> coin.txid, vout |-> coin.vout]
    BY DEF Valid
<1>3. QED
    BY <1>1, <1>2

-----------------------------------------------------------------------------
(* The inductive invariant. *)

\* The tickets past the quiz are tickets, and their words are a phrase of theirs.
BackedInv ==
    \A b \in backed :
        /\ b.ticket \in Tickets /\ b.words \in Taps
        /\ Confirms(b.words, FundingAddress(b.ticket))

\* A spawn the device can make.
Makes(seed, utxo, ring) ==
    seed \in BackedTickets /\ utxo \in Utxos /\ ring \in RingsOf(seed, utxo)

ShownInv ==
    \A s \in shown : \E seed, utxo, ring :
        Makes(seed, utxo, ring) /\ s = SpawnFor(seed, utxo, ring)

\* What confirmed is half of such a spawn and valid for its coin.
SpendInv ==
    \A f \in spends :
        /\ Valid(f.coin, f.by)
        /\ \E seed, utxo, ring :
             /\ Makes(seed, utxo, ring)
             /\ f.by \in {SpawnFor(seed, utxo, ring).commit, SpawnFor(seed, utxo, ring).reveal}

\* Every coin, spent or not, was paid by the wallet or made by what confirmed.
Paid(coin) ==
    coin.txid.kind = "wallet" /\ \E seed \in BackedTickets : coin.spk = Spk(seed)
Made(coin) == \E f \in spends : coin = Coin(Txid(f.by.tx), 0, f.by.tx.out)

CoinInv ==
    /\ \A coin \in coins : Paid(coin) \/ Made(coin)
    /\ \A f \in spends : Paid(f.coin) \/ Made(f.coin)

Inv == BackedInv /\ ShownInv /\ SpendInv /\ CoinInv

LEMMA UtxosAreUtxos == \A u \in WalletCoins \cup Utxos : IsUtxo(u)
BY CustodyAssumption DEF IsUtxo

LEMMA BackedAreOk ==
    ASSUME BackedInv, NEW seed \in BackedTickets
    PROVE  seed \in Tickets /\ Ok(seed)
BY CustodyAssumption DEF BackedInv, BackedTickets, Ok

LEMMA RingsAreRings ==
    ASSUME NEW seed \in Tickets, NEW utxo \in Utxos
    PROVE  RingsOf(seed, utxo) \subseteq Rings
BY CustodyAssumption DEF RingsOf

\* Both halves of a spawn.
LEMMA Halves ==
    ASSUME NEW seed, NEW utxo, NEW ring
    PROVE  /\ SpawnFor(seed, utxo, ring).commit = Commit(seed, utxo, AttestationOf(seed, utxo, ring))
           /\ SpawnFor(seed, utxo, ring).reveal = Reveal(seed, utxo, AttestationOf(seed, utxo, ring))
           /\ SpawnFor(seed, utxo, ring).ticket = seed
           /\ SpawnFor(seed, utxo, ring).utxo = utxo
BY DEF SpawnFor

\* Equal commits are of equal spawns.
LEMMA NoCollision ==
    ASSUME NEW s1 \in Tickets, NEW s2 \in Tickets, NEW u1 \in Utxos, NEW u2 \in Utxos,
           NEW r1 \in Rings, NEW r2 \in Rings,
           CommitTx(s1, u1, AttestationOf(s1, u1, r1)) = CommitTx(s2, u2, AttestationOf(s2, u2, r2))
    PROVE  s1 = s2 /\ u1 = u2 /\ r1 = r2
BY CollisionAssumption

\* Where the address is paid.
LEMMA AddressIsSpk == ASSUME NEW seed PROVE ScriptOf(FundingAddress(seed)) = Spk(seed)
BY DEF ScriptOf, FundingAddress, Spk, P2tr

\* What is backed, made and spent stays so.
LEMMA Grows ==
    ASSUME Inv, backed \subseteq backed', spends \subseteq spends'
    PROVE  /\ BackedTickets \subseteq BackedTickets'
           /\ \A seed, utxo, ring : Makes(seed, utxo, ring) => Makes(seed, utxo, ring)'
           /\ \A coin : Paid(coin) => Paid(coin)'
           /\ \A coin : Made(coin) => Made(coin)'
<1>1. BackedTickets \subseteq BackedTickets'
    BY DEF BackedTickets
<1>2. QED
    BY <1>1 DEF Makes, Paid, Made

THEOREM CustodyInvariant == Spec => []Inv
<1>1. Init => Inv
    BY DEF Init, Inv, BackedInv, ShownInv, SpendInv, CoinInv
<1>2. Inv /\ [Next]_vars => Inv'
    <2> SUFFICES ASSUME Inv, [Next]_vars PROVE Inv'
        OBVIOUS
    <2>1. ASSUME NEW seed \in Tickets, NEW words \in Taps, ConfirmBackup(seed, words)
          PROVE  Inv'
        <3>1. backed \subseteq backed' /\ UNCHANGED <<coins, shown, spends>>
            BY <2>1 DEF ConfirmBackup
        <3>2. BackedInv'
            <4>1. \A b \in backed' : b \in backed \/ b = [ticket |-> seed, words |-> words]
                BY <2>1 DEF ConfirmBackup
            <4>2. Confirms(words, FundingAddress(seed))
                BY <2>1 DEF ConfirmBackup
            <4>3. QED
                BY <4>1, <4>2 DEF Inv, BackedInv
        <3>3. QED
            BY <3>1, <3>2, Grows DEF Inv, ShownInv, SpendInv, CoinInv
    <2>2. ASSUME NEW seed \in Tickets, NEW utxo \in Utxos, NEW ring \in RingsOf(seed, utxo),
                 Spawn(seed, utxo, ring)
          PROVE  Inv'
        <3>1. UNCHANGED <<backed, coins, spends>> /\ seed \in BackedTickets
            BY <2>2 DEF Spawn
        <3>2. ShownInv'
            <4>1. Makes(seed, utxo, ring)'
                BY <3>1, <2>2 DEF Makes, BackedTickets
            <4>2. shown' = shown \cup {SpawnFor(seed, utxo, ring)}
                BY <2>2 DEF Spawn
            <4>3. QED
                BY <3>1, <4>1, <4>2, Grows DEF Inv, ShownInv
        <3>3. QED
            BY <3>1, <3>2, Grows DEF Inv, BackedInv, SpendInv, CoinInv
    <2>3. ASSUME NEW spawn \in shown, Forget(spawn)
          PROVE  Inv'
        <3>1. UNCHANGED <<backed, coins, spends>> /\ shown' \subseteq shown
            BY <2>3 DEF Forget
        <3>2. QED
            BY <3>1, Grows DEF Inv, BackedInv, ShownInv, SpendInv, CoinInv
    <2>4. ASSUME NEW seed \in Tickets, NEW c \in WalletCoins, Pay(seed, c)
          PROVE  Inv'
        <3> DEFINE coin == Coin(c.txid, c.vout,
                       [value |-> c.value, spk |-> ScriptOf(FundingAddress(seed))])
        <3>1. UNCHANGED <<backed, shown, spends>> /\ coins' = coins \cup {coin}
            BY <2>4 DEF Pay
        <3>2. Paid(coin)'
            <4>1. coin.txid.kind = "wallet" /\ coin.spk = Spk(seed)
                BY UtxosAreUtxos, AddressIsSpk DEF Coin, IsUtxo
            <4>2. (seed \in BackedTickets)'
                BY <3>1, <2>4 DEF Pay, BackedTickets
            <4>3. QED
                BY <4>1, <4>2 DEF Paid
        <3>3. CoinInv'
            BY <3>1, <3>2, Grows DEF Inv, CoinInv
        <3>4. QED
            BY <3>1, <3>3, Grows DEF Inv, BackedInv, ShownInv, SpendInv
    <2>5. ASSUME NEW coin \in coins, NEW s \in shown, NEW signed \in {s.commit, s.reveal},
                 Confirm(coin, signed)
          PROVE  Inv'
        <3> DEFINE new == Coin(Txid(signed.tx), 0, signed.tx.out)
                   f   == [coin |-> coin, by |-> signed]
        <3>1. /\ UNCHANGED <<backed, shown>> /\ Valid(coin, signed)
              /\ coins' = (coins \ {coin}) \cup {new}
              /\ spends' = spends \cup {f}
            BY <2>5 DEF Confirm
        <3>2. SpendInv'
            <4>1. PICK seed, utxo, ring :
                      Makes(seed, utxo, ring) /\ s = SpawnFor(seed, utxo, ring)
                BY DEF Inv, ShownInv
            <4>2. /\ Makes(seed, utxo, ring)'
                  /\ f.by \in {SpawnFor(seed, utxo, ring).commit, SpawnFor(seed, utxo, ring).reveal}
                  /\ Valid(f.coin, f.by)
                BY <3>1, <4>1, Grows
            <4>3. \A g \in spends : Valid(g.coin, g.by)
                BY DEF Inv, SpendInv
            <4>4. \A g \in spends : \E sd, u, r :
                      /\ Makes(sd, u, r)'
                      /\ g.by \in {SpawnFor(sd, u, r).commit, SpawnFor(sd, u, r).reveal}
                BY <3>1, Grows DEF Inv, SpendInv
            <4> HIDE DEF f
            <4>5. QED
                BY <3>1, <4>2, <4>3, <4>4 DEF SpendInv
        <3>3. CoinInv'
            <4>1. Made(new)'
                <5>1. f \in spends' /\ new = Coin(Txid(f.by.tx), 0, f.by.tx.out)
                    BY <3>1
                <5>2. QED
                    BY <5>1 DEF Made
            <4>2. Paid(f.coin)' \/ Made(f.coin)'
                <5>1. Paid(coin) \/ Made(coin)
                    BY DEF Inv, CoinInv
                <5>2. QED
                    BY <5>1, <3>1, Grows
            <4>3. /\ \A c \in coins : Paid(c)' \/ Made(c)'
                  /\ \A g \in spends : Paid(g.coin)' \/ Made(g.coin)'
                BY <3>1, Grows DEF Inv, CoinInv
            <4> HIDE DEF f, new
            <4>4. QED
                BY <3>1, <4>1, <4>2, <4>3 DEF CoinInv
        <3>4. QED
            BY <3>1, <3>2, <3>3, Grows DEF Inv, BackedInv, ShownInv
    <2>6. CASE UNCHANGED vars
        BY <2>6, Grows DEF vars, Inv, BackedInv, ShownInv, SpendInv, CoinInv
    <2>7. QED
        <3>1. ASSUME NEW coin \in coins,
                     NEW signed \in UNION {{s.commit, s.reveal} : s \in shown},
                     Confirm(coin, signed)
              PROVE  Inv'
            <4>1. PICK s \in shown : signed \in {s.commit, s.reveal}
                OBVIOUS
            <4>2. QED
                BY <2>5, <3>1, <4>1
        <3>2. QED
            BY <2>1, <2>2, <2>3, <2>4, <2>6, <3>1 DEF Next
<1>3. QED
    BY <1>1, <1>2, PTL DEF Spec

-----------------------------------------------------------------------------
(* The properties. *)

\* What the device made earlier, the coin of a commit is as the commit left it.
LEMMA CommitCoin ==
    ASSUME Inv, NEW coin, Paid(coin) \/ Made(coin), NEW tx, coin.txid = Txid(tx)
    PROVE  \E f \in spends : f.by.tx = tx /\ coin = Coin(Txid(tx), 0, tx.out)
<1>1. coin.txid.kind = "hash" /\ coin.txid.of = tx
    BY DEF Txid
<1>2. Made(coin)
    BY <1>1 DEF Paid
<1>3. PICK f \in spends : coin = Coin(Txid(f.by.tx), 0, f.by.tx.out)
    BY <1>2 DEF Made
<1>4. coin.txid = Txid(f.by.tx)
    BY <1>3 DEF Coin
<1>5. f.by.tx = tx
    BY <1>1, <1>4 DEF Txid
<1>6. QED
    BY <1>3, <1>5

\* The paper holds the money, for every curve, hash and word list without the
\* collisions AddressAssumption excludes.
THEOREM CustodyPaperRecovers == Spec => []PaperRecovers
<1>1. Inv => PaperRecovers
    <2> SUFFICES ASSUME Inv, NEW b \in backed
                 PROVE  /\ FromMnemonic(b.words) = b.ticket
                        /\ Bip86(FromMnemonic(b.words)) = ScriptOf(FundingAddress(b.ticket))
        BY DEF PaperRecovers
    <2>1. FromMnemonic(b.words) = b.ticket
        BY AddressAssumption DEF Inv, BackedInv, Confirms
    <2>2. Ok(b.ticket)
        BY BackedAreOk DEF Inv, BackedTickets
    <2>3. QED
        BY <2>1, <2>2, AddressIsBip86
<1>2. QED
    BY <1>1, CustodyInvariant, PTL

\* A spawn for a coin that is there as the device was told is accepted.
THEOREM CustodySpawnConfirms == Spec => []SpawnConfirms
<1>1. Inv => SpawnConfirms
    <2> SUFFICES ASSUME Inv, NEW s \in shown, NEW coin \in coins
                 PROVE  /\ coin = Coin(s.utxo.txid, s.utxo.vout,
                              [value |-> s.utxo.value, spk |-> ScriptOf(FundingAddress(s.ticket))])
                             => Valid(coin, s.commit)
                        /\ coin.txid = Txid(s.commit.tx) => Valid(coin, s.reveal)
        BY DEF SpawnConfirms
    <2>1. PICK seed, u, ring : Makes(seed, u, ring) /\ s = SpawnFor(seed, u, ring)
        BY DEF Inv, ShownInv
    <2> DEFINE dat == AttestationOf(seed, u, ring)
    <2>2. /\ s.commit = Commit(seed, u, dat) /\ s.reveal = Reveal(seed, u, dat)
          /\ s.ticket = seed /\ s.utxo = u
        BY <2>1, Halves
    <2>3. Ok(seed) /\ IsUtxo(u)
        BY <2>1, BackedAreOk, UtxosAreUtxos DEF Inv, Makes
    <2>4. Valid(Coin(u.txid, u.vout, [value |-> u.value, spk |-> Spk(seed)]), s.commit)
        BY <2>2, <2>3, CommitValid
    <2>5. ASSUME coin.txid = Txid(s.commit.tx) PROVE Valid(coin, s.reveal)
        <3>1. s.commit.tx = CommitTx(seed, u, dat)
            BY <2>2 DEF Commit
        <3>2. coin = Coin(Txid(CommitTx(seed, u, dat)), 0, CommitTx(seed, u, dat).out)
            BY <2>5, <3>1, CommitCoin DEF Inv, CoinInv
        <3>3. QED
            BY <2>2, <2>3, <3>2, RevealValid
    <2>6. QED
        BY <2>2, <2>4, <2>5, AddressIsSpk
<1>2. QED
    BY <1>1, CustodyInvariant, PTL

\* No coin is out of reach, where the random numbers come from the ticket.
THEOREM CustodyNothingStranded ==
    ASSUME ~OsRandom
    PROVE  Spec => []NothingStranded
<1>1. Inv => NothingStranded
    <2> SUFFICES ASSUME Inv, NEW coin \in coins
                 PROVE  \/ \E seed \in BackedTickets : coin.spk = ScriptOf(FundingAddress(seed))
                        \/ \E seed \in BackedTickets, utxo \in Utxos :
                             \A ring \in RingsOf(seed, utxo) :
                                 Valid(coin, SpawnFor(seed, utxo, ring).reveal)
        BY DEF NothingStranded
    <2>1. CASE Paid(coin)
        BY <2>1, AddressIsSpk DEF Paid
    <2>2. CASE Made(coin)
        <3>1. PICK f \in spends : coin = Coin(Txid(f.by.tx), 0, f.by.tx.out)
            BY <2>2 DEF Made
        <3>2. PICK seed, u, ring :
                  /\ Makes(seed, u, ring)
                  /\ f.by \in {SpawnFor(seed, u, ring).commit, SpawnFor(seed, u, ring).reveal}
            BY DEF Inv, SpendInv
        <3> DEFINE dat == AttestationOf(seed, u, ring)
        <3>3. seed \in BackedTickets /\ u \in Utxos /\ Ok(seed) /\ IsUtxo(u)
            BY <3>2, BackedAreOk, UtxosAreUtxos DEF Inv, Makes
        <3>4. CASE f.by = Commit(seed, u, dat)
            <4>1. f.by.tx = CommitTx(seed, u, dat)
                BY <3>4 DEF Commit
            <4>2. Valid(coin, SpawnFor(seed, u, ring).reveal)
                BY <3>1, <3>3, <4>1, RevealValid, Halves
            <4>3. \A r \in RingsOf(seed, u) : r = ring
                BY <3>2 DEF Makes, RingsOf
            <4>4. QED
                BY <3>3, <4>2, <4>3
        <3>5. CASE f.by = Reveal(seed, u, dat)
            <4>1. f.by.tx.out.spk = Spk(seed)
                BY <3>5 DEF Reveal, RevealTx, Tx
            <4>2. coin.spk = Spk(seed)
                BY <3>1, <4>1 DEF Coin
            <4>3. QED
                BY <3>3, <4>2, AddressIsSpk
        <3>6. QED
            BY <3>2, <3>4, <3>5, Halves
    <2>3. QED
        BY <2>1, <2>2 DEF Inv, CoinInv
<1>2. QED
    BY <1>1, CustodyInvariant, PTL

\* An attestation on chain is about the sat it is inscribed on.
THEOREM CustodyAttestsItsSat == Spec => []AttestsItsSat
<1>1. Inv => AttestsItsSat
    <2> SUFFICES ASSUME Inv, NEW r \in spends, Len(r.by.witness) = 3
                 PROVE  \E f \in spends :
                          LET dat == r.by.witness[2].envelope IN
                          /\ r.coin.txid = Txid(f.by.tx)
                          /\ dat.satpoint = [txid |-> f.coin.txid, vout |-> f.coin.vout]
                          /\ dat.spkh = [spk |-> f.coin.spk, value |-> f.coin.value]
                          /\ r.by.tx.out = [value |-> f.coin.value - CommitFee - RevealFee,
                                            spk |-> f.coin.spk]
        BY DEF AttestsItsSat
    <2>1. PICK seed, u, ring :
              /\ Makes(seed, u, ring)
              /\ r.by \in {SpawnFor(seed, u, ring).commit, SpawnFor(seed, u, ring).reveal}
        BY DEF Inv, SpendInv
    <2> DEFINE dat == AttestationOf(seed, u, ring)
    <2>2. r.by = Reveal(seed, u, dat)
        <3>1. Len(Commit(seed, u, dat).witness) = 1
            BY DEF Commit
        <3>2. QED
            BY <2>1, <3>1, Halves
    <2>3. r.coin.txid = Txid(CommitTx(seed, u, dat))
        BY <2>2, RevealSpendsOnly DEF Inv, SpendInv
    <2>4. PICK f \in spends : f.by.tx = CommitTx(seed, u, dat)
        BY <2>3, CommitCoin DEF Inv, CoinInv
    <2>5. PICK seed2, u2, ring2 :
              /\ Makes(seed2, u2, ring2)
              /\ f.by \in {SpawnFor(seed2, u2, ring2).commit, SpawnFor(seed2, u2, ring2).reveal}
        BY DEF Inv, SpendInv
    <2> DEFINE dat2 == AttestationOf(seed2, u2, ring2)
    <2>6. /\ seed \in Tickets /\ u \in Utxos /\ ring \in Rings /\ IsUtxo(u)
          /\ seed2 \in Tickets /\ u2 \in Utxos /\ ring2 \in Rings /\ IsUtxo(u2)
        BY <2>1, <2>5, BackedAreOk, UtxosAreUtxos, RingsAreRings DEF Inv, Makes
    <2>7. f.by = Commit(seed2, u2, dat2)
        <3>1. Reveal(seed2, u2, dat2).tx.prevout.txid.kind = "hash"
            BY DEF Reveal, RevealTx, Tx, Txid
        <3>2. CommitTx(seed, u, dat).prevout.txid.kind = "wallet"
            BY <2>6 DEF CommitTx, Tx, IsUtxo
        <3>3. QED
            BY <2>4, <2>5, <3>1, <3>2, Halves
    <2>8. f.by.tx = CommitTx(seed2, u2, dat2)
        BY <2>7 DEF Commit
    <2>9. seed2 = seed /\ u2 = u /\ ring2 = ring
        <3>1. CommitTx(seed, u, AttestationOf(seed, u, ring))
                = CommitTx(seed2, u2, AttestationOf(seed2, u2, ring2))
            BY <2>4, <2>8
        <3>2. QED
            BY <2>6, <3>1, NoCollision
    <2>10. /\ f.coin.txid = u.txid /\ f.coin.vout = u.vout
           /\ f.coin.value = u.value /\ f.coin.spk = Spk(seed)
        BY <2>7, <2>9, CommitSpendsOnly DEF Inv, SpendInv
    <2>11. r.by.witness[2].envelope = dat
        BY <2>2 DEF Reveal, Root, TapLeaf, UrbLeaf
    <2>12. /\ dat.satpoint = [txid |-> u.txid, vout |-> u.vout]
           /\ dat.spkh = [spk |-> Spk(seed), value |-> u.value]
        BY DEF AttestationOf
    <2>13. r.by.tx.out = [value |-> u.value - CommitFee - RevealFee, spk |-> Spk(seed)]
        BY <2>2 DEF Reveal, RevealTx, Tx
    <2>14. QED
        BY <2>3, <2>4, <2>10, <2>11, <2>12, <2>13
<1>2. QED
    BY <1>1, CustodyInvariant, PTL
=============================================================================
