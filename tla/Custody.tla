------------------------------ MODULE Custody -------------------------------
(***************************************************************************)
(* A ticket from paper to chain: the quiz that proves the written words    *)
(* (src/src/wizard.rs), the coin paid to its address, the spawn the device *)
(* signs for the UTXO it is told (src/src/urb/spawn.rs), right or wrong,   *)
(* and the transactions as they confirm.  The device forgets a spawn when  *)
(* the app ends or the page is left; the user keeps the paper.             *)
(*   The steps of the wizard are Wizard's, the star search is Miner's: here *)
(* a ring stands for the comet that is found with it.                      *)
(***************************************************************************)
EXTENDS Taproot, Words

CONSTANTS
    Tickets,      \* tickets generated
    Taps,         \* what may be tapped in the quiz: sequences of words
    WalletCoins,  \* coins the user's wallet may pay: txid, vout, value
    Utxos,        \* what the device may be told, in the same form
    Rings,        \* the ring materials random numbers may give
    RingOf(_, _), \* the ring that is found with numbers drawn from the ticket, for
                  \*   the satpoint the comet is bound to
    OsRandom      \* TRUE: the numbers are the system's (not on the device)

EntropyBits == MinUnits * UnitBits

ASSUME CustodyAssumption ==
    /\ \A seed \in Tickets : Node(seed).key \in 1..(Order - 1)
    /\ \A c \in WalletCoins \cup Utxos :
         /\ DOMAIN c = {"txid", "vout", "value"}
         /\ c.txid.kind = "wallet"
         /\ c.vout \in Nat /\ c.value \in Nat
    /\ \A seed \in Tickets, u \in Utxos : RingOf(seed, [txid |-> u.txid, vout |-> u.vout]) \in Rings
    /\ OsRandom \in BOOLEAN

VARIABLES
    backed,  \* tickets past the quiz, each with the words that passed it
    coins,   \* what of the wallet's payments and of the spawns is unspent
    shown,   \* spawns on the screen or already copied from it
    spends   \* what confirmed: a coin and the transaction that spent it

vars == <<backed, coins, shown, spends>>

Init == backed = {} /\ coins = {} /\ shown = {} /\ spends = {}

BackedTickets == {b.ticket : b \in backed}

-----------------------------------------------------------------------------
(* The quiz. *)

\* confirm_backup: words of the right length with a right checksum, and the
\* address they derive is the one expected.
Confirms(words, address) ==
    LET entropy == FromMnemonic(words)
    IN  Len(entropy) = EntropyBits /\ FundingAddress(entropy) = address

\* No phrase has the address of another ticket.
ASSUME AddressAssumption ==
    \A seed \in Tickets, words \in Taps :
        Len(FromMnemonic(words)) = EntropyBits
          /\ FundingAddress(FromMnemonic(words)) = FundingAddress(seed)
            => FromMnemonic(words) = seed

ConfirmBackup(seed, words) ==
    /\ seed \notin BackedTickets
    /\ Confirms(words, FundingAddress(seed))
    /\ backed' = backed \cup {[ticket |-> seed, words |-> words]}
    /\ UNCHANGED <<coins, shown, spends>>

-----------------------------------------------------------------------------
(* The spawn. *)

\* spawn_rng, and the first of its rings whose comet, tweaked by the satpoint, has
\* the star.
RingsOf(seed, utxo) ==
    IF OsRandom THEN Rings ELSE {RingOf(seed, [txid |-> utxo.txid, vout |-> utxo.vout])}

\* A bug: the coin the attestation names is the commit's.
AttestationOfCommit(seed, utxo, ring) ==
    [ring |-> ring, satpoint |-> [txid |-> utxo.txid, vout |-> utxo.vout],
     spkh |-> [spk |-> Spk(seed), value |-> utxo.value - CommitFee]]

\* assemble_spawn: the comet is bound to the UTXO's satpoint, the attestation
\* names its script and amount.
AttestationOf(seed, utxo, ring) ==
    [ring |-> ring, satpoint |-> [txid |-> utxo.txid, vout |-> utxo.vout],
     spkh |-> [spk |-> Spk(seed), value |-> utxo.value]]

\* No two spawns have the same commit: its output key is a hash of the attestation.
ASSUME CollisionAssumption ==
    \A s1, s2 \in Tickets, u1, u2 \in Utxos, r1, r2 \in Rings :
        CommitTx(s1, u1, AttestationOf(s1, u1, r1)) = CommitTx(s2, u2, AttestationOf(s2, u2, r2))
          => s1 = s2 /\ u1 = u2 /\ r1 = r2

SpawnFor(seed, utxo, ring) ==
    LET dat == AttestationOf(seed, utxo, ring)
    IN  [ticket |-> seed, utxo |-> utxo,
         commit |-> Commit(seed, utxo, dat), reveal |-> Reveal(seed, utxo, dat)]

Spawn(seed, utxo, ring) ==
    /\ seed \in BackedTickets
    /\ Affords(utxo)
    /\ shown' = shown \cup {SpawnFor(seed, utxo, ring)}
    /\ UNCHANGED <<backed, coins, spends>>

\* The app ends, or its page is left, before the transactions are copied.
Forget(spawn) ==
    /\ shown' = shown \ {spawn}
    /\ UNCHANGED <<backed, coins, spends>>

-----------------------------------------------------------------------------
(* The chain. *)

\* The wallet pays one of its coins to the address on the screen.
Pay(seed, c) ==
    /\ seed \in BackedTickets
    /\ \A coin \in coins \cup {s.coin : s \in spends} :
         <<coin.txid, coin.vout>> # <<c.txid, c.vout>>
    /\ coins' = coins \cup
         {Coin(c.txid, c.vout, [value |-> c.value, spk |-> ScriptOf(FundingAddress(seed))])}
    /\ UNCHANGED <<backed, shown, spends>>

\* A copied transaction confirms.
Confirm(coin, signed) ==
    /\ Valid(coin, signed)
    /\ coins' = (coins \ {coin}) \cup {Coin(Txid(signed.tx), 0, signed.tx.out)}
    /\ spends' = spends \cup {[coin |-> coin, by |-> signed]}
    /\ UNCHANGED <<backed, shown>>

Next ==
    \/ \E seed \in Tickets, words \in Taps : ConfirmBackup(seed, words)
    \/ \E seed \in Tickets, utxo \in Utxos :
         \E ring \in RingsOf(seed, utxo) : Spawn(seed, utxo, ring)
    \/ \E spawn \in shown : Forget(spawn)
    \/ \E seed \in Tickets, c \in WalletCoins : Pay(seed, c)
    \/ \E coin \in coins, signed \in UNION {{s.commit, s.reveal} : s \in shown} :
         Confirm(coin, signed)

Spec == Init /\ [][Next]_vars

-----------------------------------------------------------------------------
(* Properties. *)

\* The paper holds the money: BIP-86 over the entropy that the words tapped in the
\* quiz spell (not over the seed a BIP-39 wallet would stretch them to) gives the
\* address of the ticket.
PaperRecovers ==
    \A b \in backed :
        /\ FromMnemonic(b.words) = b.ticket
        /\ Bip86(FromMnemonic(b.words)) = ScriptOf(FundingAddress(b.ticket))

\* A spawn for a coin that is there as the device was told is accepted: the commit,
\* and the reveal as soon as that commit has confirmed, whoever's key has an odd y.
SpawnConfirms ==
    \A s \in shown, coin \in coins :
        /\ coin = Coin(s.utxo.txid, s.utxo.vout,
                       [value |-> s.utxo.value, spk |-> ScriptOf(FundingAddress(s.ticket))])
             => Valid(coin, s.commit)
        /\ coin.txid = Txid(s.commit.tx) => Valid(coin, s.reveal)

\* No coin is out of reach: it is at the address of a ticket on paper, or it is a
\* commit's and the device, told the same UTXO again, makes the reveal for it
\* again -- though it keeps nothing of the spawn.
NothingStranded ==
    \A coin \in coins :
        \/ \E seed \in BackedTickets : coin.spk = ScriptOf(FundingAddress(seed))
        \/ \E seed \in BackedTickets, utxo \in Utxos :
             \A ring \in RingsOf(seed, utxo) : Valid(coin, SpawnFor(seed, utxo, ring).reveal)

\* An attestation on chain is about the sat it is inscribed on: the coin it names,
\* by satpoint, script and amount, is the coin whose commit it spends, whatever the
\* device was told; and the sat is back at its address, less the two fees.
AttestsItsSat ==
    \A r \in spends :
        Len(r.by.witness) = 3 =>
            \E f \in spends :
                LET dat == r.by.witness[2].envelope IN
                /\ r.coin.txid = Txid(f.by.tx)
                /\ dat.satpoint = [txid |-> f.coin.txid, vout |-> f.coin.vout]
                /\ dat.spkh = [spk |-> f.coin.spk, value |-> f.coin.value]
                /\ r.by.tx.out =
                     [value |-> f.coin.value - CommitFee - RevealFee, spk |-> f.coin.spk]
=============================================================================
