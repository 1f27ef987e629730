--------------------------- MODULE SpawnTx_proofs ---------------------------
(***************************************************************************)
(* Theorems about the commit and reveal transactions, for every u64 width, *)
(* UTXO value, fee rate and attestation length.                            *)
(***************************************************************************)
EXTENDS SpawnTx, TLAPS

-----------------------------------------------------------------------------
(* Arithmetic. *)

\* A larger fee size costs no less.
LEMMA FeeMonotone ==
    ASSUME NEW r \in Nat, NEW m \in Nat, NEW n \in Nat, m <= n
    PROVE  r * m <= r * n /\ r * m \in Nat /\ r * n \in Nat
<1>1. n - m \in Nat
  OBVIOUS
<1>2. r * (n - m) >= 0
  BY <1>1
<1>3. r * (n - m) = r * n - r * m
  OBVIOUS
<1> QED
  BY <1>2, <1>3

\* A push is never longer than its data and five bytes.
LEMMA PushLenBound ==
    ASSUME NEW n \in Nat
    PROVE  PushLen(n) \in Nat /\ PushLen(n) <= n + 5
  BY DEF PushLen, PushHeaderLen

\* The leaf script of the longest attestation stays below the 65536 bytes at which
\* its length prefix grows.
LEMMA LeafBound ==
    ASSUME NEW n \in 0..MaxPayload
    PROVE  LeafLen(n) \in Nat /\ LeafLen(n) <= 65535
<1>1. PushLen(3) = 4 /\ PushLen(32) = 33 /\ PushLen(520) = 523
  BY DEF PushLen, PushHeaderLen
<1>2. n \in Nat /\ n <= 65000
  BY DEF MaxPayload
<1> DEFINE q == n \div 520
<1> DEFINE r == n % 520
<1>3. q \in Nat /\ r \in Nat /\ r <= 519 /\ n = 520 * q + r
  BY <1>2
<1>4. PushLen(r) \in Nat /\ PushLen(r) <= r + 3
  BY <1>3 DEF PushLen, PushHeaderLen
<1>5. ChunkLen(n) = q * 523 + (IF r = 0 THEN 0 ELSE PushLen(r))
  BY <1>1 DEF ChunkLen
<1> HIDE DEF q, r
<1>6. ChunkLen(n) \in Nat /\ ChunkLen(n) <= 65400
  BY <1>2, <1>3, <1>4, <1>5
<1> QED
  BY <1>1, <1>6 DEF LeafLen

-----------------------------------------------------------------------------
(* Sizes: the estimates against what is serialized. *)

LEMMA BaseSize == BaseLen = 94
  BY DEF BaseLen, SliceLen, VarIntLen, SpkLen

\* The commit's estimate is the serialized size rounded up to the virtual byte and
\* one more at most.
LEMMA CommitSize == VSize(CommitWitnessLen) \in Nat
                      /\ VSize(CommitWitnessLen) <= CommitEstimate
                      /\ CommitEstimate <= VSize(CommitWitnessLen) + 1
<1>1. CommitWitnessLen = 66
  BY DEF CommitWitnessLen, SliceLen, VarIntLen
<1> QED
  BY <1>1, BaseSize DEF VSize, CeilDiv4, CommitEstimate

LEMMA RevealSize ==
    ASSUME NEW leaf \in Nat, leaf <= 65535
    PROVE  /\ VSize(RevealWitnessLen(leaf)) \in Nat
           /\ VSize(RevealWitnessLen(leaf)) <= RevealEstimate(leaf)
           /\ RevealEstimate(leaf) <= VSize(RevealWitnessLen(leaf)) + 1
           /\ RevealEstimate(leaf) \in Nat
<1>1. VarIntLen(leaf) \in {1, 3}
  BY DEF VarIntLen
<1>2. RevealWitnessLen(leaf) = 100 + VarIntLen(leaf) + leaf
  BY <1>1 DEF RevealWitnessLen, SliceLen, VarIntLen
<1> QED
  BY <1>1, <1>2, BaseSize DEF VSize, CeilDiv4, RevealEstimate
-----------------------------------------------------------------------------
(* The state.                                                                  *)

\* The variables that are input are natural numbers.
LEMMA InputType ==
    ASSUME TxTypeOK
    PROVE  /\ value \in Nat /\ rate \in Nat /\ payload \in 0..MaxPayload
           /\ value <= MaxU64 /\ MaxU64 \in Nat
           /\ commitValue \in Nat /\ revealValue \in Nat
  BY TxAssumption DEF TxTypeOK, TxAssumption

\* Both fees are natural numbers.
LEMMA FeeType ==
    ASSUME TxTypeOK
    PROVE  CommitFee \in Nat /\ RevealFee \in Nat
<1>1. LeafLen(payload) \in Nat /\ LeafLen(payload) <= 65535
  BY InputType, LeafBound
<1>2. RevealEstimate(LeafLen(payload)) \in Nat
  BY <1>1, RevealSize
<1>3. rate * RevealEstimate(LeafLen(payload)) \in Nat
  BY <1>2, InputType, FeeMonotone
<1>4. RevealFee \in Nat
  BY <1>2, <1>3, InputType DEF RevealFee
<1> QED
  BY <1>4, InputType DEF CommitFee, CommitEstimate

\* What the outputs are at every stage, and why a transaction was refused.
Accounts ==
    /\ pc = "commit" => commitValue = 0 /\ revealValue = 0
    /\ pc \in {"reveal", "signed"} =>
         /\ value - CommitFee > 0
         /\ commitValue = value - CommitFee
    /\ pc = "signed" =>
         /\ revealValue = commitValue - RevealFee
         /\ revealValue >= Dust

LEMMA AccountsInit == Init => TxTypeOK /\ Accounts
  BY TxAssumption DEF Init, TxTypeOK, Accounts, TxAssumption

LEMMA AccountsStep ==
    ASSUME TxTypeOK, Accounts, RefusedOnlyIfShort, [Next]_vars
    PROVE  TxTypeOK' /\ Accounts' /\ RefusedOnlyIfShort'
<1>1. CommitFee \in Nat /\ RevealFee \in Nat
  BY FeeType
<1>2. CASE BuildCommit
  <2>1. /\ UNCHANGED <<value, rate, payload, revealValue>>
        /\ CommitFee' = CommitFee /\ RevealFee' = RevealFee
    BY <1>2 DEF BuildCommit, CommitFee, RevealFee
  <2>2. CASE CommitFits
    <3>1. pc' = "reveal" /\ commitValue' = value - CommitFee /\ value - CommitFee > 0
      BY <1>2, <2>2 DEF BuildCommit, CommitFits
    <3>2. commitValue' \in 0..MaxU64
      BY <1>1, <3>1, InputType
    <3> QED
      BY <2>1, <3>1, <3>2 DEF TxTypeOK, Accounts, RefusedOnlyIfShort
  <2>3. CASE ~CommitFits
    <3>1. pc' = "refused" /\ commitValue' = commitValue
      BY <1>2, <2>3 DEF BuildCommit
    <3>2. ~MulFits(CommitEstimate, rate) \/ value <= CommitFee
      BY <1>1, <2>3, InputType DEF CommitFits, SubFits
    <3>3. ~MulFits(CommitEstimate, rate) \/ value < CommitFee + RevealFee + Dust
      BY <1>1, <3>2, InputType DEF Dust
    <3>4. TxTypeOK' /\ Accounts'
      BY <2>1, <3>1 DEF TxTypeOK, Accounts
    <3>5. MulFits(CommitEstimate, rate)' = MulFits(CommitEstimate, rate)
      BY <2>1 DEF MulFits, CommitEstimate
    <3>6. RefusedOnlyIfShort'
      BY <2>1, <3>3, <3>5 DEF RefusedOnlyIfShort
    <3> QED
      BY <3>4, <3>6
  <2> QED
    BY <2>2, <2>3
<1>3. CASE BuildReveal
  <2>1. /\ pc = "reveal"
        /\ UNCHANGED <<value, rate, payload, commitValue>>
        /\ CommitFee' = CommitFee /\ RevealFee' = RevealFee
    BY <1>3 DEF BuildReveal, CommitFee, RevealFee
  <2>2. commitValue = value - CommitFee
    BY <2>1 DEF Accounts
  <2>3. CASE RevealFits
    <3>1. /\ pc' = "signed" /\ revealValue' = commitValue - RevealFee
          /\ commitValue - RevealFee >= Dust
      BY <1>3, <2>3 DEF BuildReveal, RevealFits
    <3>2. revealValue' \in 0..MaxU64
      BY <1>1, <2>2, <3>1, InputType DEF Dust
    <3>3. TxTypeOK'
      BY <2>1, <3>1, <3>2 DEF TxTypeOK
    <3>4. Accounts'
      BY <2>1, <3>1 DEF Accounts, Dust
    <3> QED
      BY <3>1, <3>3, <3>4 DEF RefusedOnlyIfShort
  <2>4. CASE ~RevealFits
    <3>1. pc' = "refused" /\ revealValue' = revealValue
      BY <1>3, <2>4 DEF BuildReveal
    <3>2. \/ ~MulFits(RevealEstimate(LeafLen(payload)), rate)
          \/ ~(RevealFee <= commitValue)
          \/ ~(commitValue - RevealFee >= Dust)
      BY <2>4 DEF RevealFits, SubFits
    <3>3. \/ ~MulFits(RevealEstimate(LeafLen(payload)), rate)
          \/ value < CommitFee + RevealFee + Dust
      BY <1>1, <2>2, <3>2, InputType DEF Dust
    <3>4. TxTypeOK' /\ Accounts'
      BY <2>1, <3>1 DEF TxTypeOK, Accounts
    <3>5. MulFits(RevealEstimate(LeafLen(payload)), rate)'
            = MulFits(RevealEstimate(LeafLen(payload)), rate)
      BY <2>1
    <3>6. RefusedOnlyIfShort'
      BY <2>1, <3>3, <3>5 DEF RefusedOnlyIfShort
    <3> QED
      BY <3>4, <3>6
  <2> QED
    BY <2>3, <2>4
<1>4. CASE UNCHANGED vars
  BY <1>4 DEF vars, TxTypeOK, Accounts, RefusedOnlyIfShort, CommitFee, RevealFee
<1> QED
  BY <1>2, <1>3, <1>4 DEF Next

\* The invariant every theorem below rests on.
THEOREM SpawnTxInvariant == Spec => [](TxTypeOK /\ Accounts /\ RefusedOnlyIfShort)
<1>1. Init => TxTypeOK /\ Accounts /\ RefusedOnlyIfShort
  BY AccountsInit DEF Init, RefusedOnlyIfShort
<1>2. TxTypeOK /\ Accounts /\ RefusedOnlyIfShort /\ [Next]_vars
        => (TxTypeOK /\ Accounts /\ RefusedOnlyIfShort)'
  BY AccountsStep
<1> QED
  BY <1>1, <1>2, PTL DEF Spec

\* No amount leaves the width of u64, whatever the UTXO and the fee rate:
\* value_sats minus a fee never wraps (tx.rs: build_and_sign_spawn).
THEOREM SpawnTxTypeCorrect == Spec => []TxTypeOK
  BY SpawnTxInvariant, PTL

\* A UTXO is refused only if the fees and the dust limit do not fit in it, or the
\* rate overflows.
THEOREM SpawnTxRefusesOnlyIfShort == Spec => []RefusedOnlyIfShort
  BY SpawnTxInvariant, PTL

\* What the two transactions of a signed spawn leave as fees.
LEMMA Fees ==
    ASSUME TxTypeOK, Accounts, pc = "signed"
    PROVE  CommitPays = CommitFee /\ RevealPays = RevealFee
<1>1. /\ commitValue = value - CommitFee
      /\ revealValue = commitValue - RevealFee
  BY DEF Accounts
<1> QED
  BY <1>1, InputType, FeeType DEF CommitPays, RevealPays

\* Both transactions pay at least the rate for every virtual byte they really
\* serialize to, for any attestation up to MaxPayload: neither is refused for its
\* fee after the comet was mined.
THEOREM SpawnTxFeesCoverSize == Spec => []FeesCoverSize
<1>1. TxTypeOK /\ Accounts => FeesCoverSize
  <2> SUFFICES ASSUME TxTypeOK, Accounts, pc = "signed"
               PROVE  /\ CommitPays >= rate * VSize(CommitWitnessLen)
                      /\ RevealPays >= rate * VSize(RevealWitnessLen(LeafLen(payload)))
    BY DEF FeesCoverSize
  <2> DEFINE leaf == LeafLen(payload)
  <2>1. rate \in Nat /\ leaf \in Nat /\ leaf <= 65535
    BY InputType, LeafBound
  <2>2. rate * VSize(CommitWitnessLen) <= rate * CommitEstimate
    BY <2>1, CommitSize, FeeMonotone DEF CommitEstimate
  <2>3. rate * VSize(RevealWitnessLen(leaf)) <= rate * RevealEstimate(leaf)
    BY <2>1, RevealSize, FeeMonotone
  <2>4. CommitPays = rate * CommitEstimate
    BY <2>1, Fees DEF CommitFee, CommitEstimate
  <2>5. RevealPays = rate * RevealEstimate(leaf)
    BY <2>1, Fees, RevealSize DEF RevealFee
  <2> QED
    BY <2>1, <2>2, <2>3, <2>4, <2>5, CommitSize, RevealSize
<1> QED
  BY <1>1, SpawnTxInvariant, PTL

\* ... and for one virtual byte more at most: no satoshis are given away.
THEOREM SpawnTxFeesAreTight == Spec => []FeesAreTight
<1>1. TxTypeOK /\ Accounts => FeesAreTight
  <2> SUFFICES ASSUME TxTypeOK, Accounts, pc = "signed"
               PROVE  /\ CommitPays <= rate * (VSize(CommitWitnessLen) + 1)
                      /\ RevealPays <= rate * (VSize(RevealWitnessLen(LeafLen(payload))) + 1)
    BY DEF FeesAreTight
  <2> DEFINE leaf == LeafLen(payload)
  <2>1. rate \in Nat /\ leaf \in Nat /\ leaf <= 65535
    BY InputType, LeafBound
  <2>2. rate * CommitEstimate <= rate * (VSize(CommitWitnessLen) + 1)
    BY <2>1, CommitSize, FeeMonotone DEF CommitEstimate
  <2>3. rate * RevealEstimate(leaf) <= rate * (VSize(RevealWitnessLen(leaf)) + 1)
    BY <2>1, RevealSize, FeeMonotone
  <2>4. CommitPays = rate * CommitEstimate
    BY <2>1, Fees DEF CommitFee, CommitEstimate
  <2>5. RevealPays = rate * RevealEstimate(leaf)
    BY <2>1, Fees, RevealSize DEF RevealFee
  <2> QED
    BY <2>2, <2>3, <2>4, <2>5
<1> QED
  BY <1>1, SpawnTxInvariant, PTL

\* Neither output of a signed spawn is dust, though the code checks only the
\* reveal's.
THEOREM SpawnTxNoDust == Spec => []NoDust
<1>1. TxTypeOK /\ Accounts => NoDust
  BY FeeType, InputType DEF Accounts, NoDust, Dust
<1> QED
  BY <1>1, SpawnTxInvariant, PTL
-----------------------------------------------------------------------------
(* The length encodings. *)

\* The bytes of a number, least significant first, give it back.  (Below 2^32 the
\* last is a byte, too.)
LEMMA FourBytes ==
    ASSUME NEW n \in Nat
    PROVE  n = (n % 256) + 256 * ((n \div 256) % 256) + 65536 * ((n \div 65536) % 256)
                 + 16777216 * (n \div 16777216)
<1> DEFINE a == n \div 256
<1> DEFINE b == a \div 256
<1> DEFINE c == b \div 256
<1>1. a \in Nat /\ n = 256 * a + (n % 256)
  OBVIOUS
<1>2. b \in Nat /\ a = 256 * b + (a % 256)
  BY <1>1
<1>3. c \in Nat /\ b = 256 * c + (b % 256)
  BY <1>2
<1> HIDE DEF a, b, c
<1>4. b = n \div 65536
  BY <1>1, <1>2, SMT
<1>5. c = n \div 16777216
  BY <1>1, <1>2, <1>3, SMT
<1> QED
  BY <1>1, <1>2, <1>3, <1>4, <1>5, SMT DEF a, b

\* Bitcoin's compact size is read back as it was written, in as many bytes as the
\* sizes above count.
LEMMA VarIntReadBack ==
    ASSUME NEW n \in Nat
    PROVE  ReadVarInt(VarInt(n)) = n /\ Len(VarInt(n)) = VarIntLen(n)
<1>1. CASE n < 253
  BY <1>1 DEF ReadVarInt, VarInt, VarIntLen
<1>2. CASE n >= 253 /\ n <= 65535
  <2>1. VarInt(n) = <<253, n % 256, n \div 256>>
    BY <1>2 DEF VarInt
  <2>2. n = (n % 256) + 256 * (n \div 256)
    OBVIOUS
  <2> QED
    BY <1>2, <2>1, <2>2 DEF ReadVarInt, VarIntLen
<1>3. CASE n > 65535
  <2>1. VarInt(n) = <<254, n % 256, (n \div 256) % 256, (n \div 65536) % 256,
                      n \div 16777216>>
    BY <1>3 DEF VarInt
  <2> QED
    BY <1>3, <2>1, FourBytes, SMT DEF ReadVarInt, VarIntLen
<1> QED
  BY <1>1, <1>2, <1>3

\* ... and so is the length in front of a push.
LEMMA PushReadBack ==
    ASSUME NEW n \in Nat
    PROVE  ReadPush(PushHeader(n)) = n /\ Len(PushHeader(n)) = PushHeaderLen(n)
<1>1. CASE n <= 255
  BY <1>1 DEF ReadPush, PushHeader, PushHeaderLen
<1>2. CASE n > 255 /\ n <= 65535
  <2>1. PushHeader(n) = <<77, n % 256, n \div 256>>
    BY <1>2 DEF PushHeader
  <2>2. n = (n % 256) + 256 * (n \div 256)
    OBVIOUS
  <2> QED
    BY <1>2, <2>1, <2>2 DEF ReadPush, PushHeaderLen
<1>3. CASE n > 65535
  <2>1. PushHeader(n) = <<78, n % 256, (n \div 256) % 256, (n \div 65536) % 256,
                          n \div 16777216>>
    BY <1>3 DEF PushHeader
  <2> QED
    BY <1>3, <2>1, FourBytes, SMT DEF ReadPush, PushHeaderLen
<1> QED
  BY <1>1, <1>2, <1>3

\* Every length the transactions write is read back by a node as it was meant.
THEOREM SpawnTxLengthsReadBack == Spec => []LengthsReadBack
<1>1. TxTypeOK => LengthsReadBack
  <2> SUFFICES ASSUME TxTypeOK
               PROVE  LengthsReadBack
    OBVIOUS
  <2>1. payload \in Nat /\ payload % 520 \in Nat
    <3>1. payload \in 0..MaxPayload
      BY InputType
    <3>2. payload \in Nat
      BY <3>1 DEF MaxPayload
    <3> QED
      BY <3>2
  <2>2. LeafLen(payload) \in Nat
    BY InputType, LeafBound
  <2>3. SUFFICES ASSUME NEW n \in {payload, payload % 520, LeafLen(payload)}
                 PROVE  /\ ReadVarInt(VarInt(n)) = n /\ Len(VarInt(n)) = VarIntLen(n)
                        /\ ReadPush(PushHeader(n)) = n
                        /\ Len(PushHeader(n)) = PushHeaderLen(n)
    BY DEF LengthsReadBack
  <2>4. n \in Nat
    BY <2>1, <2>2
  <2> QED
    BY <2>4, VarIntReadBack, PushReadBack
<1> QED
  BY <1>1, SpawnTxTypeCorrect, PTL
=============================================================================
