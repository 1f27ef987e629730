------------------------------ MODULE SpawnTx -------------------------------
(***************************************************************************)
(* The commit and reveal transactions of a spawn (src/src/urb/tx.rs): the  *)
(* lengths of what is serialized, and the fee arithmetic of                *)
(* build_and_sign_spawn.  Bytes are abstracted to their number -- except   *)
(* in the two length encodings, var_int and the push opcodes -- and u64 to *)
(* 0..MaxU64, so that a checked operation fails where the code's does.     *)
(***************************************************************************)
EXTENDS Integers, Sequences

CONSTANTS
    MaxU64,   \* largest value of the code's u64
    Values,   \* satoshis of the funding UTXO
    Rates,    \* fee rates, in satoshis per virtual byte (the app uses 2)
    Payloads  \* lengths of the %spawn attestation, in bytes

\* An attestation is a few hundred bytes; the size estimate is only exact while
\* the leaf script stays below 65536.
MaxPayload == 65000

ASSUME TxAssumption ==
    /\ MaxU64 \in Nat
    /\ Values \subseteq 0..MaxU64
    /\ Rates \subseteq 0..MaxU64
    /\ Payloads \subseteq 0..MaxPayload

VARIABLES
    pc,           \* "commit", "reveal", then "signed" or "refused"
    value,        \* the funding UTXO
    rate,
    payload,
    commitValue,  \* the commit's only output
    revealValue   \* the reveal's only output

vars == <<pc, value, rate, payload, commitValue, revealValue>>

-----------------------------------------------------------------------------
(* Length encodings. *)

\* var_int: Bitcoin's compact size, for n < 2^32.
VarInt(n) ==
    IF n < 253 THEN <<n>>
    ELSE IF n <= 65535 THEN <<253, n % 256, n \div 256>>
    ELSE <<254, n % 256, (n \div 256) % 256, (n \div 65536) % 256, n \div 16777216>>

VarIntLen(n) == IF n < 253 THEN 1 ELSE IF n <= 65535 THEN 3 ELSE 5

\* var_slice.
SliceLen(n) == VarIntLen(n) + n

\* A bug: the two length bytes swapped.
PushHeaderSwapped(n) ==
    IF n < 76 THEN <<n>>
    ELSE IF n <= 255 THEN <<76, n>>
    ELSE IF n <= 65535 THEN <<77, n \div 256, n % 256>>
    ELSE <<78, n % 256, (n \div 256) % 256, (n \div 65536) % 256, n \div 16777216>>

\* push_data: the opcode and length before the n bytes.
PushHeader(n) ==
    IF n < 76 THEN <<n>>
    ELSE IF n <= 255 THEN <<76, n>>
    ELSE IF n <= 65535 THEN <<77, n % 256, n \div 256>>
    ELSE <<78, n % 256, (n \div 256) % 256, (n \div 65536) % 256, n \div 16777216>>

PushHeaderLen(n) ==
    IF n < 76 THEN 1 ELSE IF n <= 255 THEN 2 ELSE IF n <= 65535 THEN 3 ELSE 5

PushLen(n) == PushHeaderLen(n) + n

\* urb_leaf_script: OP_0 OP_IF "urb" <payload in pushes of at most 520> OP_ENDIF
\* <key> OP_CHECKSIG.
ChunkLen(n) ==
    (n \div 520) * PushLen(520) + (IF n % 520 = 0 THEN 0 ELSE PushLen(n % 520))

LeafLen(n) == 2 + PushLen(3) + ChunkLen(n) + 1 + PushLen(32) + 1

-----------------------------------------------------------------------------
(* Serialization: both transactions have one input and one P2TR output. *)

SpkLen == 34

\* serialize_no_witness: version, one input with an empty script, one output,
\* locktime.
BaseLen ==
    4 + VarIntLen(1) + (32 + 4 + 1 + 4) + VarIntLen(1) + (8 + SliceLen(SpkLen)) + 4

\* The witnesses: a signature; a signature, the leaf and the control block.
CommitWitnessLen == VarIntLen(1) + SliceLen(64)

RevealWitnessLen(leaf) ==
    VarIntLen(3) + SliceLen(64) + SliceLen(leaf) + SliceLen(33)

CeilDiv4(n) == (n + 3) \div 4

\* Virtual size: four units a byte, but one for the witness with its marker and
\* flag, in fours rounded up.
VSize(witness) == CeilDiv4(4 * BaseLen + 2 + witness)

-----------------------------------------------------------------------------
(* build_and_sign_spawn. *)

\* Bugs: the leaf's length prefix forgotten, the witness discount forgotten.
RevealEstimateNoPrefix(leaf) == 11 + CeilDiv4(262 + leaf) + 43
RevealEstimateNoDiscount(leaf) == 11 + 265 + leaf + 43

\* The sizes the fees are computed from.
CommitEstimate == 112
RevealEstimate(leaf) == 11 + CeilDiv4(265 + leaf) + 43

\* checked_mul and checked_sub.
MulFits(a, b) == a * b <= MaxU64
SubFits(a, b) == b <= a

Dust == 330

Init ==
    /\ pc = "commit"
    /\ value \in Values /\ rate \in Rates /\ payload \in Payloads
    /\ commitValue = 0 /\ revealValue = 0

CommitFee == CommitEstimate * rate
RevealFee == RevealEstimate(LeafLen(payload)) * rate

\* A bug: the funds are not checked.
CommitFitsAlways == MulFits(CommitEstimate, rate)

\* The commit's fee and value, or an error.
CommitFits ==
    MulFits(CommitEstimate, rate) /\ SubFits(value, CommitFee) /\ value - CommitFee > 0

BuildCommit ==
    /\ pc = "commit"
    /\ IF CommitFits
       THEN pc' = "reveal" /\ commitValue' = value - CommitFee
       ELSE pc' = "refused" /\ UNCHANGED commitValue
    /\ UNCHANGED <<value, rate, payload, revealValue>>

\* Bugs: the dust limit forgotten, or exclusive.
RevealFitsAboveZero ==
    /\ MulFits(RevealEstimate(LeafLen(payload)), rate)
    /\ SubFits(commitValue, RevealFee)
    /\ commitValue - RevealFee > 0
RevealFitsAboveDust ==
    /\ MulFits(RevealEstimate(LeafLen(payload)), rate)
    /\ SubFits(commitValue, RevealFee)
    /\ commitValue - RevealFee > Dust

\* The reveal's fee and value, or an error: then neither transaction leaves the
\* function.
RevealFits ==
    /\ MulFits(RevealEstimate(LeafLen(payload)), rate)
    /\ SubFits(commitValue, RevealFee)
    /\ commitValue - RevealFee >= Dust

BuildReveal ==
    /\ pc = "reveal"
    /\ IF RevealFits
       THEN pc' = "signed" /\ revealValue' = commitValue - RevealFee
       ELSE pc' = "refused" /\ UNCHANGED revealValue
    /\ UNCHANGED <<value, rate, payload, commitValue>>

Next == BuildCommit \/ BuildReveal

Spec == Init /\ [][Next]_vars

-----------------------------------------------------------------------------
(* Properties. *)

TxTypeOK ==
    /\ pc \in {"commit", "reveal", "signed", "refused"}
    /\ value \in Values /\ rate \in Rates /\ payload \in Payloads
    /\ commitValue \in 0..MaxU64 /\ revealValue \in 0..MaxU64

\* What a signed pair leaves to the miners.
CommitPays == value - commitValue
RevealPays == commitValue - revealValue

\* Both transactions pay at least the rate for the size they really serialize to:
\* neither is refused by the network for its fee after the comet was mined.
FeesCoverSize ==
    pc = "signed" =>
        /\ CommitPays >= rate * VSize(CommitWitnessLen)
        /\ RevealPays >= rate * VSize(RevealWitnessLen(LeafLen(payload)))

\* ... and at most for one virtual byte more.
FeesAreTight ==
    pc = "signed" =>
        /\ CommitPays <= rate * (VSize(CommitWitnessLen) + 1)
        /\ RevealPays <= rate * (VSize(RevealWitnessLen(LeafLen(payload))) + 1)

\* Neither output is dust, though only the reveal's is checked against it.
NoDust == pc = "signed" => commitValue >= Dust /\ revealValue >= Dust

\* A UTXO is refused only if it really is too small for rates the app could use:
\* every satoshi above the two fees and the dust limit is accepted.
RefusedOnlyIfShort ==
    pc = "refused" =>
        \/ value < CommitFee + RevealFee + Dust
        \/ ~MulFits(RevealEstimate(LeafLen(payload)), rate)
        \/ ~MulFits(CommitEstimate, rate)

\* What a Bitcoin node reads back from the two encodings.
ReadVarInt(s) ==
    IF s[1] < 253 THEN s[1]
    ELSE IF s[1] = 253 THEN s[2] + 256 * s[3]
    ELSE s[2] + 256 * s[3] + 65536 * s[4] + 16777216 * s[5]

ReadPush(s) ==
    IF s[1] < 76 THEN s[1]
    ELSE IF s[1] = 76 THEN s[2]
    ELSE IF s[1] = 77 THEN s[2] + 256 * s[3]
    ELSE s[2] + 256 * s[3] + 65536 * s[4] + 16777216 * s[5]

\* A node reads back the length that was written, in as many bytes as counted:
\* the leaf script parses, and the sizes above are those of the bytes.
LengthsReadBack ==
    \A n \in {payload, payload % 520, LeafLen(payload)} :
        /\ ReadVarInt(VarInt(n)) = n /\ Len(VarInt(n)) = VarIntLen(n)
        /\ ReadPush(PushHeader(n)) = n /\ Len(PushHeader(n)) = PushHeaderLen(n)
=============================================================================
