----------------------------- MODULE Lifecycle ------------------------------
(***************************************************************************)
(* What the application promises about each identity, without pages, draft,*)
(* threads or files: proven on paper, funded, attested once with the spawn *)
(* of its own ticket and UTXO, live, and deleted only by the user.  One    *)
(* identity changes at a time.  Wizard.tla implements it.                  *)
(***************************************************************************)
EXTENDS Naturals

CONSTANTS Seeds, Utxos, None

VARIABLE ledger   \* for each ticket its record, or None if it is not listed

Listed(s) == ledger[s] # None

LifecycleInit == ledger = [s \in Seeds |-> None]

\* The paper is proven.  Proving it again takes a funded identity back to backed
\* up; its UTXO stays on record.
ProvePaper(s) ==
    /\ Listed(s) => ledger[s].stage \in {1, 2}
    /\ ledger' = [ledger EXCEPT ![s] =
                    [stage    |-> 1,
                     funding  |-> IF Listed(s) THEN ledger[s].funding ELSE None,
                     attested |-> None]]

\* A UTXO is entered, or another one before the attestation.
Fund(s, utxo) ==
    /\ Listed(s) /\ ledger[s].stage \in {1, 2}
    /\ ledger' = [ledger EXCEPT ![s].stage = 2, ![s].funding = utxo]

\* Both transactions are on their way: the point of no return.
Attest(s) ==
    /\ Listed(s) /\ ledger[s].stage = 2
    /\ ledger' = [ledger EXCEPT
                    ![s].stage = 5,
                    ![s].attested = [seed |-> s, utxo |-> ledger[s].funding]]

Boot(s) ==
    /\ Listed(s) /\ ledger[s].stage = 5
    /\ ledger' = [ledger EXCEPT ![s].stage = 6]

Erase(s) ==
    /\ Listed(s)
    /\ ledger' = [ledger EXCEPT ![s] = None]

LifecycleNext ==
    \E s \in Seeds :
        \/ ProvePaper(s)
        \/ \E utxo \in Utxos : Fund(s, utxo)
        \/ Attest(s)
        \/ Boot(s)
        \/ Erase(s)

LifecycleSpec == LifecycleInit /\ [][LifecycleNext]_ledger
=============================================================================
