------------------------------ MODULE MCWizard ------------------------------
(* Model-checking instance of Wizard. *)
EXTENDS Wizard, TLC

\* Threads are interchangeable, and so are UTXOs when all of them suffice.
Symmetry == Permutations(Workers) \cup Permutations(Utxos)
=============================================================================
