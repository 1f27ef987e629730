------------------------------ MODULE SpawnJob ------------------------------
(***************************************************************************)
(* A spawn job and its answer (src/src/urb/spawn.rs).  A job is the ticket *)
(* seed and the funding UTXO it is mined, built and signed with.  On the   *)
(* device the miner's random stream is derived from the seed and the       *)
(* signing randomness is zero, so a successful spawn -- the comet and both *)
(* signed transactions -- is determined by the job: the job itself stands  *)
(* for the SpawnResult.                                                    *)
(***************************************************************************)
EXTENDS Naturals

CONSTANTS
    MaxSeeds,     \* bound: how many different tickets are ever minted
    Utxos,        \* funding UTXOs the user may scan or type
    Underfunded,  \* those too small to cover the commit and reveal fees
    Budget,       \* batches a job mines before it gives up
    None          \* no value

Seeds == 1..MaxSeeds

\* A job, which also stands for the SpawnResult of its success.
Job == [seed : Seeds, utxo : Utxos]

\* A terminal SpawnStep, with the job it answers: Done (ok) or Failed (not ok).
Answer == [job : Job, ok : BOOLEAN]

ASSUME SpawnAssumption ==
    /\ MaxSeeds \in Nat \ {0}
    /\ Utxos # {}
    /\ Underfunded \subseteq Utxos
    /\ Budget \in Nat \ {0}
    /\ None \notin Seeds
    /\ None \notin Utxos
    /\ None \notin Job
    /\ None \notin Answer

-----------------------------------------------------------------------------

\* A comet is found: assemble_spawn signs, or refuses a too small UTXO.
Hit(job, tries) ==
    [tries |-> tries, answer |-> [job |-> job, ok |-> job.utxo \notin Underfunded]]

\* Bugs: the budget is overrun by one batch; the budget is never checked.
MissOneMore(job, tries) ==
    [tries  |-> tries + 1,
     answer |-> IF tries + 1 > Budget THEN [job |-> job, ok |-> FALSE] ELSE None]
MissForever(job, tries) ==
    [tries |-> IF tries + 1 < Budget THEN tries + 1 ELSE tries, answer |-> None]

\* A whole batch without a comet: the budget may be exhausted by it.
Miss(job, tries) ==
    [tries  |-> tries + 1,
     answer |-> IF tries + 1 >= Budget THEN [job |-> job, ok |-> FALSE] ELSE None]

\* SpawnJob::step: the outcomes of mining one batch.
SpawnStep(job, tries) == {Hit(job, tries), Miss(job, tries)}
=============================================================================
