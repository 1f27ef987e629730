------------------------------- MODULE Store --------------------------------
(***************************************************************************)
(* Persistence (src/src/store.rs and the callbacks of src/src/main.rs that *)
(* change the list): the in-memory identity list, the one file it is       *)
(* rewritten to after every change, and the Airlock partition that carries *)
(* the boot key to a computer.  The file system is external; Faults says   *)
(* which of its calls may fail.                                            *)
(*   An address is derived from the seed, so the seed stands for both; the *)
(* comet and the two txids of an attestation are those of one SpawnResult. *)
(***************************************************************************)
EXTENDS SpawnJob, Sequences, SequencesExt

CONSTANT Faults

AllFaults ==
    {"save-fails",   \* open or overwrite fails, the old file stays
     "save-tears",   \* a save fails half-way, the file cannot be parsed
     "read-fails",   \* the file is there but cannot be read at start-up
     "export-fails", \* formatting, writing or mounting the Airlock fails
     "wipe-fails"}   \* formatting the Airlock fails

ASSUME StoreAssumption == Faults \subseteq AllFaults

VARIABLES
    identities,  \* the list in memory
    disk,        \* the list in identities.json, None if absent or unparsable
    airlock      \* the SpawnResult whose boot feed lies on the Airlock, or None

storeVars == <<identities, disk, airlock>>

\* store::stage.
BACKED_UP == 1
FUNDED    == 2
ATTESTED  == 5
LIVE      == 6

Stages == {BACKED_UP, FUNDED, ATTESTED, LIVE}

\* A bug: an attested identity counts as in progress.
InProgressUntilLive(stage) == stage < LIVE

InProgress(stage) == stage < ATTESTED

Identity == [seed : Seeds, stage : Stages,
             funding : Utxos \cup {None}, attested : Job \cup {None}]

\* What is on record of a ticket.
Entry == [stage : Stages, funding : Utxos \cup {None}, attested : Job \cup {None}]

\* No value is none of these.
ASSUME NothingAssumption == None \notin Seq(Identity) /\ None \notin Entry

StoreInit == identities = <<>> /\ disk = None /\ airlock = None

-----------------------------------------------------------------------------
(* The file. *)

\* What the file may hold after saving `list` over `old`.
Saved(old, list) ==
    {list} \cup {d \in {old} : "save-fails" \in Faults}
           \cup {d \in {None} : "save-tears" \in Faults}

\* store::load: an absent, unreadable or unparsable file is an empty list.
Loaded ==
    {IF disk = None THEN <<>> ELSE disk}
      \cup {l \in {<<>>} : "read-fails" \in Faults}

\* A bug: the backup proof changes the list and forgets to persist it.
PersistLater(first, second) == identities' = second /\ UNCHANGED disk

\* persist_and_refresh: the list shown is the new one even if the save failed.
Persist(list) ==
    /\ identities' = list
    /\ disk' \in Saved(disk, list)

\* Two changes in one handler, each persisted.
PersistTwice(first, second) ==
    /\ identities' = second
    /\ \E d \in Saved(disk, first) : disk' \in Saved(d, second)

-----------------------------------------------------------------------------
(* The changes of the list; an index outside it changes nothing. *)

IndexOf(list, seed) == {i \in DOMAIN list : list[i].seed = seed}

\* A bug: re-passing the quiz lists the identity again.
WithBackedUpAgain(list, seed) ==
    Append(list, [seed |-> seed, stage |-> BACKED_UP,
                  funding |-> None, attested |-> None])

\* confirm_backup's push: a seed already listed is not listed again.
WithBackedUp(list, seed) ==
    IF IndexOf(list, seed) # {}
    THEN list
    ELSE Append(list, [seed |-> seed, stage |-> BACKED_UP,
                       funding |-> None, attested |-> None])

\* set_stage: unconditional.
WithStage(list, i, stage) ==
    IF i \in DOMAIN list THEN [list EXCEPT ![i].stage = stage] ELSE list

\* A bug: a funding UTXO already on file is kept.
WithFirstFunding(list, i, utxo) ==
    IF i \in DOMAIN list
    THEN [list EXCEPT ![i].funding = IF @ = None THEN utxo ELSE @,
                      ![i].stage = IF @ < FUNDED THEN FUNDED ELSE @]
    ELSE list

\* record_funding: raises the stage to FUNDED, never lowers it.
WithFunding(list, i, utxo) ==
    IF i \in DOMAIN list
    THEN [list EXCEPT ![i].funding = utxo,
                      ![i].stage = IF @ < FUNDED THEN FUNDED ELSE @]
    ELSE list

\* A bug: the txids are recorded and the stage is not.
WithTxidsOnly(list, i, result) ==
    IF i \in DOMAIN list THEN [list EXCEPT ![i].attested = result] ELSE list

\* record_attestation: unconditional.
WithAttestation(list, i, result) ==
    IF i \in DOMAIN list
    THEN [list EXCEPT ![i].attested = result, ![i].stage = ATTESTED]
    ELSE list

-----------------------------------------------------------------------------
(* The Airlock. *)

\* export_boot_key: what the Airlock holds after a success, and after a failure
\* to format it, to write the key, or (with the key written) to write the script
\* or to mount.
ExportSucceeds(feed) == airlock' = feed
ExportFails(feed) == "export-fails" \in Faults /\ airlock' \in {airlock, None, feed}

\* A bug: the Airlock is unmounted and not formatted.
UnmountOnly == UNCHANGED airlock

\* wipe_airlock.
Wipe == airlock' \in {None} \cup {a \in {airlock} : "wipe-fails" \in Faults}
=============================================================================
