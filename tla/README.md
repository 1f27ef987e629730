# Groundwire on Passport: TLA+ specifications

This directory specifies the Groundwire onboarding app (`src/src/`, Rust; `src/ui/`,
Slint): from dice rolls to a paper-backed master ticket, a funded address, a mined and
signed comet (an Urbit identity attested on Bitcoin), and the boot key handed over on the
Airlock partition. TLC checks the specifications on small instances, TLAPS proves the
theorems about them for every value of the constants.

## 1. The system

| Component | Code | State it keeps | Operations | Modelled in |
|---|---|---|---|---|
| Create page, the wizard | `ui/pages/create/page.slint` | `step`, `roll-count`, `quiz-pos`, `saved-index`, `spawning`, `outcome`, `broadcast-page`, `key-exported` | one click handler per button, `reset-flow`, `reset-wizard`, `init`, the 33 ms poll timer | `Wizard` |
| Main page | `ui/pages/page.slint` | the armed delete row | create, resume, two-tap delete | `Wizard` |
| Draft, dice pool, backup gate | `src/main.rs`, `src/entropy.rs`, `src/wizard.rs` | `DraftState`, `EntropyPool` | add-roll, reset-entropy, generate-identity, backup-tap/-reset, confirm-backup, set-funding, resume-identity | `Wizard`; the gate's decision in `Custody` |
| Worker-thread miner | `src/main.rs`, `src/urb/spawn.rs` | `MineShared` behind a mutex; a detached thread with its `SpawnJob` | spawn-begin, -poll, -cancel; check cancel, mine a batch, publish | `SpawnJob`, `Miner`, `MineService` |
| Identity store | `src/store.rs`, `src/main.rs` | the list in memory, `identities.json` | load, save, confirm-backup, record-funding, record-attestation, set-stage, delete-identity | `Store`, `Lifecycle` |
| Airlock | `src/store.rs` | the partition that carries the boot feed | export-boot-key, wipe-usb | `Store` |
| Spawn transactions | `src/urb/tx.rs` | none | fees, dust, serialized lengths, length encodings; tweaks, sighashes, witnesses | `SpawnTx`, `Taproot`, `Custody` |
| Attestation encoder | `src/urb/encoder.rs`, `spawn.rs` | none | `mat`, `encode_spawn`, the leaf script | `Binary`, `Bits`, `Comet`, `Attestation` |
| Boot feed | `src/urb/boot.rs` | none | `jam`, `jam_feed`, the 0v text | `Jam`, `Attestation` |
| Star search, satpoint tweak | `src/urb/mine.rs`, `tweak.rs` | none | tweak, networking key, fingerprint, `mine_until` | `Comet`, `Attestation`; a hit or a miss in `Miner` |
| BIP-39, names | `src/bip39.rs`, `src/identity.rs` | none | phrase, mnemonym, @p | `Words`, `Attestation` |
| Keys and addresses | `src/identity.rs` | none | derivation, key path, parity, address | `Taproot`, `Custody` |
| Theme, packaging, simulator scripts, WASM spike | `theme.rs`, `build.rs`, `sim/`, `wasm/` | none | | not modelled |

How they interact: the pages call `GwBridge` callbacks; each callback runs to its end on
the one user-interface thread and shares `DraftState`, the pool and the list with the
others. After a change the whole list is rewritten to one file. `spawn-begin` copies seed
and UTXO into a `SpawnJob`, *replaces* `MineShared` and detaches a thread; the thread takes
the mutex to read `cancel`, releases it, mines 500 tries, and takes it again to publish.
The poll timer takes the answer and puts it into whatever draft there is at that time.

What is hard about it:

- **Interleaving.** A worker mines without the mutex; Cancel, a change of UTXO and a new
  begin all fit into one of its batches.
- **Two copies of one fact.** Roll count (pool/page), quiz position (draft/page), spawn
  (draft/`outcome`), identity (draft/`saved-index`), list (memory/file).
- **Long legal sequences.** Back, Resume and Cancel combine into paths no test walks.
- **Crashes.** Nothing but the file and the Airlock survives.
- **Partial failure.** Saves, reads, the Airlock format and write may fail, some half-way.
- **Boundaries.** Fees are computed from an estimate of a size; three layers of length
  encoding have thresholds; amounts are u64.
- **Streams without separators.** The attestation and the boot feed are bit strings in which
  only the lengths written before tell where a field ends; zeros on top are dropped here and
  kept there. What is on chain cannot be corrected.
- **Parity.** Half of all points have an odd y, the ticket's and the commit's output key
  independently. One negation too few, and the address pays to a key nobody has.
- **Signing blind.** The device signs for the outpoint and the amount the user typed and
  cannot look at the chain; between commit and reveal it may forget everything.

`PROJECT.json` lists each hazard at its line with the properties that cover it.

## 2. The modules

- **`SpawnJob`** – a job is a ticket seed and a UTXO. On the device a spawn is determined
  by them (`spawn_rng` is seeded by the ticket, `aux_rand` is zero), so the job stands for
  its `SpawnResult` as well. `SpawnStep` is the outcome of a batch: a hit signs or refuses a
  too small UTXO; a miss may exhaust the budget.
- **`Miner`** – `shared` is `MineShared`; `worker[w]` a thread at its cancel check
  (`CheckCancel`) or in a batch (`Publish`); `SpawnBegin`, `SpawnCancel` and `SpawnPoll` are
  the bridge callbacks with the page's `spawning` and `outcome`. `current` and `told` are
  history variables: the job the user waits for, the workers alive at a Cancel.
- **`MineService`** – the abstract service: begin, respond with the job's own answer, take
  it once, cancel. `Miner!ImplementsService` maps onto it.
- **`Store`** – operators for each list change and for save, load, export and wipe, with
  `Faults` saying which calls of the file system may fail.
- **`Wizard`** – the whole app, extending `Miner` and `Store`. An action is a click handler
  with all its callbacks: `PassQuiz` is the last tap, confirm-backup (list and save), the
  recomputed `saved-index` and set-stage (save again). `Restart` is the app ending at any
  moment and starting again: memory and threads go, `identities` is read from the file.
- **`Lifecycle`** – the abstract ledger: per ticket absent, backed up, funded, attested
  with its own ticket and UTXO, live. `Wizard!ImplementsLifecycle` maps the list onto it.
- **`SpawnTx`** – `build_and_sign_spawn` as two steps that each may refuse; bytes are
  abstracted to their number, except in the two length encodings. `MaxU64` is the width.
- **`Binary`** – numbers as their bits, by the shifts with which the code takes them apart.
- **`Bits`** – `BitWriter` and `mat`. An atom is the sequence of its bits, least significant
  first, with or without zeros on top, as the byte vectors of the code are. `Rub` is the
  reader of the other side.
- **`Jam`** – a noun is the function from its places (the branches that lead to them) to the
  atoms there; `IsNoun` says which functions are. The recursion of `encode` is a stack `todo`
  of places still to be written, with the stream `out` and the table `refs`; `Encode` writes
  the noun at the top one. `Uw` spells the atom. `Cue`, `ReadUw` and `UwParses` are the
  runtime's; the recursion of `Cue` is a stack of places too.
- **`Words`** – phrase, mnemonym and @p over indices into the lists, with checksum, padding
  and the dropping of leading zeros. Urbit scrambles the numbers of 2^16..2^64 before it spells
  them and `to_patp` does not (`identity.rs:29-33`): `ReadPatp` unscrambles what it reads in that
  band, by any function (`Unscramble`), and `PatpScoped` is the condition `to_patp` asserts.
- **`Comet`** – the satpoint tweak with both byte orders, a candidate's key, fingerprint, pass
  and ring, `encode_spawn` and the chunks of the leaf. `ReadSpawn`, `Admits` and `PassOfRing`
  say what urb-core and the runtime do with them.
- **`Attestation`** – `spawn.rs` from the typed text to the key file: `Enter` is
  `parse_funding` with `SpawnJob::new`, `Try` one iteration of `mine_until`, `Assemble` the
  whole of `assemble_spawn` but the transactions, then one `JamStep` per noun and `Spell`. What assembly
  refuses is modelled: `Affords` has `build_and_sign_spawn`'s three comparisons of amount, fees
  and dust limit, at the app's constant rate and with the attestation's share of the size
  rounded down (the exact sizes, push headers and rounding included, are `SpawnTx`'s). `Panic` is
  `to_patp`'s debug assertion. A
  behaviour may also begin with any spawn to encode (`EncodeAny`), any noun to jam or any comet
  to name (`NameAny`): the device passes these functions fewer values than they take.
- **`Taproot`** – derivation, the key path, address, the two transactions, their signatures, and
  `Valid`, which is Bitcoin's answer: key path or script path, tweak, parity bit, amounts.
- **`Custody`** – `Taproot` and `Words` in time: `ConfirmBackup` is the gate with the words
  that were really tapped, `Spawn` the device's answer to a UTXO that need not be there as
  told, `Forget` the end of app or page, `Pay` and `Confirm` the chain.
- **`MC*.tla`, `MC*.cfg`** – instances. **`*_proofs.tla`** – theorems.

Definitions marked "A bug" in the modules are deliberate wrong variants of the definition
after them; substituting one must make TLC find a violation, so a property that passes is
known to be able to fail.

Cryptography is modelled by what the properties tell apart. A curve point is its discrete
logarithm, so that a point and its negation share an x and differ in parity, and addition is
addition. A hash is any function (a constant; its value, like that of the BIP-39 checksum, is
given as the set of the positions of its ones), or stands for what it hashes where the code
only commits to it. A signature tells key and message. What the code assumes of them, that
two different inputs are not hashed alike, is a named assumption where a proof needs it.
Readers that are not in this repository (urb-core, the runtime, Bitcoin) are in the same
modules, are external in `PROJECT.json`, and are modelled from the comments and test vectors
in `src/` that say what they expect.

A ticket is a model value in `Wizard` and its bits in `Custody`.

Conventions: list indices are one-based, 0 is the code's -1. The seed stands for the
address derived from it. A dice pool that did not change conditions to the seed it gave
before. Word choices are "right" or "wrong". Only what changes the picture (veils, error
texts, the counter) is left out.

## 3. What is checked

| Run | Question | Result |
|---|---|---|
| `miner` | Do threads, mutex and timer implement the service, safety and liveness, for a patient user? | holds |
| `miner_impatient` | What survives a user who mines again at once, with up to three threads? | the page is never stuck, every run and thread ends |
| `miner_cancel` | Does Cancel stop the worker? | **no**, finding 1 |
| `wizard` | Does the app implement the life cycle, with a restart at any moment and working storage? Is a spawn that the app's end cuts off run again as the same job, is an identity attested for good, and is its boot step lost by nothing but a restart? | holds |
| `wizard_faults` | ... with every file-system call failing at will? | what is listed and saved stays consistent, no spawn reaches another identity, and a key is reported exported only while it is on the Airlock |
| `wizard_any_user` | What survives a user who re-opens any quiz and mines again at once? | quiz in step, page never stuck |
| `wizard_requiz` | Is an attested identity attested for good? | **no**, finding 2 |
| `wizard_save_fails` | Is an identity past the quiz in the file? | **not if the save fails**, finding 3 |
| `wizard_wipe_fails` | Is a live comet's key gone from the Airlock? | **not if the format fails**, finding 4 |
| `spawn_tx` | Are fees, dust limit, refusals and encodings right at their boundaries? | holds |
| `attestation` | Do urb-core, the runtime and other programs read back what the device writes, does it tie the comet to that one coin, and is a UTXO that is too small all that is refused after the mining? | holds |
| `custody` | Do the words recover the address, are both transactions valid, and is every coin within reach after any restart? | holds on the device |

**Assumptions about the environment** are constants, so that each can be lifted.
`Impatient = FALSE`: the user begins a new run only after a cancelled worker has ended (on
the device, within a batch). `Requiz = FALSE`: the user re-opens only the newest
identity's quiz. `Faults = {}`: storage works. The code guarantees none of the three; the
violation runs lift one each and show what then goes wrong, and the passing runs
`miner_impatient`, `wizard_any_user` and `wizard_faults` show what does not.

**Bounds.** Two tickets are what it takes for one identity to be mistaken for another; three
UTXOs, one of them too small, for a UTXO to be replaced by a good and by a bad one.
Budget 2 gives a batch that misses and one that exhausts (1 in the wizard, where counts do not
matter). A second and third thread exist where overlap is allowed; in the patient
runs one slot is enough because a begin waits for it. The ticket needs 1 or 2 rolls of at
most 3, the quiz 1 or 2 words: the code only compares with 50 and 12. In `spawn_tx` the
payloads lie on both sides of every threshold of the push opcode, the compact size and the
520-byte chunk, the rates include 0, the app's 2 and one that overflows, and the values
lie around the thresholds these give. 

In `attestation` every width is scaled down, so that a small instance meets what at full width
never happens by chance: bytes, digits and words of two bits, hashes of 24 and comets of
twelve, of which *all* 4096 are named. The scramble's band is the numbers of three and four of
the six bytes, and the scramble reverses the bits: those comets are named by `to_patp` and read
back as others, or `Panic` ends the thread, as the assertion says, and `NamesReadBack` promises
their @p nothing; for all others it does, and the mutant `PatpScopedLoose` shows that the bound
is exact. Comets and ids thus have zero bytes and zero words at
either end; texts lie on both sides of the id's length, with and without 0x, of the u32 of the
output, of the u64 of the amount and of the least amount a spawn can be paid from; leaves cross the push chunk; nouns have equal parts at every
depth, written with and without zeros on top, so that back-references are taken, refused for
being longer than the atom, and point at bit zero. A budget of 3 gives searches that hit at
the first and last try and that give up. In `custody` the two tickets have points of different
parity, two coins differ in their output number, and the device is told right and wrong
amounts, one of them too small for the dust limit, and coins that do not exist. All 256 phrases are
tapped.

Deadlock is checked in every run except `spawn_tx`, `attestation` and `custody`: these systems
end, with the spawn assembled or refused, or with every coin spent.

**Symmetry** is used in `wizard_any_user` only: invariants, and interchangeable threads and
UTXOs.

**Fairness** is stated in `MinerSpec` only. Weak fairness of each worker: xous preempts
threads, and a thread never waits for anything but the mutex, which is held briefly. Weak
fairness of `SpawnPoll`: the timer fires every 33 ms while `spawning`. The user owes
nothing; the wizard has no fairness, as all else waits for a person. A batch is assumed to
end, and the budget makes the number of batches finite: no fairness of a hit is needed.

## 4. Findings

1. **A cancelled worker may mine on** (`main.rs:406`). `spawn_begin` replaces `MineShared`;
   a worker still in its batch never sees `cancel`. It shares the new run's state and can
   publish the old job's answer into it. With a changed UTXO, the new run is then answered
   with transactions that spend the old one. `gw-bridge.slint:94` says that `spawn-cancel`
   stops the worker.
2. **Re-passing an older identity's quiz points at the newest** (`create/page.slint:311`).
   `saved-index` becomes the last of the list and set-stage lowers that identity's stage
   to 1, attested or not. `store.rs:26` says attested is never re-run.
3. **A failed save is only logged** (`main.rs:574`), while confirm-backup reports success.
4. **The result of wipe-usb is discarded** (`create/page.slint:744`): the identity is live
   and gone from the page with its key still on the Airlock.

Two sentences of `docs/onboarding-flow.md` were looked at while modelling and are no findings of
a run. Line 101 says that `EntropyPool::finish` conditions again until `seed[15]` is not zero; the
code does not. It makes no difference here: phrase and names keep leading zeros apart
(`NamesReadBack`, `PaperRecovers`). Line 202 asks whether mining is deterministic:
`NothingStranded` needs it to be. On the device it is, by `spawn_rng`; on a host build the numbers
are the system's (`OsRandom`), and an app that ends between commit and reveal then leaves a
coin that no one can spend.

## 5. What is proved

`Miner_proofs`, for any number of threads, seeds, UTXOs and batches (assuming
`SpawnAssumption`):

- `MinerTypeCorrect`: type correctness; `SpawnStepType` says what a batch returns.
- `MinerNeverStalls`: `MineNeverStalls`, for any user. It is inductive with the type
  invariant: a worker is stopped only by the flag, which is never set while the page polls,
  or after it has published.
- `PatientOwnRun`, under `~Impatient`: the inductive strengthening `OwnRun`. Neither
  `AnswerIsForThisRun` nor `TriesNeverGoBack` is inductive: one must know that at most one
  worker is alive, that it owns the page's job, that its own count is not behind the
  readout, and that it is gone once it has answered.
- `PatientAnswerIsForThisRun`, `PatientTriesNeverGoBack` follow from it.
- `PatientMinerIsAService`: initial states map to initial states and every step to a step of
  `MineService` or a stutter. A `Publish` is a `Respond` only if no answer is waiting, which
  is again `OwnRun`.

`SpawnTx_proofs`, for every u64 width, UTXO value, rate and payload up to 65 000 bytes
(assuming `TxAssumption`):

- `SpawnTxInvariant` (with `Accounts`: what the outputs are at each stage), and from it
  `SpawnTxTypeCorrect`, `SpawnTxNoDust` and `SpawnTxRefusesOnlyIfShort`.
- `SpawnTxFeesCoverSize`, `SpawnTxFeesAreTight`: `CommitSize` and `RevealSize` compare the
  estimates with the serialized sizes, `LeafBound` keeps the leaf below 65 536 bytes (at
  which its prefix grows and the estimate would be one byte short), `FeeMonotone` carries
  the comparison through the non-linear product.
- `SpawnTxLengthsReadBack`, from `VarIntReadBack` and `PushReadBack`.

`Wizard_proofs`, for any number of tickets, UTXOs, threads and quiz words, any user and any
failing storage (assuming also `WizardAssumption`):

- `WizardInvariant`: the types joined with `PageInv` (nothing is written to or polled for on
  the main page; the page polls only at the mine step, for its draft's job; past the dice
  there is a ticket). None of `TypeOK`'s index bounds is inductive without it.
- `MinerSteps` says what an action of the application is to the miner: one of its steps,
  none, the page being left (`Abandon`) or the app ending (`Reboot`). So the miner's lemmas
  carry over: `WizardNeverStalls`, and `OwnRun` in `PatientInvariant`.
- `WizardTypeCorrect`, `WizardRollsAgree`, `WizardQuizAgrees`; and `WizardFundingListed`, a lemma
  for later, by `Filed`: from the funding step on `savedIndex` is an entry of the list.
- `PatientOutcomeIsDrafts`, under `~Impatient`: the answer taken is the draft's own.

`WizardLife_proofs`, its first half under `~Requiz`, with any failing storage:

- `ListInvariant`. The heart is `PlaceInv`: until the quiz is passed the ticket is last in the
  list or not in it (`Tip`), which is why pointing at the last entry is right; from then on
  `savedIndex` is the ticket's. `SeedInv` keeps a stale dice pool from breaking this:
  the pool holds no ticket but the draft's, and none on the main page. `ListsInv` (no
  ticket twice, none not yet minted) is kept of memory and file alike.
- `WizardSavedIndexIsDrafts` follows. With `~Impatient` and what was proved before,
  `SoundInvariant` gives `WizardListConsistent` and `WizardFileConsistent`.
- `WizardExportedKeyIsThere` needs `~Impatient` only: it is inductive with the type invariant and
  `OutcomeIsDrafts`, which says that the key exported is that of the spawn on the page.

and its second half under `~Requiz`, `~Impatient` and `Faults = {}`:

- `FileInvariant` (the file holds what memory holds) and `StageInvariant` (the stage is
  known exactly from the mine step on) complete the invariant `LifeInv`. From it
  `ListChanges` reduces every action, and every restart, to one of six things that can happen to
  the list: nothing, one entry re-proved, funded, attested or booted, one appended, one removed.
- `WizardPastQuizIsOnDisk`, `WizardResumesSameJob`, `WizardAttestedForGood` and
  `WizardNoKeyAfterLive` follow from it. (The first two do without `~Impatient`. The second is
  about the file and the draft's own ticket: with `Requiz`, `savedIndex` may be another
  identity's, finding 2, and the UTXO is then on file for that one.)
- `WizardImplementsLifecycle` is the whole of `ImplementsLifecycle`: `ChangeLedger`,
  `AppendLedger` and `RemoveLedger` say what each change is to the ledger, and `EntryStep`
  which action of `Lifecycle` it is.

- `WizardOrphanedOnlyByRestart`: no step but `Restart` makes an attested identity one that
  the page no longer holds at its boot step. `AttestedByRecord` says which step attests,
  `BootStepStays` that the page stays until the identity is live, `OrphanStep` combines them.

The violation runs lift these three hypotheses, so none is there for the convenience of a
proof. Two assumptions say only that `None` is a value of its own (`SpawnAssumption`,
`NothingAssumption`).

`Custody_proofs`, for any order of the curve, parity, derivation and tweak functions, tickets,
UTXOs and taps (assuming `CurveAssumption`: a point and its negation differ in parity;
`FeeAssumption`: the fees are numbers; `CustodyAssumption`: types, and that the device is told of
UTXOs the wallet may have paid -- right or wrong in output number and amount, or not there at all
-- but not of the device's own commits and reveals, and that the wallet's coins are of such ids;
`AddressAssumption`: no phrase that can be tapped
has another ticket's address; `CollisionAssumption`: no two spawns share a commit):

- `AddressIsBip86`: the address on the screen is the BIP-86 key of the entropy, for both parities.
- `CustodyInvariant`: `BackedInv` (what passed the quiz spells the ticket), `ShownInv` (a spawn
  is the one the device makes for a backed-up ticket and a UTXO), `SpendInv` (each spend is half of
  such a spawn and valid for its coin), `CoinInv` (a coin, spent or not, was paid by the wallet to
  a backed-up address or made by something that confirmed). The properties about coins are not
  inductive: each needs to know where a coin came from, which only the spends tell.
- `CustodyPaperRecovers`, `CustodySpawnConfirms`, `CustodyAttestsItsSat`, and
  `CustodyNothingStranded`, which alone needs `~OsRandom`.

`Bits_proofs`, for every width of a byte, number and bit string (assuming `BitsAssumption`):

- Induction over the natural numbers, and that a recursive function has the values its equation
  gives, are derived from `<` being well-founded (`NaturalInduction`, `Recursion`), with a set
  where the library's theorems take a predicate. On them rest `NatOfLow` and `LowOfNat` (bits
  to number and back) and `FlattenAt` and `FlattenCuts` (what a concatenation of any number of
  pieces holds, and that cutting undoes it).
- `RubReads`: wherever in a stream `mat` wrote an atom, `++rub` finds its value, and the
  position after it; zeros on top are dropped and change nothing else.

`Jam_proofs`, for every noun (assuming also `JamAssumption`):

- `JamInv` is the inductive invariant of `encode`: a reader that has taken as many nouns from the
  stream as were written has filled in exactly the places no longer on `todo`, and knows at every
  index of `refs` the noun that was begun there. `EncodeKeeps` has a case per way to write a
  noun. A back-reference needs the most: that the noun it names is *complete*, which holds
  because a noun cannot hold a copy of itself (`NoRepeat`, by the depth `IsNoun` bounds).
- `UwReads`: the digits and dots stand for the stream, without a zero digit in front.
  `FeedReads` joins the two: the text cues to the noun.

`Attestation_proofs`, for any hash function, checksum, curve order, width and chunk size, and any
texts, rings, spawns, nouns and comets (assuming also `CometAssumption`, `WordsAssumption`,
`AttestationAssumption`: types, and that bytes, units and words divide what they must):

- `AttestationInvariant`, with `IInv`: what each place in the flow has established. It contains
  `JamInv`, so the jam's argument becomes one about the whole flow.
- `AttestationFailsOnlyIfShort`: what `parse_funding` accepts is taken by `SpawnJob::new`, and by
  the conversion after the mining; what assembly refuses then is exactly an amount below both
  fees and the dust limit.
- `AttestationLeafReadsBack`: `LeafReads` joins the pushes, `SpawnReads` finds each field where the
  ones before it end, for every combination of the optional ones.
- `AttestationFeedReadsBack`, from `FeedReads`.
- `AttestationCometProvesItself`: `JobIs` says that the comet found is the fingerprint of the
  pass under the tweak of the coin, `OneCoin` that no other coin an accepted text names has the
  same tweak. No property of the hash is assumed: id and index stand in the tweak themselves,
  and the id's width fixes where it ends. That no other *pass* has the fingerprint is the
  hash's business and is not claimed.
- `AttestationNamesReadBack`: `ChunksBack` packs bits into words without loss, `NymBack` and
  `PatpBack` restore the words dropped at the front. `ScopedIsNoBand` shows that a comet for which
  `to_patp`'s assertion holds is not a number urbit-ob unscrambles. `NamesInv` says that a name stays with its
  comet.

`JamInv` says that there is a reading, of which TLC cannot enumerate the candidates; on the small
instance the run `attestation` checks what follows from it.

Every invariant and every action property of the passing runs is a theorem. Only model-checked
is liveness, which is out of the prover's reach: `EveryRunEnds`, `EveryWorkerEnds`, and the
fairness of `ImplementsService`, whose safety part is proved.

## 6. What is not modelled

- Curve arithmetic, SHA-2 and Schnorr as computations: no finite instance says anything about
  them. What is built from them is (see section 2).
- The conditioning of the dice pool by SHA-256, the choice of the decoy words of the quiz, the
  wording of the boot command.
- Whether urb-core drops the zeros on top of the id's atom in the tweak, as it does elsewhere
  (`tweak.rs:36`): urb-core is not in the repository, so this hazard has no property. Nor has the
  empty list after a failed read (`store.rs:79`), which the code documents as intended.
- The file system, the network and other programs, except as external operators.
- QR codes, theme, packaging, the simulator scripts and the WASM spike are presentation,
  build or experiment.
- Panics of the mutex (poisoning) need a panic under the lock, of which there is no source. The
  one panic the models have, `to_patp`'s (`identity.rs:45`), is outside it: in a debug build, as on
  the simulator, the worker would be gone without an answer and the page would poll until Cancel,
  which `Miner` and `Wizard` leave out. A release build has no assertion (`Cargo.toml:40-44`
  keeps the profile's default): there the boot command would carry another ship's name. A mined
  comet of 128 bits gets there with probability 2^-64.

## 7. Plan

Done: the threads and their abstract service (`SpawnJob`, `Miner`, `MineService`), the app and its
abstract ledger (`Store`, `Wizard`, `Lifecycle`), the transactions (`SpawnTx`, `Taproot`,
`Custody`), the encodings (`Bits`, `Jam`, `Words`, `Comet`, `Attestation`), and the proof modules.
Every safety property a passing run checks is a theorem.

Next: the choice of the quiz words (four different words, one of them right); a boot feed that
survives a restart, should the app keep one; what the phrase reads back to for phrases of every
length, stated of `Words` alone, from the lemmas of `Attestation_proofs` on packed words.
