------------------------------- MODULE Wizard -------------------------------
(***************************************************************************)
(* The application: the main page, the eight steps of the create page      *)
(* (src/ui/pages), the draft and the dice pool behind them and the         *)
(* callbacks that change them (src/src/main.rs), on top of the store and   *)
(* the miner.  One action per button; each is the whole click handler with *)
(* every callback it makes, in order.  Restart is the app ending at any    *)
(* moment and starting again.                                              *)
(*   Indices into the identity list are one-based here; 0 is the code's -1.*)
(* What only changes the picture is left out: error texts, the words' and  *)
(* the reveal code's veil, the try counter on the screen.                  *)
(***************************************************************************)
EXTENDS Miner, Store

CONSTANTS
    RollsFor128,  \* dice rolls the ticket needs (50)
    MaxRolls,     \* bound: rolls into one pool
    QuizLen,      \* words of the backup quiz (12)
    Requiz        \* may the user go back to the quiz of an older identity?

ASSUME WizardAssumption ==
    /\ RollsFor128 \in Nat \ {0}
    /\ MaxRolls \in Nat
    /\ MaxRolls >= RollsFor128
    /\ QuizLen \in Nat \ {0}
    /\ Requiz \in BOOLEAN

VARIABLES
    page,         \* "main" or "create"
    confirmDelete,\* main page: the row whose delete is armed, 0 for none
    step,         \* create page: 1 dice, 2 write, 3 quiz, 4 fund, 5 utxo,
                  \*   6 mine, 7 broadcast, 8 boot
    rollCount,    \* GwBridge.roll-count, the count the page gates on
    quizPos,      \* quiz-pos: the word the page asks for
    savedIndex,   \* saved-index: the identity the page writes to
    revealPage,   \* broadcast-page = 1: the reveal code, and "record it"
    keyExported,  \* key-exported
    pool,         \* EntropyPool: rolls, and the seed its content conditions to
    draft,        \* DraftState: seed, quiz, funding, and the spawn result
    minted        \* history: tickets minted so far; a new one is the next number

wizardVars == <<page, confirmDelete, step, rollCount, quizPos, savedIndex,
                revealPage, keyExported, pool, draft, minted>>

vars == <<wizardVars, minerVars, storeVars>>

EmptyPool == [rolls |-> 0, seed |-> None]

NoDraft == [seed |-> None, quiz |-> <<>>, funding |-> None, spawn |-> None]

\* A draft with nothing but its ticket and perhaps a funding UTXO.
DraftOf(seed, utxo) == [NoDraft EXCEPT !.seed = seed, !.funding = utxo]

\* The right word at every position.
Paper == [i \in 1..QuizLen |-> i - 1]

WizardInit ==
    /\ page = "main" /\ confirmDelete = 0
    /\ step = 1 /\ quizPos = 0 /\ savedIndex = 0
    /\ revealPage = FALSE /\ keyExported = FALSE
    /\ rollCount = 0 /\ pool = EmptyPool
    /\ draft = NoDraft
    /\ minted = 0

Init == WizardInit /\ MinerInit /\ StoreInit

-----------------------------------------------------------------------------
(* The create page's functions. *)

\* reset-flow.
ResetFlow ==
    /\ quizPos' = 0
    /\ spawning' = FALSE
    /\ revealPage' = FALSE
    /\ keyExported' = FALSE
    /\ UNCHANGED <<shared, worker, current, told>>

\* A bug: the page's copy of the count survives.
ResetPoolOnly ==
    /\ pool' = EmptyPool
    /\ draft' = NoDraft
    /\ UNCHANGED rollCount

\* The reset-entropy callback and the page's copy of the count.
ResetEntropy ==
    /\ pool' = EmptyPool
    /\ draft' = NoDraft
    /\ rollCount' = 0

\* reset-wizard.
ResetWizard ==
    /\ ResetEntropy
    /\ step' = 1
    /\ savedIndex' = 0
    /\ ResetFlow

\* Navigation makes the create page anew: its outcome is gone.
Navigate(to) == page' = to /\ outcome' = None

\* At step s of the create page.
At(s) == page = "create" /\ step = s

\* Only the named variables of the page change.
StoreIdle == UNCHANGED storeVars
MinerIdle == UNCHANGED minerVars
PageKept  == UNCHANGED <<page, confirmDelete, minted>>

-----------------------------------------------------------------------------
(* Main page. *)

\* "+ Create identity": the create page starts over.
Create ==
    /\ page = "main"
    /\ Navigate("create") /\ confirmDelete' = 0
    /\ ResetWizard
    /\ StoreIdle /\ UNCHANGED minted

\* A bug: every identity can be resumed.
ResumeAny(i) ==
    /\ page = "main" /\ confirmDelete # i
    /\ i \in DOMAIN identities
    /\ LET it == identities[i] IN
         /\ draft' = DraftOf(it.seed, it.funding)
         /\ step' = IF it.stage >= FUNDED /\ it.funding # None THEN 6 ELSE 4
    /\ savedIndex' = i
    /\ Navigate("create") /\ confirmDelete' = 0
    /\ ResetFlow
    /\ StoreIdle /\ UNCHANGED <<pool, rollCount, minted>>

\* "Resume": load_identity rebuilds the draft, and the create page enters where
\* it says -- the mine step if the identity is funded, else the fund step.  The
\* dice pool is left alone.
Resume(i) ==
    /\ page = "main" /\ confirmDelete # i
    /\ i \in DOMAIN identities
    /\ InProgress(identities[i].stage)
    /\ LET it == identities[i] IN
         /\ draft' = DraftOf(it.seed, it.funding)
         /\ step' = IF it.stage >= FUNDED /\ it.funding # None THEN 6 ELSE 4
    /\ savedIndex' = i
    /\ Navigate("create") /\ confirmDelete' = 0
    /\ ResetFlow
    /\ StoreIdle /\ UNCHANGED <<pool, rollCount, minted>>

\* "Delete", and "No".
ArmDelete(i) ==
    /\ page = "main" /\ i \in DOMAIN identities \cup {0} /\ i # confirmDelete
    /\ confirmDelete' = i
    /\ MinerIdle /\ StoreIdle
    /\ UNCHANGED <<page, step, rollCount, quizPos, savedIndex, revealPage,
                   keyExported, pool, draft, minted>>

\* A bug: the row stays armed.
DeleteStaysArmed ==
    /\ page = "main" /\ confirmDelete \in DOMAIN identities
    /\ Persist(RemoveAt(identities, confirmDelete))
    /\ MinerIdle
    /\ UNCHANGED <<airlock, page, confirmDelete, step, rollCount, quizPos,
                   savedIndex, revealPage, keyExported, pool, draft, minted>>

\* "Delete" again, in the armed row.
Delete ==
    /\ page = "main" /\ confirmDelete \in DOMAIN identities
    /\ Persist(RemoveAt(identities, confirmDelete))
    /\ confirmDelete' = 0
    /\ MinerIdle
    /\ UNCHANGED <<airlock, page, step, rollCount, quizPos, savedIndex,
                   revealPage, keyExported, pool, draft, minted>>

-----------------------------------------------------------------------------
(* Steps 1 and 2: dice and paper. *)

\* A die button.
AddRoll ==
    /\ At(1) /\ pool.rolls < MaxRolls
    /\ pool' = [rolls |-> pool.rolls + 1, seed |-> None]
    /\ rollCount' = pool'.rolls
    /\ PageKept /\ MinerIdle /\ StoreIdle
    /\ UNCHANGED <<step, quizPos, savedIndex, revealPage, keyExported, draft>>

\* "Generate master ticket".  The device mixes nothing into the dice, so an
\* unchanged pool conditions to the seed it gave before, a changed one to a new
\* one.  savedIndex stays.
Generate ==
    /\ At(1) /\ rollCount >= RollsFor128
    /\ \/ /\ pool.seed # None
          /\ draft' = DraftOf(pool.seed, None)
          /\ UNCHANGED <<pool, minted>>
       \/ /\ pool.seed = None /\ minted < MaxSeeds
          /\ minted' = minted + 1
          /\ pool' = [pool EXCEPT !.seed = minted']
          /\ draft' = DraftOf(minted', None)
    /\ step' = 2
    /\ MinerIdle /\ StoreIdle
    /\ UNCHANGED <<page, confirmDelete, rollCount, quizPos, savedIndex,
                   revealPage, keyExported>>

\* "Cancel" at step 1.
CancelWizard ==
    /\ At(1)
    /\ ResetWizard
    /\ Navigate("main")
    /\ StoreIdle /\ UNCHANGED <<confirmDelete, minted>>

\* "I've written all 12 down", and "Back" from the funding step: the quiz starts
\* over.
EnterQuiz ==
    /\ \/ At(2)
       \/ At(4) /\ (Requiz \/ savedIndex = Len(identities))
    /\ draft' = [draft EXCEPT !.quiz = <<>>]
    /\ quizPos' = 0
    /\ step' = 3
    /\ PageKept /\ MinerIdle /\ StoreIdle
    /\ UNCHANGED <<rollCount, savedIndex, revealPage, keyExported, pool>>

\* "Back" from the written words to the dice.
BackToDice ==
    /\ At(2)
    /\ step' = 1
    /\ PageKept /\ MinerIdle /\ StoreIdle
    /\ UNCHANGED <<rollCount, quizPos, savedIndex, revealPage, keyExported,
                   pool, draft>>

-----------------------------------------------------------------------------
(* Step 3: the backup proof. *)

\* backup-tap: the right word for the position asked, or a wrong one.
Tapped(right) == Append(draft.quiz, IF right THEN quizPos ELSE None)

\* A word before the last.
TapWord(right) ==
    /\ At(3) /\ quizPos # QuizLen - 1
    /\ draft' = [draft EXCEPT !.quiz = Tapped(right)]
    /\ quizPos' = quizPos + 1
    /\ PageKept /\ MinerIdle /\ StoreIdle
    /\ UNCHANGED <<step, rollCount, savedIndex, revealPage, keyExported, pool>>

\* A bug: the page starts over, the taps are kept.
FailQuizKeepsTaps(right) ==
    /\ At(3) /\ quizPos = QuizLen - 1
    /\ Tapped(right) # Paper
    /\ draft' = [draft EXCEPT !.quiz = Tapped(right)]
    /\ quizPos' = 0
    /\ PageKept /\ MinerIdle /\ StoreIdle
    /\ UNCHANGED <<step, rollCount, savedIndex, revealPage, keyExported, pool>>

\* The last word, and the words do not give back the address.
FailQuiz(right) ==
    /\ At(3) /\ quizPos = QuizLen - 1
    /\ Tapped(right) # Paper
    /\ draft' = [draft EXCEPT !.quiz = <<>>]
    /\ quizPos' = 0
    /\ PageKept /\ MinerIdle /\ StoreIdle
    /\ UNCHANGED <<step, rollCount, savedIndex, revealPage, keyExported, pool>>

\* The last word, and they do: the identity is listed and saved, the page points
\* at the last of the list, and sets its stage.
PassQuiz(right) ==
    /\ At(3) /\ quizPos = QuizLen - 1
    /\ Tapped(right) = Paper
    /\ LET listed == WithBackedUp(identities, draft.seed) IN
         /\ savedIndex' = Len(listed)
         /\ PersistTwice(listed, WithStage(listed, Len(listed), BACKED_UP))
    /\ draft' = [draft EXCEPT !.quiz = <<>>]
    /\ quizPos' = 0
    /\ step' = 4
    /\ PageKept /\ MinerIdle
    /\ UNCHANGED <<airlock, rollCount, revealPage, keyExported, pool>>

\* "Back" from the quiz to the words.
BackToWords ==
    /\ At(3)
    /\ draft' = [draft EXCEPT !.quiz = <<>>]
    /\ quizPos' = 0
    /\ step' = 2
    /\ PageKept /\ MinerIdle /\ StoreIdle
    /\ UNCHANGED <<rollCount, savedIndex, revealPage, keyExported, pool>>

-----------------------------------------------------------------------------
(* Steps 4 to 6: funding and mining. *)

\* Moves that change the step alone: "I've sent the payment", and "Back" from
\* the UTXO and from the idle mine step.
Turn(from, to) ==
    /\ At(from) /\ ~spawning
    /\ step' = to
    /\ PageKept /\ MinerIdle /\ StoreIdle
    /\ UNCHANGED <<rollCount, quizPos, savedIndex, revealPage, keyExported,
                   pool, draft>>

\* A bug: the UTXO is not put on record.
EnterFundingDraftOnly(utxo) ==
    /\ At(5)
    /\ draft' = [draft EXCEPT !.funding = utxo]
    /\ step' = 6
    /\ PageKept /\ MinerIdle /\ StoreIdle
    /\ UNCHANGED <<rollCount, quizPos, savedIndex, revealPage, keyExported, pool>>

\* "Continue" or "Scan" with a text that parses: set-funding, then
\* record-funding.  (One that does not changes nothing.)
EnterFunding(utxo) ==
    /\ At(5)
    /\ draft' = [draft EXCEPT !.funding = utxo]
    /\ Persist(WithFunding(identities, savedIndex, utxo))
    /\ step' = 6
    /\ PageKept /\ MinerIdle
    /\ UNCHANGED <<airlock, rollCount, quizPos, savedIndex, revealPage,
                   keyExported, pool>>

\* "Mine & sign": spawn_begin refuses a draft without ticket or funding.
Mine ==
    /\ At(6)
    /\ draft.seed # None /\ draft.funding # None
    /\ SpawnBegin([seed |-> draft.seed, utxo |-> draft.funding])
    /\ UNCHANGED wizardVars /\ StoreIdle

CancelMine == At(6) /\ SpawnCancel /\ UNCHANGED wizardVars /\ StoreIdle

\* The timer finds an answer.  A success goes into whatever draft there is, and
\* to the broadcast step; a failure leaves the user at the mine step.
PollTick ==
    /\ At(6) /\ SpawnPoll
    /\ IF shared.done.ok
       THEN /\ draft' = [draft EXCEPT !.spawn = shared.done.job]
            /\ step' = 7
            /\ revealPage' = FALSE
       ELSE UNCHANGED <<draft, step, revealPage>>
    /\ PageKept /\ StoreIdle
    /\ UNCHANGED <<rollCount, quizPos, savedIndex, keyExported, pool>>

WorkerRuns(w) == WorkerStep(w) /\ UNCHANGED wizardVars /\ StoreIdle

-----------------------------------------------------------------------------
(* Steps 7 and 8: broadcast and boot. *)

\* "Next: reveal" and "<- commit".
TurnBroadcastPage ==
    /\ At(7)
    /\ revealPage' = ~revealPage
    /\ PageKept /\ MinerIdle /\ StoreIdle
    /\ UNCHANGED <<step, rollCount, quizPos, savedIndex, keyExported, pool, draft>>

\* "Both broadcast -- record it".
Record ==
    /\ At(7) /\ revealPage
    /\ Persist(WithAttestation(identities, savedIndex, outcome))
    /\ step' = 8
    /\ PageKept /\ MinerIdle
    /\ UNCHANGED <<airlock, rollCount, quizPos, savedIndex, revealPage,
                   keyExported, pool, draft>>

\* A bug: the page takes any answer for a success.
ExportTakesAnyAnswer ==
    /\ At(8) /\ ~keyExported
    /\ ExportSucceeds(draft.spawn) \/ ExportFails(draft.spawn)
    /\ keyExported' = TRUE
    /\ PageKept /\ MinerIdle
    /\ UNCHANGED <<identities, disk, step, rollCount, quizPos, savedIndex,
                   revealPage, pool, draft>>

\* "Copy boot key to USB": the key of the draft's spawn.
Export ==
    /\ At(8) /\ ~keyExported
    /\ \/ ExportSucceeds(draft.spawn) /\ keyExported' = TRUE
       \/ ExportFails(draft.spawn) /\ UNCHANGED keyExported
    /\ PageKept /\ MinerIdle
    /\ UNCHANGED <<identities, disk, step, rollCount, quizPos, savedIndex,
                   revealPage, pool, draft>>

\* A bug: the page is reset before it sets the stage.
GoLiveAfterReset ==
    /\ At(8) /\ keyExported
    /\ Wipe
    /\ ResetWizard
    /\ Persist(WithStage(identities, savedIndex', LIVE))
    /\ Navigate("main")
    /\ UNCHANGED <<confirmDelete, minted>>

\* "My comet is live": the result of wipe-usb is not looked at.
GoLive ==
    /\ At(8) /\ keyExported
    /\ Wipe
    /\ Persist(WithStage(identities, savedIndex, LIVE))
    /\ ResetWizard
    /\ Navigate("main")
    /\ UNCHANGED <<confirmDelete, minted>>

-----------------------------------------------------------------------------

\* The app ends -- swiped away, crashed, powered off -- and starts again: memory
\* and threads are gone, the list is what the file gives, the Airlock stays.
Restart ==
    /\ page' = "main" /\ confirmDelete' = 0
    /\ step' = 1 /\ quizPos' = 0 /\ savedIndex' = 0
    /\ revealPage' = FALSE /\ keyExported' = FALSE
    /\ rollCount' = 0 /\ pool' = EmptyPool /\ draft' = NoDraft
    /\ shared' = FreshShared
    /\ worker' = [w \in Workers |-> Ended]
    /\ spawning' = FALSE /\ outcome' = None /\ current' = None /\ told' = {}
    /\ identities' \in Loaded
    /\ UNCHANGED <<minted, disk, airlock>>

MainPage ==
    \/ Create
    \/ \E i \in DOMAIN identities : Resume(i)
    \/ \E i \in DOMAIN identities \cup {0} : ArmDelete(i)
    \/ Delete

Ticket ==
    \/ AddRoll
    \/ Generate
    \/ CancelWizard
    \/ EnterQuiz
    \/ BackToDice
    \/ \E right \in BOOLEAN : TapWord(right) \/ FailQuiz(right) \/ PassQuiz(right)
    \/ BackToWords

Spawn ==
    \/ Turn(4, 5)
    \/ Turn(5, 4)
    \/ Turn(6, 5)
    \/ \E utxo \in Utxos : EnterFunding(utxo)
    \/ Mine
    \/ CancelMine
    \/ PollTick
    \/ \E w \in Workers : WorkerRuns(w)
    \/ TurnBroadcastPage
    \/ Record
    \/ Export
    \/ GoLive

Next == MainPage \/ Ticket \/ Spawn \/ Restart

Spec == Init /\ [][Next]_vars

-----------------------------------------------------------------------------
(* Properties. *)

Draft == [seed : Seeds \cup {None}, quiz : Seq(0..QuizLen \cup {None}),
          funding : Utxos \cup {None}, spawn : Job \cup {None}]

TypeOK ==
    /\ MinerTypeOK
    /\ identities \in Seq(Identity)
    /\ disk \in Seq(Identity) \cup {None}
    /\ airlock \in Job \cup {None}
    /\ page \in {"main", "create"}
    /\ confirmDelete \in 0..Len(identities)
    /\ step \in 1..8
    /\ rollCount \in 0..MaxRolls
    /\ quizPos \in 0..(QuizLen - 1)
    /\ savedIndex \in 0..Len(identities)
    /\ revealPage \in BOOLEAN /\ keyExported \in BOOLEAN
    /\ pool \in [rolls : 0..MaxRolls, seed : Seeds \cup {None}]
    /\ draft \in Draft
    /\ minted \in 0..MaxSeeds

\* The count the page gates "Generate" on is the pool's own, on every path --
\* Back from the words, Resume, Cancel, a new wizard: generate_identity's
\* assertion that the pool is ready never fires.
RollsAgree == rollCount = pool.rolls

\* The page's quiz position and the taps in the draft never drift apart: the
\* twelve right taps are always enough to pass.
QuizAgrees == At(3) => Len(draft.quiz) = quizPos

\* From the funding step on, the page writes to the identity whose address it
\* shows: saved-index is the draft's identity, in a list without a second copy.
SavedIndexIsDrafts ==
    page = "create" /\ step >= 4 =>
        IndexOf(identities, draft.seed) = {savedIndex}

\* While a spawn is mined and broadcast, the app may end and nothing but the file
\* is left: the file then has the draft's ticket once, in progress and funded with
\* the draft's UTXO, so Resume enters the mine step again with the very same job.
ResumesSameJob ==
    page = "create" /\ step \in {6, 7} =>
        /\ disk # None
        /\ draft.funding # None
        /\ \E i \in DOMAIN disk :
             /\ IndexOf(disk, draft.seed) = {i}
             /\ InProgress(disk[i].stage) /\ disk[i].stage >= FUNDED
             /\ disk[i].funding = draft.funding

\* What is broadcast, recorded and exported is the spawn of this identity with
\* this UTXO, on the page and in the draft alike.
OutcomeIsDrafts ==
    page = "create" /\ step >= 7 =>
        /\ outcome = [seed |-> draft.seed, utxo |-> draft.funding]
        /\ draft.spawn = outcome

\* The boot step claims a key on the USB stick, and lets the identity go live, only
\* while the Airlock holds the boot feed of the spawn on the page: an export that
\* failed half-way, or the key of an identity before this one, never counts.
ExportedKeyIsThere == keyExported => At(8) /\ airlock = outcome

\* No ticket is listed twice, and an identity is attested with the spawn of its
\* own ticket and its own UTXO -- in memory and in the file.
Consistent(list) ==
    /\ \A i, j \in DOMAIN list : list[i].seed = list[j].seed => i = j
    /\ \A i \in DOMAIN list :
         /\ ~InProgress(list[i].stage) <=> list[i].attested # None
         /\ list[i].attested # None =>
              list[i].attested = [seed |-> list[i].seed, utxo |-> list[i].funding]

ListConsistent == Consistent(identities)

FileConsistent == disk # None => Consistent(disk)

\* A live comet's boot key is not left on the Airlock.
NoKeyAfterLive ==
    \A i \in DOMAIN identities :
        identities[i].stage = LIVE => airlock # identities[i].attested \/ airlock = None

\* Past the quiz, the identity is in the file: the app may end at any moment
\* without losing the only machine copy of a ticket that may be paid to.
PastQuizIsOnDisk ==
    page = "create" /\ step >= 4 =>
        disk # None /\ IndexOf(disk, draft.seed) # {}

\* An attested identity is never again in progress: it is not resumed, and its
\* spawn is not run again.
AttestedForGood ==
    [][\A i \in DOMAIN identities, j \in DOMAIN identities' :
         /\ identities'[j].seed = identities[i].seed
         /\ ~InProgress(identities[i].stage)
         => ~InProgress(identities'[j].stage)]_vars

\* An attested identity is on the main page without a Resume, its boot feed kept
\* nowhere.  Only the app ending brings it there: no button leaves the boot step
\* before the identity on it is live.
Orphans ==
    {identities[i].seed : i \in {j \in DOMAIN identities :
        identities[j].stage = ATTESTED /\ ~(At(8) /\ savedIndex = j)}}

OrphanedOnlyByRestart == [][Restart \/ Orphans' \subseteq Orphans]_vars

\* The list is a refinement of the life cycle promised for every identity.
Ledger == [s \in Seeds |->
             IF IndexOf(identities, s) = {} THEN None
             ELSE LET i == CHOOSE i \in IndexOf(identities, s) : TRUE
                  IN  [stage |-> identities[i].stage, funding |-> identities[i].funding,
                       attested |-> identities[i].attested]]

Life == INSTANCE Lifecycle WITH ledger <- Ledger

ImplementsLifecycle == Life!LifecycleSpec
=============================================================================
