--------------------------- MODULE Wizard_proofs ----------------------------
(***************************************************************************)
(* Theorems about the application, for any number of tickets, UTXOs, list  *)
(* entries, quiz words and threads.  WizardInv joins the types with what   *)
(* each page and step imply; the miner's part comes from Miner_proofs, as  *)
(* every step of the application is a step of the miner, leaves it alone,  *)
(* or discards the run (MinerSteps).                                       *)
(***************************************************************************)
EXTENDS Wizard, Miner_proofs, SequenceTheorems

USE SpawnAssumption, WizardAssumption DEF SpawnAssumption, WizardAssumption

LEMMA StageType == Stages \subseteq Nat /\ {BACKED_UP, FUNDED, ATTESTED, LIVE} \subseteq Stages
  BY DEF Stages, BACKED_UP, FUNDED, ATTESTED, LIVE

LEMMA AppendType ==
    ASSUME NEW list \in Seq(Identity), NEW it \in Identity
    PROVE  /\ Append(list, it) \in Seq(Identity)
           /\ Len(Append(list, it)) = Len(list) + 1
  BY AppendProperties

LEMMA RemoveAtType ==
    ASSUME NEW list \in Seq(Identity), NEW i \in DOMAIN list
    PROVE  /\ RemoveAt(list, i) \in Seq(Identity)
           /\ Len(RemoveAt(list, i)) = Len(list) - 1
           /\ \A j \in 1..(Len(list) - 1) :
                RemoveAt(list, i)[j] = IF j < i THEN list[j] ELSE list[j + 1]
<1>1. i \in 1..Len(list) /\ Len(list) \in Nat /\ \A j \in 1..Len(list) : list[j] \in Identity
  BY LenProperties, ElementOfSeq
<1> DEFINE before == SubSeq(list, 1, i - 1)
<1> DEFINE after == SubSeq(list, i + 1, Len(list))
<1>2. /\ before \in Seq(Identity) /\ Len(before) = i - 1
      /\ \A j \in 1..(i - 1) : before[j] = list[j]
  BY <1>1, SubSeqProperties
<1>3. /\ after \in Seq(Identity) /\ Len(after) = Len(list) - i
      /\ \A j \in 1..(Len(list) - i) : after[j] = list[i + j]
  BY <1>1, SubSeqProperties
<1>4. RemoveAt(list, i) = before \o after
  BY DEF RemoveAt
<1> HIDE DEF before, after
<1>5. /\ before \o after \in Seq(Identity)
      /\ Len(before \o after) = Len(list) - 1
  BY <1>1, <1>2, <1>3, ConcatProperties
<1>6. ASSUME NEW j \in 1..(Len(list) - 1)
      PROVE  (before \o after)[j] = IF j < i THEN list[j] ELSE list[j + 1]
  <2>a. j \in 1..(Len(before) + Len(after))
    BY <1>1, <1>2, <1>3
  <2>b. (before \o after)[j] = IF j <= Len(before) THEN before[j] ELSE after[j - Len(before)]
    <3>1. before \in Seq(Identity) /\ after \in Seq(Identity)
      BY <1>2, <1>3
    <3> QED
      BY Zenon, <2>a, <3>1, ConcatProperties
  <2>1. (before \o after)[j] = IF j <= i - 1 THEN before[j] ELSE after[j - (i - 1)]
    BY <1>2, <2>b
  <2>2. CASE j < i
    BY <1>1, <1>2, <2>1, <2>2
  <2>3. CASE ~(j < i)
    <3>1. j - (i - 1) \in 1..(Len(list) - i) /\ i + (j - (i - 1)) = j + 1 /\ ~(j <= i - 1)
      BY <1>1, <2>3
    <3>2. after[j - (i - 1)] = list[i + (j - (i - 1))]
      BY <1>3, <3>1
    <3> QED
      BY <2>1, <2>3, <3>1, <3>2
  <2> QED
    BY <2>2, <2>3
<1> QED
  BY <1>4, <1>5, <1>6

\* The elements of a list of identities.
LEMMA ElementType ==
    ASSUME NEW list \in Seq(Identity), NEW i \in DOMAIN list
    PROVE  /\ i \in 1..Len(list)
           /\ list[i] \in Identity
  BY LenProperties, ElementOfSeq

\* Every change of the list gives a list of identities, and only the backup proof
\* makes it longer.
LEMMA BackedUpType ==
    ASSUME NEW list \in Seq(Identity), NEW seed \in Seeds
    PROVE  /\ WithBackedUp(list, seed) \in Seq(Identity)
           /\ Len(WithBackedUp(list, seed)) >= Len(list)
           /\ Len(WithBackedUp(list, seed)) >= 1
<1> DEFINE it == [seed |-> seed, stage |-> BACKED_UP, funding |-> None, attested |-> None]
<1>1. it \in Identity
  BY StageType DEF Identity
<1>2. Len(list) \in Nat /\ DOMAIN list = 1..Len(list)
  BY LenProperties
<1>3. CASE IndexOf(list, seed) # {}
  <2>1. Len(list) >= 1
    BY <1>2, <1>3 DEF IndexOf
  <2> QED
    BY <1>2, <1>3, <2>1 DEF WithBackedUp
<1>4. CASE IndexOf(list, seed) = {}
  <2>1. WithBackedUp(list, seed) = Append(list, it)
    BY <1>4 DEF WithBackedUp
  <2> HIDE DEF it
  <2> QED
    BY <1>1, <1>2, <2>1, AppendType
<1> QED
  BY <1>3, <1>4

LEMMA WithStageType ==
    ASSUME NEW list \in Seq(Identity), NEW i, NEW stage \in Stages
    PROVE  /\ WithStage(list, i, stage) \in Seq(Identity)
           /\ Len(WithStage(list, i, stage)) = Len(list)
<1>1. CASE i \in DOMAIN list
  <2>1. [list[i] EXCEPT !.stage = stage] \in Identity
    <3>1. list[i] \in Identity
      BY <1>1, ElementType
    <3> QED
      BY <3>1 DEF Identity
  <2>2. WithStage(list, i, stage) = [list EXCEPT ![i] = [list[i] EXCEPT !.stage = stage]]
    BY <1>1 DEF WithStage
  <2> QED
    BY <1>1, <2>1, <2>2, ElementType, ExceptSeq
<1>2. CASE i \notin DOMAIN list
  BY <1>2 DEF WithStage
<1> QED
  BY <1>1, <1>2

LEMMA WithFundingType ==
    ASSUME NEW list \in Seq(Identity), NEW i, NEW utxo \in Utxos
    PROVE  /\ WithFunding(list, i, utxo) \in Seq(Identity)
           /\ Len(WithFunding(list, i, utxo)) = Len(list)
<1>1. CASE i \in DOMAIN list
  <2> DEFINE stage == IF list[i].stage < FUNDED THEN FUNDED ELSE list[i].stage
  <2> DEFINE it == [list[i] EXCEPT !.funding = utxo, !.stage = stage]
  <2>1. list[i] \in Identity
    BY <1>1, ElementType
  <2>2. stage \in Stages
    BY <2>1, StageType DEF Identity
  <2>3. it \in Identity
    BY <2>1, <2>2 DEF Identity
  <2>4. WithFunding(list, i, utxo) = [list EXCEPT ![i] = it]
    BY <1>1, <2>1 DEF WithFunding, Identity
  <2> HIDE DEF it
  <2> QED
    BY <1>1, <2>3, <2>4, ElementType, ExceptSeq
<1>2. CASE i \notin DOMAIN list
  BY <1>2 DEF WithFunding
<1> QED
  BY <1>1, <1>2

LEMMA WithAttestationType ==
    ASSUME NEW list \in Seq(Identity), NEW i, NEW result \in Job \cup {None}
    PROVE  /\ WithAttestation(list, i, result) \in Seq(Identity)
           /\ Len(WithAttestation(list, i, result)) = Len(list)
<1>1. CASE i \in DOMAIN list
  <2> DEFINE it == [list[i] EXCEPT !.attested = result, !.stage = ATTESTED]
  <2>1. list[i] \in Identity
    BY <1>1, ElementType
  <2>2. it \in Identity
    BY <2>1, StageType DEF Identity
  <2>3. WithAttestation(list, i, result) = [list EXCEPT ![i] = it]
    BY <1>1, <2>1 DEF WithAttestation, Identity
  <2> HIDE DEF it
  <2> QED
    BY <1>1, <2>2, <2>3, ElementType, ExceptSeq
<1>2. CASE i \notin DOMAIN list
  BY <1>2 DEF WithAttestation
<1> QED
  BY <1>1, <1>2

-----------------------------------------------------------------------------
(* The parts of the type invariant.                                            *)

StoreType ==
    /\ identities \in Seq(Identity)
    /\ disk \in Seq(Identity) \cup {None}
    /\ airlock \in Job \cup {None}

PageType ==
    /\ page \in {"main", "create"}
    /\ confirmDelete \in 0..Len(identities)
    /\ step \in 1..8
    /\ rollCount \in 0..MaxRolls
    /\ quizPos \in 0..(QuizLen - 1)
    /\ savedIndex \in 0..Len(identities)

FlagType == revealPage \in BOOLEAN /\ keyExported \in BOOLEAN

DraftType ==
    /\ pool \in [rolls : 0..MaxRolls, seed : Seeds \cup {None}]
    /\ draft \in Draft
    /\ minted \in 0..MaxSeeds

LEMMA TypeParts ==
    TypeOK <=> MinerTypeOK /\ StoreType /\ PageType /\ FlagType /\ DraftType
  BY Zenon DEF TypeOK, StoreType, PageType, FlagType, DraftType

\* How the pages relate: on the main page no identity is being written to and
\* nobody polls; the page polls only at the mine step, for the job of its draft;
\* past the dice there is a ticket.
PageInv ==
    /\ page = "main" => savedIndex = 0 /\ ~spawning
    /\ spawning => At(6) /\ current = [seed |-> draft.seed, utxo |-> draft.funding]
    /\ page = "create" /\ step >= 2 => draft.seed # None

\* What a step of the application is to the miner: a step of its own, none, the
\* create page being left, or the app ending.
Abandon ==
    /\ ~spawning
    /\ spawning' = FALSE /\ outcome' = None
    /\ UNCHANGED <<shared, worker, current, told>>

Reboot ==
    /\ shared' = FreshShared /\ worker' = [w \in Workers |-> Ended]
    /\ spawning' = FALSE /\ outcome' = None /\ current' = None /\ told' = {}

\* A draft with a ticket and a UTXO makes a job.
LEMMA DraftJob ==
    ASSUME DraftType, draft.seed # None, draft.funding # None
    PROVE  [seed |-> draft.seed, utxo |-> draft.funding] \in Job
  BY DEF DraftType, Draft, Job

LEMMA MinerSteps ==
    ASSUME DraftType, PageInv, [Next]_vars
    PROVE  [MinerNext]_minerVars \/ Abandon \/ Reboot
<1> USE DEF PageInv, At
<1>1. CASE MainPage
  BY <1>1 DEF MainPage, Create, Resume, ArmDelete, Delete, ResetWizard, ResetFlow,
              Navigate, Abandon, MinerIdle
<1>2. CASE Ticket
  BY <1>2 DEF Ticket, AddRoll, Generate, CancelWizard, EnterQuiz, BackToDice, TapWord,
              FailQuiz, PassQuiz, BackToWords, ResetWizard, ResetFlow, Navigate,
              Abandon, MinerIdle
<1>3. CASE Mine
  BY <1>3, DraftJob DEF Mine, MinerNext
<1>4. CASE CancelMine \/ PollTick \/ (\E w \in Workers : WorkerRuns(w))
  BY <1>4 DEF CancelMine, PollTick, WorkerRuns, MinerNext
<1>5. CASE \/ Turn(4, 5) \/ Turn(5, 4) \/ Turn(6, 5) \/ TurnBroadcastPage \/ Record
           \/ Export \/ \E utxo \in Utxos : EnterFunding(utxo)
  BY <1>5 DEF Turn, TurnBroadcastPage, Record, Export, EnterFunding, MinerIdle
<1>6. CASE GoLive
  BY <1>6 DEF GoLive, ResetWizard, ResetFlow, Navigate, Abandon
<1>7. CASE Restart
  BY <1>7 DEF Restart, Reboot
<1>8. CASE UNCHANGED vars
  BY <1>8 DEF vars
<1> QED
  BY <1>1, <1>2, <1>3, <1>4, <1>5, <1>6, <1>7, <1>8 DEF Next, Spawn

\* Leaving the page or the app keeps what the miner's own steps keep.
LEMMA WizardMinerType ==
    ASSUME MinerTypeOK, DraftType, PageInv, [Next]_vars
    PROVE  MinerTypeOK'
<1>1. CASE [MinerNext]_minerVars
  BY <1>1, TypeStep
<1>2. CASE Abandon
  BY <1>2 DEF Abandon, MinerTypeOK
<1>3. CASE Reboot
  BY <1>3, FreshSharedType DEF Reboot, MinerTypeOK
<1> QED
  BY <1>1, <1>2, <1>3, MinerSteps

-----------------------------------------------------------------------------
(* The store.                                                                  *)

\* Saving a list leaves a list, or nothing, in the file; what is loaded is a list.
LEMMA SavedType ==
    ASSUME NEW list \in Seq(Identity), NEW old \in Seq(Identity) \cup {None},
           NEW new \in Saved(old, list)
    PROVE  new \in Seq(Identity) \cup {None}
  BY DEF Saved

LEMMA LoadedType ==
    ASSUME StoreType
    PROVE  Loaded \subseteq Seq(Identity)
<1>1. <<>> \in Seq(Identity)
  BY EmptySeq
<1> QED
  BY <1>1 DEF Loaded, StoreType

LEMMA PersistType ==
    ASSUME StoreType, NEW list \in Seq(Identity), Persist(list)
    PROVE  /\ identities' = list
           /\ identities' \in Seq(Identity) /\ disk' \in Seq(Identity) \cup {None}
  BY SavedType DEF Persist, StoreType

LEMMA PersistTwiceType ==
    ASSUME StoreType, NEW first \in Seq(Identity), NEW second \in Seq(Identity),
           PersistTwice(first, second)
    PROVE  /\ identities' = second
           /\ identities' \in Seq(Identity) /\ disk' \in Seq(Identity) \cup {None}
<1>1. PICK d \in Saved(disk, first) : disk' \in Saved(d, second)
  BY DEF PersistTwice
<1>2. d \in Seq(Identity) \cup {None}
  BY SavedType DEF StoreType
<1> QED
  BY <1>1, <1>2, SavedType DEF PersistTwice

-----------------------------------------------------------------------------
(* The draft.                                                                  *)

LEMMA DraftOps ==
    /\ NoDraft \in Draft
    /\ \A seed \in Seeds, utxo \in Utxos \cup {None} :
         DraftOf(seed, utxo) \in Draft /\ DraftOf(seed, utxo).seed = seed
<1>1. <<>> \in Seq(0..QuizLen \cup {None})
  BY EmptySeq
<1> QED
  BY <1>1 DEF NoDraft, DraftOf, Draft

LEMMA DraftUpdates ==
    ASSUME DraftType
    PROVE  /\ draft.seed \in Seeds \cup {None}
           /\ draft.funding \in Utxos \cup {None}
           /\ draft.spawn \in Job \cup {None}
           /\ [draft EXCEPT !.quiz = <<>>] \in Draft
           /\ [draft EXCEPT !.quiz = <<>>].seed = draft.seed
           /\ \A utxo \in Utxos : /\ [draft EXCEPT !.funding = utxo] \in Draft
                                  /\ [draft EXCEPT !.funding = utxo].seed = draft.seed
           /\ \A job \in Job : /\ [draft EXCEPT !.spawn = job] \in Draft
                               /\ [draft EXCEPT !.spawn = job].seed = draft.seed
                               /\ [draft EXCEPT !.spawn = job].funding = draft.funding
                               /\ [draft EXCEPT !.spawn = job].spawn = job
<1>1. <<>> \in Seq(0..QuizLen \cup {None})
  BY EmptySeq
<1> QED
  BY <1>1 DEF DraftType, Draft

LEMMA DraftTap ==
    ASSUME DraftType, PageType, NEW right \in BOOLEAN
    PROVE  /\ [draft EXCEPT !.quiz = Tapped(right)] \in Draft
           /\ [draft EXCEPT !.quiz = Tapped(right)].seed = draft.seed
           /\ Len(Tapped(right)) = Len(draft.quiz) + 1
<1> DEFINE Tap == 0..QuizLen \cup {None}
<1>1. draft.quiz \in Seq(Tap) /\ draft \in Draft
  BY DEF DraftType, Draft
<1>2. (IF right THEN quizPos ELSE None) \in Tap
  BY DEF PageType
<1> HIDE DEF Tap
<1>3. Tapped(right) \in Seq(Tap) /\ Len(Tapped(right)) = Len(draft.quiz) + 1
  BY <1>1, <1>2, AppendProperties DEF Tapped
<1> USE DEF Tap
<1>4. Tapped(right) \in Seq(0..QuizLen \cup {None})
  BY <1>3
<1> HIDE DEF Tap
<1> QED
  BY <1>1, <1>3, <1>4 DEF Draft

-----------------------------------------------------------------------------
(* Type correctness of the application, with the relations between its pages.  *)

WizardInv == StoreType /\ PageType /\ DraftType /\ PageInv

LEMMA WizardInvInit == Init => MinerTypeOK /\ WizardInv
<1>1. <<>> \in Seq(Identity) /\ Len(<<>>) = 0
  BY EmptySeq
<1>2. MinerInit => MinerTypeOK
  BY TypeInit
<1>3. Init => StoreType
  BY <1>1 DEF Init, StoreInit, StoreType
<1>4. Init => DraftType
  BY DraftOps DEF Init, WizardInit, DraftType, EmptyPool
<1>5. Init => Len(identities) = 0
  BY <1>1 DEF Init, StoreInit
<1>6. Init => PageType
  BY <1>5 DEF Init, WizardInit, PageType
<1>7. Init => PageInv
  BY DEF Init, WizardInit, MinerInit, PageInv, At
<1> QED
  BY <1>2, <1>3, <1>4, <1>6, <1>7 DEF Init, WizardInv

\* Two flags of the create page are always booleans.
LEMMA FlagStep == FlagType /\ [Next]_vars => FlagType'
<1> SUFFICES ASSUME FlagType, [Next]_vars
             PROVE  FlagType'
  OBVIOUS
<1> USE DEF FlagType
<1>1. ASSUME UNCHANGED <<revealPage, keyExported>>
      PROVE  FlagType'
  BY <1>1
<1>2. ASSUME ResetFlow
      PROVE  FlagType'
  BY <1>2 DEF ResetFlow
<1>3. CASE MainPage
  BY <1>1, <1>2, <1>3 DEF MainPage, Create, ResetWizard, Resume, ArmDelete, Delete
<1>4. CASE Ticket
  BY <1>1, <1>2, <1>4 DEF Ticket, AddRoll, Generate, CancelWizard, ResetWizard, EnterQuiz,
       BackToDice, TapWord, FailQuiz, PassQuiz, BackToWords
<1>5. CASE PollTick
  BY <1>5 DEF PollTick
<1>6. CASE TurnBroadcastPage
  BY <1>6 DEF TurnBroadcastPage
<1>7. CASE Export
  BY <1>7 DEF Export
<1>8. CASE GoLive
  BY <1>2, <1>8 DEF GoLive, ResetWizard
<1>9. CASE Mine \/ CancelMine \/ \E w \in Workers : WorkerRuns(w)
  BY <1>1, <1>9 DEF Mine, CancelMine, WorkerRuns, wizardVars
<1>10. CASE \/ Turn(4, 5) \/ Turn(5, 4) \/ Turn(6, 5) \/ Record
            \/ \E utxo \in Utxos : EnterFunding(utxo)
  BY <1>1, <1>10 DEF Turn, Record, EnterFunding
<1>11. CASE Restart
  BY <1>11 DEF Restart
<1>12. CASE UNCHANGED vars
  BY <1>1, <1>12 DEF vars, wizardVars
<1> QED
  BY <1>3, <1>4, <1>5, <1>6, <1>7, <1>8, <1>9, <1>10, <1>11, <1>12 DEF Next, Spawn

LEMMA MainPageInv ==
    ASSUME WizardInv, MainPage
    PROVE  WizardInv'
<1> USE DEF WizardInv, PageType, PageInv, At
<1>0. Len(identities) \in Nat
  BY LenProperties DEF StoreType
<1>1. CASE Create
  <2>1. StoreType' /\ identities' = identities
    BY <1>1 DEF Create, StoreIdle, storeVars, StoreType
  <2>2. DraftType'
    BY <1>1, DraftOps DEF Create, ResetWizard, ResetEntropy, DraftType, EmptyPool
  <2>3. PageType' /\ PageInv'
    BY <1>0, <1>1, <2>1 DEF Create, Navigate, ResetWizard, ResetEntropy, ResetFlow
  <2> QED
    BY <2>1, <2>2, <2>3
<1>2. ASSUME NEW i \in DOMAIN identities, Resume(i)
      PROVE  WizardInv'
  <2>1. identities[i] \in Identity /\ i \in 1..Len(identities)
    BY ElementType DEF StoreType
  <2>2. identities[i].seed \in Seeds /\ identities[i].funding \in Utxos \cup {None}
    BY <2>1 DEF Identity
  <2>3. draft' = DraftOf(identities[i].seed, identities[i].funding) /\ step' \in {4, 6}
    BY <1>2 DEF Resume
  <2>4. draft' \in Draft /\ draft'.seed # None
    BY <2>2, <2>3, DraftOps DEF SpawnAssumption
  <2>5. UNCHANGED <<identities, disk, airlock, pool, rollCount, minted>>
    BY <1>2 DEF Resume, StoreIdle, storeVars
  <2>6. StoreType' /\ DraftType'
    BY <2>4, <2>5 DEF StoreType, DraftType
  <2>7. PageType'
    BY <1>0, <1>2, <2>1, <2>3, <2>5 DEF Resume, Navigate, ResetFlow
  <2>8. PageInv'
    BY <1>2, <2>4 DEF Resume, Navigate, ResetFlow
  <2> QED
    BY <2>6, <2>7, <2>8
<1>3. ASSUME NEW i \in DOMAIN identities \cup {0}, ArmDelete(i)
      PROVE  WizardInv'
  <2>1. i \in 0..Len(identities)
    BY <1>3, LenProperties DEF StoreType
  <2> QED
    BY <1>3, <2>1 DEF ArmDelete, MinerIdle, minerVars, StoreIdle, storeVars, StoreType, DraftType
<1>4. CASE Delete
  <2>1. /\ RemoveAt(identities, confirmDelete) \in Seq(Identity)
        /\ Len(RemoveAt(identities, confirmDelete)) \in Nat
    BY <1>4, RemoveAtType, LenProperties DEF Delete, StoreType
  <2>2. StoreType'
    BY <1>4, <2>1, PersistType DEF Delete, StoreType
  <2>3. Len(identities') \in Nat
    BY <2>2, LenProperties DEF StoreType
  <2>4. savedIndex = 0
    BY <1>4 DEF Delete
  <2>5. PageType' /\ PageInv'
    BY <1>4, <2>3, <2>4 DEF Delete, MinerIdle, minerVars
  <2> QED
    BY <1>4, <2>2, <2>5 DEF Delete, DraftType
<1> QED
  BY <1>1, <1>2, <1>3, <1>4, MainPage DEF MainPage

LEMMA TicketInv ==
    ASSUME WizardInv, Ticket
    PROVE  WizardInv'
<1> USE DEF WizardInv, PageType, PageInv, At
<1>0. Len(identities) \in Nat
  BY LenProperties DEF StoreType
<1>1. ASSUME StoreIdle
      PROVE  StoreType' /\ identities' = identities
  BY <1>1 DEF StoreIdle, storeVars, StoreType
<1>2. ASSUME MinerIdle
      PROVE  spawning' = spawning /\ current' = current
  BY <1>2 DEF MinerIdle, minerVars
<1>3. CASE AddRoll
  <2>1. pool' \in [rolls : 0..MaxRolls, seed : Seeds \cup {None}]
    BY <1>3 DEF AddRoll, DraftType
  <2>2. DraftType' /\ rollCount' \in 0..MaxRolls
    BY <1>3, <2>1 DEF AddRoll, PageKept, DraftType
  <2> QED
    BY <1>1, <1>2, <1>3, <2>2 DEF AddRoll, PageKept
<1>4. CASE Generate
  <2>1. draft' \in Draft /\ draft'.seed # None /\ DraftType'
    <3>1. CASE pool.seed # None
      <4>1. pool.seed \in Seeds
        BY <3>1 DEF DraftType
      <4>2. draft' = DraftOf(pool.seed, None) /\ UNCHANGED <<pool, minted>>
        BY <1>4, <3>1 DEF Generate
      <4> QED
        BY <4>1, <4>2, DraftOps DEF DraftType
    <3>2. CASE pool.seed = None
      <4>1. minted' = minted + 1 /\ minted < MaxSeeds
        BY <1>4, <3>2 DEF Generate
      <4>2. minted' \in Seeds /\ minted' \in 0..MaxSeeds
        BY <4>1 DEF DraftType, Seeds
      <4>3. draft' = DraftOf(minted', None) /\ pool' = [pool EXCEPT !.seed = minted']
        BY <1>4, <3>2 DEF Generate
      <4>4. pool' \in [rolls : 0..MaxRolls, seed : Seeds \cup {None}]
        BY <4>2, <4>3 DEF DraftType
      <4>5. draft' \in Draft /\ draft'.seed = minted'
        BY <4>2, <4>3, DraftOps
      <4>6. minted' # None
        BY <4>2 DEF SpawnAssumption
      <4> HIDE DEF WizardInv, PageType, PageInv
      <4> QED
        BY <4>2, <4>4, <4>5, <4>6 DEF DraftType
    <3> QED
      BY <3>1, <3>2
  <2>2. UNCHANGED <<page, confirmDelete, rollCount, quizPos, savedIndex>> /\ step' = 2
    BY <1>4 DEF Generate
  <2> QED
    BY <1>1, <1>2, <1>4, <2>1, <2>2 DEF Generate
<1>5. CASE CancelWizard
  <2>1. DraftType'
    BY <1>5, DraftOps DEF CancelWizard, ResetWizard, ResetEntropy, DraftType, EmptyPool
  <2> QED
    BY <1>0, <1>1, <1>5, <2>1
       DEF CancelWizard, ResetWizard, ResetEntropy, ResetFlow, Navigate
<1>6. CASE EnterQuiz \/ BackToWords
  <2>1. draft' \in Draft /\ draft'.seed = draft.seed
    BY <1>6, DraftUpdates DEF EnterQuiz, BackToWords
  <2>a. UNCHANGED <<pool, minted>>
    BY <1>6 DEF EnterQuiz, BackToWords, PageKept
  <2>2. DraftType'
    <3> HIDE DEF PageType, PageInv
    <3> QED
      BY <2>1, <2>a DEF DraftType
  <2>3. /\ MinerIdle /\ StoreIdle
        /\ UNCHANGED <<page, confirmDelete, rollCount, savedIndex>>
        /\ quizPos' = 0 /\ step' \in {2, 3} /\ page = "create" /\ step \in {2, 3, 4}
    <3> HIDE DEF WizardInv, PageType, PageInv
    <3>1. ASSUME EnterQuiz
          PROVE  /\ MinerIdle /\ StoreIdle
                 /\ UNCHANGED <<page, confirmDelete, rollCount, savedIndex>>
                 /\ quizPos' = 0 /\ step' = 3 /\ page = "create" /\ step \in {2, 4}
      BY <3>1 DEF EnterQuiz, PageKept
    <3>2. ASSUME BackToWords
          PROVE  /\ MinerIdle /\ StoreIdle
                 /\ UNCHANGED <<page, confirmDelete, rollCount, savedIndex>>
                 /\ quizPos' = 0 /\ step' = 2 /\ page = "create" /\ step = 3
      BY <3>2 DEF BackToWords, PageKept
    <3> QED
      BY <1>6, <3>1, <3>2
  <2> QED
    BY <1>1, <1>2, <2>1, <2>2, <2>3
<1>7. CASE BackToDice
  BY <1>1, <1>2, <1>7 DEF BackToDice, PageKept, DraftType
<1>8. ASSUME NEW right \in BOOLEAN, TapWord(right) \/ FailQuiz(right)
      PROVE  WizardInv'
  <2>a. \/ draft' = [draft EXCEPT !.quiz = Tapped(right)]
        \/ draft' = [draft EXCEPT !.quiz = <<>>]
    BY <1>8 DEF TapWord, FailQuiz
  <2>b. UNCHANGED <<pool, minted>>
    BY <1>8 DEF TapWord, FailQuiz, PageKept
  <2>1. draft' \in Draft /\ draft'.seed = draft.seed
    <3>1. CASE draft' = [draft EXCEPT !.quiz = Tapped(right)]
      BY <3>1, DraftUpdates, DraftTap
    <3>2. CASE draft' = [draft EXCEPT !.quiz = <<>>]
      BY <3>2, DraftUpdates
    <3> QED
      BY <2>a, <3>1, <3>2
  <2>2. DraftType'
    <3> HIDE DEF PageType, PageInv
    <3> QED
      BY <2>1, <2>b DEF DraftType
  <2>3. quizPos' \in 0..(QuizLen - 1)
    <3>1. quizPos' = 0 \/ (quizPos # QuizLen - 1 /\ quizPos' = quizPos + 1)
      BY <1>8 DEF TapWord, FailQuiz
    <3>2. quizPos \in 0..(QuizLen - 1) /\ QuizLen \in Nat \ {0}
      BY WizardAssumption
    <3> HIDE DEF WizardInv, PageType, PageInv
    <3> QED
      BY <3>1, <3>2
  <2> QED
    BY <1>1, <1>2, <1>8, <2>1, <2>2, <2>3 DEF TapWord, FailQuiz, PageKept
<1>9. ASSUME NEW right \in BOOLEAN, PassQuiz(right)
      PROVE  WizardInv'
  <2> DEFINE listed == WithBackedUp(identities, draft.seed)
  <2> DEFINE staged == WithStage(listed, Len(listed), BACKED_UP)
  <2>1. draft.seed \in Seeds
    BY <1>9, DraftUpdates DEF PassQuiz
  <2>2. listed \in Seq(Identity) /\ Len(listed) >= Len(identities) /\ Len(listed) \in Nat
    BY <2>1, BackedUpType, LenProperties DEF StoreType
  <2> HIDE DEF listed
  <2>3. staged \in Seq(Identity) /\ Len(staged) = Len(listed)
    BY <2>2, WithStageType, StageType
  <2>4. PersistTwice(listed, staged) /\ savedIndex' = Len(listed)
    BY <1>9 DEF PassQuiz, listed
  <2> HIDE DEF staged
  <2>5. identities' = staged /\ StoreType'
    BY <1>9, <2>2, <2>3, <2>4, PersistTwiceType DEF PassQuiz, StoreType
  <2>6. draft' \in Draft /\ draft'.seed = draft.seed
    BY <1>9, DraftUpdates DEF PassQuiz
  <2>7. DraftType'
    BY <1>9, <2>6 DEF PassQuiz, PageKept, DraftType
  <2>8. savedIndex' \in 0..Len(identities') /\ confirmDelete' \in 0..Len(identities')
    BY <1>0, <1>9, <2>2, <2>3, <2>4, <2>5 DEF PassQuiz, PageKept
  <2>9. PageType' /\ PageInv'
    BY <1>2, <1>9, <2>6, <2>8 DEF PassQuiz, PageKept
  <2> QED
    BY <2>5, <2>7, <2>9
<1> QED
  BY <1>3, <1>4, <1>5, <1>6, <1>7, <1>8, <1>9 DEF Ticket

LEMMA SpawnInv ==
    ASSUME MinerTypeOK, WizardInv, Spawn
    PROVE  WizardInv'
<1> USE DEF WizardInv, PageType, PageInv, At
<1>0. Len(identities) \in Nat
  BY LenProperties DEF StoreType
<1>1. ASSUME StoreIdle
      PROVE  StoreType' /\ identities' = identities
  BY <1>1 DEF StoreIdle, storeVars, StoreType
<1>2. ASSUME MinerIdle
      PROVE  spawning' = spawning /\ current' = current
  BY <1>2 DEF MinerIdle, minerVars
<1>3. CASE Turn(4, 5) \/ Turn(5, 4) \/ Turn(6, 5) \/ TurnBroadcastPage
  BY <1>1, <1>2, <1>3 DEF Turn, TurnBroadcastPage, PageKept, DraftType
<1>4. ASSUME NEW utxo \in Utxos, EnterFunding(utxo)
      PROVE  WizardInv'
  <2> DEFINE funded == WithFunding(identities, savedIndex, utxo)
  <2>1. funded \in Seq(Identity) /\ Len(funded) = Len(identities)
    BY WithFundingType DEF StoreType
  <2>2. Persist(funded)
    BY <1>4 DEF EnterFunding
  <2> HIDE DEF funded
  <2>3. StoreType' /\ Len(identities') = Len(identities)
    BY <1>4, <2>1, <2>2, PersistType DEF EnterFunding, StoreType
  <2>4. draft' \in Draft /\ draft'.seed = draft.seed
    BY <1>4, DraftUpdates DEF EnterFunding
  <2>5. DraftType'
    BY <1>4, <2>4 DEF EnterFunding, PageKept, DraftType
  <2> QED
    BY <1>2, <1>4, <2>3, <2>4, <2>5 DEF EnterFunding, PageKept
<1>5. CASE Mine
  BY <1>1, <1>5 DEF Mine, SpawnBegin, wizardVars, DraftType
<1>6. CASE CancelMine
  BY <1>1, <1>6 DEF CancelMine, SpawnCancel, wizardVars, DraftType
<1>7. CASE PollTick
  <2>1. ~spawning'
    BY <1>7 DEF PollTick, SpawnPoll
  <2>2. draft' \in Draft /\ draft'.seed = draft.seed /\ step' \in {6, 7}
    <3>1. CASE shared.done.ok
      <4>1. shared.done.job \in Job
        BY <1>7 DEF PollTick, SpawnPoll, MinerTypeOK, Answer
      <4>2. draft' = [draft EXCEPT !.spawn = shared.done.job] /\ step' = 7
        BY <1>7, <3>1 DEF PollTick
      <4> QED
        BY <4>1, <4>2, DraftUpdates
    <3>2. CASE ~shared.done.ok
      BY <1>7, <3>2 DEF PollTick, DraftType
    <3> QED
      BY <3>1, <3>2
  <2>3. DraftType'
    BY <1>7, <2>2 DEF PollTick, PageKept, DraftType
  <2> QED
    BY <1>1, <1>7, <2>1, <2>2, <2>3 DEF PollTick, PageKept
<1>8. ASSUME NEW w \in Workers, WorkerRuns(w)
      PROVE  WizardInv'
  <2>1. UNCHANGED <<spawning, current>>
    BY <1>8 DEF WorkerRuns, WorkerStep, CheckCancel, Publish
  <2>2. StoreIdle /\ UNCHANGED wizardVars
    BY <1>8 DEF WorkerRuns
  <2> QED
    BY <1>1, <2>1, <2>2 DEF wizardVars, DraftType
<1>9. CASE Record
  <2> DEFINE recorded == WithAttestation(identities, savedIndex, outcome)
  <2>1. recorded \in Seq(Identity) /\ Len(recorded) = Len(identities)
    BY WithAttestationType DEF StoreType, MinerTypeOK
  <2>2. Persist(recorded)
    BY <1>9 DEF Record
  <2> HIDE DEF recorded
  <2>3. StoreType' /\ Len(identities') = Len(identities)
    BY <1>9, <2>1, <2>2, PersistType DEF Record, StoreType
  <2> QED
    BY <1>2, <1>9, <2>3 DEF Record, PageKept, DraftType
<1>10. CASE Export
  <2>1. airlock' \in Job \cup {None}
    BY <1>10, DraftUpdates DEF Export, ExportSucceeds, ExportFails, StoreType
  <2>2. StoreType'
    BY <1>10, <2>1 DEF Export, StoreType
  <2> QED
    BY <1>2, <1>10, <2>2 DEF Export, PageKept, DraftType
<1>11. CASE GoLive
  <2> DEFINE live == WithStage(identities, savedIndex, LIVE)
  <2>1. live \in Seq(Identity) /\ Len(live) = Len(identities)
    BY WithStageType, StageType DEF StoreType
  <2>2. Persist(live)
    BY <1>11 DEF GoLive
  <2> HIDE DEF live
  <2>3. airlock' \in Job \cup {None}
    BY <1>11 DEF GoLive, Wipe, StoreType
  <2>4. StoreType' /\ Len(identities') = Len(identities)
    BY <2>1, <2>2, <2>3, PersistType DEF StoreType
  <2>5. DraftType'
    BY <1>11, DraftOps DEF GoLive, ResetWizard, ResetEntropy, DraftType, EmptyPool
  <2>6. PageType' /\ PageInv'
    BY <1>0, <1>11, <2>4 DEF GoLive, ResetWizard, ResetEntropy, ResetFlow, Navigate
  <2> QED
    BY <2>4, <2>5, <2>6
<1> QED
  BY <1>3, <1>4, <1>5, <1>6, <1>7, <1>8, <1>9, <1>10, <1>11 DEF Spawn

LEMMA RestartInv ==
    ASSUME WizardInv, Restart
    PROVE  WizardInv'
<1> USE DEF WizardInv
<1>1. StoreType'
  BY LoadedType DEF Restart, StoreType
<1>2. Len(identities') \in Nat
  BY <1>1, LenProperties DEF StoreType
<1>3. DraftType'
  BY DraftOps DEF Restart, DraftType, EmptyPool
<1>4. PageType' /\ PageInv'
  BY <1>2 DEF Restart, PageType, PageInv, At
<1> QED
  BY <1>1, <1>3, <1>4

LEMMA WizardInvStep ==
    ASSUME MinerTypeOK, WizardInv, [Next]_vars
    PROVE  WizardInv'
<1>1. CASE UNCHANGED vars
  BY <1>1 DEF vars, wizardVars, minerVars, storeVars, WizardInv, StoreType, PageType,
              DraftType, PageInv, At
<1> QED
  BY <1>1, MainPageInv, TicketInv, SpawnInv, RestartInv DEF Next

\* Types and page relations hold in every reachable state: what the theorems below
\* rest on (main.rs: the callbacks; page.slint: the click handlers).
THEOREM WizardInvariant == Spec => [](MinerTypeOK /\ WizardInv /\ FlagType)
<1>1. Init => MinerTypeOK /\ WizardInv /\ FlagType
  BY WizardInvInit DEF Init, WizardInit, FlagType
<1>2. MinerTypeOK /\ WizardInv /\ FlagType /\ [Next]_vars
        => (MinerTypeOK /\ WizardInv /\ FlagType)'
  BY WizardMinerType, WizardInvStep, FlagStep DEF WizardInv
<1> QED
  BY <1>1, <1>2, PTL DEF Spec

\* Every reachable state of the application is well-typed, whatever the user does
\* and whichever call of the file system fails: no index is out of its list.
THEOREM WizardTypeCorrect == Spec => []TypeOK
<1>1. MinerTypeOK /\ WizardInv /\ FlagType => TypeOK
  BY TypeParts DEF WizardInv
<1> QED
  BY <1>1, WizardInvariant, PTL

-----------------------------------------------------------------------------
(* What holds for any user and any storage.                                    *)

LEMMA RollsStep ==
    ASSUME RollsAgree, DraftType, [Next]_vars
    PROVE  RollsAgree'
<1> USE DEF RollsAgree
<1>1. ASSUME UNCHANGED <<pool, rollCount>>
      PROVE  RollsAgree'
  BY <1>1
<1>2. ASSUME ResetEntropy
      PROVE  RollsAgree'
  BY <1>2 DEF ResetEntropy, EmptyPool
<1>3. CASE MainPage
  BY <1>1, <1>2, <1>3 DEF MainPage, Create, ResetWizard, Resume, ArmDelete, Delete
<1>4. CASE AddRoll
  BY <1>4 DEF AddRoll
<1>5. CASE Generate
  BY <1>5 DEF Generate, DraftType
<1>6. CASE CancelWizard \/ GoLive
  BY <1>2, <1>6 DEF CancelWizard, GoLive, ResetWizard
<1>7. CASE EnterQuiz \/ BackToDice \/ BackToWords
           \/ \E right \in BOOLEAN : TapWord(right) \/ FailQuiz(right) \/ PassQuiz(right)
  BY <1>1, <1>7 DEF EnterQuiz, BackToDice, BackToWords, TapWord, FailQuiz, PassQuiz
<1>8. CASE Mine \/ CancelMine \/ \E w \in Workers : WorkerRuns(w)
  BY <1>1, <1>8 DEF Mine, CancelMine, WorkerRuns, wizardVars
<1>9. CASE \/ Turn(4, 5) \/ Turn(5, 4) \/ Turn(6, 5) \/ PollTick \/ TurnBroadcastPage
           \/ Record \/ Export \/ \E utxo \in Utxos : EnterFunding(utxo)
  BY <1>1, <1>9 DEF Turn, PollTick, TurnBroadcastPage, Record, Export, EnterFunding
<1>10. CASE Restart
  BY <1>10 DEF Restart, EmptyPool
<1>11. CASE UNCHANGED vars
  BY <1>1, <1>11 DEF vars, wizardVars
<1> QED
  BY <1>3, <1>4, <1>5, <1>6, <1>7, <1>8, <1>9, <1>10, <1>11 DEF Next, Ticket, Spawn

\* The page never offers to mint a ticket from a pool below the floor: the assertion
\* of generate-identity cannot fire.
THEOREM WizardRollsAgree == Spec => []RollsAgree
<1>1. Init => RollsAgree
  BY DEF Init, WizardInit, RollsAgree, EmptyPool
<1>2. WizardInv /\ RollsAgree /\ [Next]_vars => RollsAgree'
  BY RollsStep DEF WizardInv
<1> QED
  BY <1>1, <1>2, WizardInvariant, PTL DEF Spec

\* The page never polls for an answer nobody works on, on whatever path the user
\* came to the mine step and however often the app ended before.
THEOREM WizardNeverStalls == Spec => []MineNeverStalls
<1>1. Init => MineNeverStalls
  BY DEF Init, MinerInit, MineNeverStalls
<1>2. ASSUME MinerTypeOK, WizardInv, MineNeverStalls, [Next]_vars
      PROVE  MineNeverStalls'
  <2>1. CASE [MinerNext]_minerVars
    BY <1>2, <2>1, StallStep
  <2>2. CASE Abandon \/ Reboot
    BY <2>2 DEF Abandon, Reboot, MineNeverStalls
  <2> QED
    BY <1>2, <2>1, <2>2, MinerSteps DEF WizardInv
<1>3. MinerTypeOK /\ WizardInv /\ MineNeverStalls /\ [Next]_vars => MineNeverStalls'
  BY <1>2
<1> QED
  BY <1>1, <1>3, WizardInvariant, PTL DEF Spec

-----------------------------------------------------------------------------
(* A patient user: what is signed is what the page shows.                      *)

\* The create page is left, and the app ends, with no run of its own.
LEMMA WizardOwnRun ==
    ASSUME ~Impatient, MinerTypeOK, WizardInv, OwnRun, [Next]_vars
    PROVE  OwnRun'
<1>1. CASE [MinerNext]_minerVars
  BY <1>1, OwnRunStep
<1>2. CASE Abandon
  BY <1>2 DEF Abandon, OwnRun, Alive
<1>3. CASE Reboot
  BY <1>3 DEF Reboot, OwnRun, Alive, Ended
<1> QED
  BY <1>1, <1>2, <1>3, MinerSteps DEF WizardInv

LEMMA OutcomeStep ==
    ASSUME MinerTypeOK, WizardInv, OwnRun, OutcomeIsDrafts, [Next]_vars
    PROVE  OutcomeIsDrafts'
<1> USE DEF OutcomeIsDrafts, At
<1>1. ASSUME UNCHANGED <<page, step, outcome, draft>>
      PROVE  OutcomeIsDrafts'
  BY <1>1
<1>2. ASSUME page' = "main" \/ step' \in 1..6
      PROVE  OutcomeIsDrafts'
  BY <1>2
<1>3. CASE MainPage
  <2>1. CASE Create
    BY <1>2, <2>1 DEF Create, ResetWizard
  <2>2. CASE \E i \in DOMAIN identities : Resume(i)
    BY <1>2, <2>2 DEF Resume
  <2>3. CASE Delete \/ \E i \in DOMAIN identities \cup {0} : ArmDelete(i)
    BY <1>2, <2>3 DEF Delete, ArmDelete
  <2> QED
    BY <1>3, <2>1, <2>2, <2>3 DEF MainPage
<1>4. CASE Ticket
  <2>1. CASE AddRoll \/ Generate
    BY <1>2, <2>1 DEF AddRoll, Generate
  <2>2. CASE CancelWizard
    BY <1>2, <2>2 DEF CancelWizard, Navigate
  <2>3. CASE EnterQuiz \/ BackToDice \/ BackToWords
    BY <1>2, <2>3 DEF EnterQuiz, BackToDice, BackToWords
  <2>4. ASSUME NEW right \in BOOLEAN, TapWord(right) \/ FailQuiz(right) \/ PassQuiz(right)
        PROVE  OutcomeIsDrafts'
    <3>1. step' \in {3, 4}
      BY <2>4 DEF TapWord, FailQuiz, PassQuiz
    <3> QED
      BY <1>2, <3>1
  <2> QED
    BY <1>4, <2>1, <2>2, <2>3, <2>4 DEF Ticket
<1>5. CASE \/ Turn(4, 5) \/ Turn(5, 4) \/ Turn(6, 5)
           \/ \E utxo \in Utxos : EnterFunding(utxo)
  BY <1>2, <1>5 DEF Turn, EnterFunding
<1>6. CASE Mine \/ CancelMine
  BY <1>2, <1>6 DEF Mine, CancelMine, wizardVars
<1>7. CASE PollTick
  <2>1. page' = page /\ spawning /\ shared.done # None /\ step = 6
    BY <1>7 DEF PollTick, SpawnPoll, PageKept
  <2>2. shared.done.job = [seed |-> draft.seed, utxo |-> draft.funding]
    BY <2>1 DEF OwnRun, WizardInv, PageInv
  <2>3. CASE shared.done.ok
    <3>1. outcome' = shared.done.job /\ draft' = [draft EXCEPT !.spawn = shared.done.job]
      BY <1>7, <2>3 DEF PollTick, SpawnPoll
    <3>2. shared.done.job \in Job
      BY <2>1 DEF MinerTypeOK, Answer
    <3>3. /\ draft'.seed = draft.seed /\ draft'.funding = draft.funding
          /\ draft'.spawn = shared.done.job
      BY <3>1, <3>2, DraftUpdates DEF WizardInv
    <3> QED
      BY <2>2, <3>1, <3>3
  <2>4. CASE ~shared.done.ok
    BY <1>2, <1>7, <2>1, <2>4 DEF PollTick
  <2> QED
    BY <2>3, <2>4
<1>8. ASSUME NEW w \in Workers, WorkerRuns(w)
      PROVE  OutcomeIsDrafts'
  <2>1. UNCHANGED wizardVars /\ outcome' = outcome
    BY <1>8 DEF WorkerRuns, WorkerStep, CheckCancel, Publish
  <2> QED
    BY <1>1, <2>1 DEF wizardVars
<1>9. CASE TurnBroadcastPage \/ Record \/ Export
  <2>1. /\ MinerIdle /\ PageKept /\ draft' = draft
        /\ page = "create" /\ step \in {7, 8}
    BY <1>9 DEF TurnBroadcastPage, Record, Export
  <2> QED
    BY <2>1 DEF MinerIdle, minerVars, PageKept
<1>10. CASE GoLive \/ Restart
  BY <1>2, <1>10 DEF GoLive, Navigate, Restart
<1>11. CASE UNCHANGED vars
  BY <1>1, <1>11 DEF vars, wizardVars, minerVars
<1> QED
  BY <1>3, <1>4, <1>5, <1>6, <1>7, <1>8, <1>9, <1>10, <1>11 DEF Next, Spawn

\* With a patient user there is at most one thread at work, on the job of the draft,
\* and the outcome on the page is the draft's.
THEOREM PatientInvariant == ~Impatient => (Spec => [](OwnRun /\ OutcomeIsDrafts))
<1> SUFFICES ASSUME ~Impatient
             PROVE  Spec => [](OwnRun /\ OutcomeIsDrafts)
  OBVIOUS
<1>1. Init => OwnRun /\ OutcomeIsDrafts
  BY OwnRunInit DEF Init, WizardInit, OutcomeIsDrafts
<1>2. MinerTypeOK /\ WizardInv /\ OwnRun /\ OutcomeIsDrafts /\ [Next]_vars
        => (OwnRun /\ OutcomeIsDrafts)'
  BY WizardOwnRun, OutcomeStep
<1> QED
  BY <1>1, <1>2, WizardInvariant, PTL DEF Spec

\* With a user who mines again only after a cancelled worker has ended, what the
\* create page broadcasts, records and exports is the spawn of the identity and the
\* UTXO it shows: whatever path of Back, Resume, Cancel and restarts led there, and
\* whichever call of the file system failed.
THEOREM PatientOutcomeIsDrafts == ~Impatient => (Spec => []OutcomeIsDrafts)
  BY PatientInvariant, PTL

-----------------------------------------------------------------------------
(* What the changes of the list leave in it.                                   *)

LEMMA WithStageValue ==
    ASSUME NEW list \in Seq(Identity), NEW i \in 1..Len(list), NEW stage \in Stages
    PROVE  LET new == WithStage(list, i, stage) IN
           /\ new[i].stage = stage
           /\ new[i].seed = list[i].seed
           /\ new[i].funding = list[i].funding
           /\ new[i].attested = list[i].attested
           /\ \A j \in 1..Len(list) : j # i => new[j] = list[j]
<1>1. list[i] \in Identity /\ i \in DOMAIN list
  BY ElementOfSeq, LenProperties
<1> DEFINE it == [list[i] EXCEPT !.stage = stage]
<1>2. it \in Identity
  BY <1>1 DEF Identity
<1>3. WithStage(list, i, stage) = [list EXCEPT ![i] = it]
  BY <1>1 DEF WithStage
<1>4. /\ it.stage = stage /\ it.seed = list[i].seed
      /\ it.funding = list[i].funding /\ it.attested = list[i].attested
  BY <1>1 DEF Identity
<1> HIDE DEF it
<1>5. \A j \in 1..Len(list) : WithStage(list, i, stage)[j] = IF j = i THEN it ELSE list[j]
  BY <1>2, <1>3, ExceptSeq
<1> QED
  BY <1>4, <1>5

LEMMA WithFundingValue ==
    ASSUME NEW list \in Seq(Identity), NEW i \in 1..Len(list), NEW utxo \in Utxos
    PROVE  LET new == WithFunding(list, i, utxo) IN
           /\ new[i].stage = IF list[i].stage < FUNDED THEN FUNDED ELSE list[i].stage
           /\ new[i].seed = list[i].seed
           /\ new[i].funding = utxo
           /\ new[i].attested = list[i].attested
           /\ \A j \in 1..Len(list) : j # i => new[j] = list[j]
<1>1. list[i] \in Identity /\ i \in DOMAIN list
  BY ElementOfSeq, LenProperties
<1> DEFINE stage == IF list[i].stage < FUNDED THEN FUNDED ELSE list[i].stage
<1> DEFINE it == [list[i] EXCEPT !.funding = utxo, !.stage = stage]
<1>2. stage \in Stages
  BY <1>1, StageType DEF Identity
<1>3. it \in Identity
  BY <1>1, <1>2 DEF Identity
<1>4. WithFunding(list, i, utxo) = [list EXCEPT ![i] = it]
  BY <1>1 DEF WithFunding, Identity
<1>5. /\ it.stage = stage /\ it.seed = list[i].seed
      /\ it.funding = utxo /\ it.attested = list[i].attested
  BY <1>1 DEF Identity
<1> HIDE DEF it
<1>6. \A j \in 1..Len(list) : WithFunding(list, i, utxo)[j] = IF j = i THEN it ELSE list[j]
  BY <1>3, <1>4, ExceptSeq
<1> QED
  BY <1>5, <1>6

LEMMA WithAttestationValue ==
    ASSUME NEW list \in Seq(Identity), NEW i \in 1..Len(list), NEW result \in Job \cup {None}
    PROVE  LET new == WithAttestation(list, i, result) IN
           /\ new[i].stage = ATTESTED
           /\ new[i].seed = list[i].seed
           /\ new[i].funding = list[i].funding
           /\ new[i].attested = result
           /\ \A j \in 1..Len(list) : j # i => new[j] = list[j]
<1>1. list[i] \in Identity /\ i \in DOMAIN list
  BY ElementOfSeq, LenProperties
<1> DEFINE it == [list[i] EXCEPT !.attested = result, !.stage = ATTESTED]
<1>2. it \in Identity
  BY <1>1, StageType DEF Identity
<1>3. WithAttestation(list, i, result) = [list EXCEPT ![i] = it]
  BY <1>1 DEF WithAttestation, Identity
<1>4. /\ it.stage = ATTESTED /\ it.seed = list[i].seed
      /\ it.funding = list[i].funding /\ it.attested = result
  BY <1>1 DEF Identity
<1> HIDE DEF it
<1>5. \A j \in 1..Len(list) : WithAttestation(list, i, result)[j] = IF j = i THEN it ELSE list[j]
  BY <1>2, <1>3, ExceptSeq
<1> QED
  BY <1>4, <1>5

-----------------------------------------------------------------------------
(* The UTXO being spent is listed, for any user and any storage.               *)

\* From the mine step on, the UTXO of the draft is the one of the entry the page
\* writes to -- whichever identity that is.
FundingListed ==
    page = "create" /\ step >= 6 =>
        /\ draft.funding # None
        /\ identities[savedIndex].funding = draft.funding

\* From the funding step on there is an identity to write to.
Filed ==
    /\ page = "create" /\ step >= 4 => savedIndex \in 1..Len(identities)
    /\ FundingListed

LEMMA FiledStep ==
    ASSUME MinerTypeOK, WizardInv, Filed, [Next]_vars
    PROVE  Filed'
<1> USE DEF Filed, FundingListed, At
<1>0. Len(identities) \in Nat /\ identities \in Seq(Identity)
  BY LenProperties DEF WizardInv, StoreType
<1>1. ASSUME UNCHANGED <<page, step, savedIndex, identities, draft>>
      PROVE  Filed'
  BY <1>1
<1>2. ASSUME page' = "main" \/ step' \in 1..3
      PROVE  Filed'
  BY <1>2
<1>3. ASSUME page = "create", step \in 4..8, step' \in {4, 5},
             UNCHANGED <<savedIndex, identities>>
      PROVE  Filed'
  BY <1>3
<1>4. CASE MainPage
  <2>1. CASE Create
    BY <1>2, <2>1 DEF Create, ResetWizard
  <2>2. ASSUME NEW i \in DOMAIN identities, Resume(i)
        PROVE  Filed'
    <3> DEFINE it == identities[i]
    <3>1. i \in 1..Len(identities)
      BY <1>0, LenProperties
    <3>2. it \in Identity
      BY <1>0, <3>1, ElementOfSeq
    <3>3. /\ draft' = DraftOf(it.seed, it.funding)
          /\ step' = IF it.stage >= FUNDED /\ it.funding # None THEN 6 ELSE 4
          /\ savedIndex' = i /\ identities' = identities
      BY <2>2 DEF Resume, StoreIdle, storeVars
    <3>4. draft'.funding = it.funding
      BY <3>3 DEF DraftOf, NoDraft
    <3> QED
      BY <3>1, <3>3, <3>4
  <2>3. CASE Delete \/ \E i \in DOMAIN identities \cup {0} : ArmDelete(i)
    BY <1>2, <2>3 DEF Delete, ArmDelete
  <2> QED
    BY <1>4, <2>1, <2>2, <2>3 DEF MainPage
<1>5. CASE AddRoll \/ Generate \/ CancelWizard \/ EnterQuiz \/ BackToDice \/ BackToWords
           \/ \E right \in BOOLEAN : TapWord(right) \/ FailQuiz(right)
  <2>1. page' = "main" \/ step' \in 1..3
    BY <1>5 DEF AddRoll, Generate, CancelWizard, Navigate, EnterQuiz, BackToDice,
                BackToWords, TapWord, FailQuiz
  <2> QED
    BY <1>2, <2>1
<1>6. ASSUME NEW right \in BOOLEAN, PassQuiz(right)
      PROVE  Filed'
  <2> DEFINE listed == WithBackedUp(identities, draft.seed)
  <2> DEFINE staged == WithStage(listed, Len(listed), BACKED_UP)
  <2>1. draft.seed \in Seeds
    BY <1>6, DraftUpdates DEF PassQuiz, WizardInv, PageInv, At
  <2>2. listed \in Seq(Identity) /\ Len(listed) >= 1 /\ Len(listed) \in Nat
    BY <1>0, <2>1, BackedUpType, LenProperties
  <2> HIDE DEF listed
  <2>3. Len(staged) = Len(listed)
    BY <2>2, WithStageType, StageType
  <2>4. identities' = staged /\ savedIndex' = Len(listed) /\ step' = 4
    BY <1>6 DEF PassQuiz, PersistTwice, listed
  <2> HIDE DEF staged
  <2> QED
    BY <2>2, <2>3, <2>4
<1>7. CASE Turn(4, 5) \/ Turn(5, 4) \/ Turn(6, 5)
  <2>1. /\ page = "create" /\ step \in 4..8 /\ step' \in {4, 5}
        /\ UNCHANGED <<savedIndex, identities>>
    BY <1>7 DEF Turn, StoreIdle, storeVars
  <2> QED
    BY <1>3, <2>1
<1>8. ASSUME NEW utxo \in Utxos, EnterFunding(utxo)
      PROVE  Filed'
  <2> DEFINE funded == WithFunding(identities, savedIndex, utxo)
  <2>1. page = "create" /\ step = 5 /\ savedIndex \in 1..Len(identities)
    BY <1>8 DEF EnterFunding
  <2>2. Len(funded) = Len(identities) /\ funded[savedIndex].funding = utxo
    BY <1>0, <2>1, WithFundingType, WithFundingValue
  <2>3. identities' = funded /\ savedIndex' = savedIndex
    BY <1>8 DEF EnterFunding, Persist
  <2>4. draft'.funding = utxo
    BY <1>8 DEF EnterFunding, WizardInv, DraftType, Draft
  <2>5. utxo # None
    BY DEF SpawnAssumption
  <2> HIDE DEF funded
  <2> QED
    BY <2>1, <2>2, <2>3, <2>4, <2>5
<1>9. CASE Mine \/ CancelMine \/ \E w \in Workers : WorkerRuns(w)
  BY <1>1, <1>9 DEF Mine, CancelMine, WorkerRuns, wizardVars, StoreIdle, storeVars
<1>10. CASE PollTick
  <2>1. page = "create" /\ step = 6 /\ UNCHANGED <<page, savedIndex, identities>>
    BY <1>10 DEF PollTick, PageKept, StoreIdle, storeVars
  <2>2. draft'.funding = draft.funding
    BY <1>10 DEF PollTick, WizardInv, DraftType, Draft
  <2> QED
    BY <2>1, <2>2
<1>11. CASE TurnBroadcastPage \/ Export
  <2>1. UNCHANGED <<page, step, savedIndex, identities, draft>>
    BY <1>11 DEF TurnBroadcastPage, Export, PageKept, StoreIdle, storeVars
  <2> QED
    BY <1>1, <2>1
<1>12. CASE Record
  <2> DEFINE recorded == WithAttestation(identities, savedIndex, outcome)
  <2>1. page = "create" /\ step = 7 /\ savedIndex \in 1..Len(identities)
    BY <1>12 DEF Record
  <2>2. /\ Len(recorded) = Len(identities)
        /\ recorded[savedIndex].funding = identities[savedIndex].funding
    BY <1>0, <2>1, WithAttestationType, WithAttestationValue DEF MinerTypeOK
  <2>3. identities' = recorded /\ UNCHANGED <<page, savedIndex, draft>>
    BY <1>12 DEF Record, Persist, PageKept
  <2> HIDE DEF recorded
  <2> QED
    BY <2>1, <2>2, <2>3
<1>13. CASE GoLive \/ Restart
  BY <1>2, <1>13 DEF GoLive, Navigate, Restart
<1>14. CASE UNCHANGED vars
  BY <1>1, <1>14 DEF vars, wizardVars, storeVars
<1> QED
  BY <1>4, <1>5, <1>6, <1>7, <1>8, <1>9, <1>10, <1>11, <1>12, <1>13, <1>14
     DEF Next, Ticket, Spawn

LEMMA WizardFundingListed == Spec => []FundingListed
<1>1. Init => Filed
  BY DEF Init, WizardInit, Filed, FundingListed
<1>2. MinerTypeOK /\ WizardInv /\ Filed /\ [Next]_vars => Filed'
  BY FiledStep
<1>3. Filed => FundingListed
  BY DEF Filed
<1> QED
  BY <1>1, <1>2, <1>3, WizardInvariant, PTL DEF Spec

-----------------------------------------------------------------------------
(* The quiz, for any user and any storage.                                     *)

LEMMA QuizStep ==
    ASSUME WizardInv, QuizAgrees, [Next]_vars
    PROVE  QuizAgrees'
<1> USE DEF QuizAgrees, At
<1>0. Len(<<>>) = 0
  BY EmptySeq
<1>1. ASSUME UNCHANGED <<page, step, quizPos, draft>>
      PROVE  QuizAgrees'
  BY <1>1
<1>2. ASSUME page' = "main" \/ step' # 3
      PROVE  QuizAgrees'
  BY <1>2
<1>3. ASSUME quizPos' = 0, draft' = [draft EXCEPT !.quiz = <<>>]
      PROVE  QuizAgrees'
  <2>1. draft'.quiz = <<>>
    BY <1>3 DEF WizardInv, DraftType, Draft
  <2> QED
    BY <1>0, <1>3, <2>1
<1>4. CASE MainPage
  <2>1. CASE Create \/ \E i \in DOMAIN identities : Resume(i)
    BY <1>2, <2>1 DEF Create, ResetWizard, Resume
  <2>2. CASE Delete \/ \E i \in DOMAIN identities \cup {0} : ArmDelete(i)
    BY <1>1, <2>2 DEF Delete, ArmDelete
  <2> QED
    BY <1>4, <2>1, <2>2 DEF MainPage
<1>5. CASE AddRoll \/ Generate \/ CancelWizard \/ BackToDice
  <2>1. page' = "main" \/ step' # 3
    BY <1>5 DEF AddRoll, Generate, CancelWizard, Navigate, BackToDice
  <2> QED
    BY <1>2, <2>1
<1>6. CASE EnterQuiz \/ BackToWords \/ \E right \in BOOLEAN : FailQuiz(right) \/ PassQuiz(right)
  BY <1>3, <1>6 DEF EnterQuiz, BackToWords, FailQuiz, PassQuiz
<1>7. ASSUME NEW right \in BOOLEAN, TapWord(right)
      PROVE  QuizAgrees'
  <2>1. Len(draft.quiz) = quizPos /\ quizPos' = quizPos + 1
    BY <1>7 DEF TapWord
  <2>2. draft'.quiz = Tapped(right)
    BY <1>7 DEF TapWord, WizardInv, DraftType, Draft
  <2>3. Len(Tapped(right)) = Len(draft.quiz) + 1
    BY DraftTap DEF WizardInv
  <2> QED
    BY <2>1, <2>2, <2>3
<1>8. CASE Spawn
  <2>1. CASE Mine \/ CancelMine \/ \E w \in Workers : WorkerRuns(w)
    BY <1>1, <2>1 DEF Mine, CancelMine, WorkerRuns, wizardVars
  <2>2. CASE \/ Turn(4, 5) \/ Turn(5, 4) \/ Turn(6, 5) \/ \E utxo \in Utxos : EnterFunding(utxo)
    BY <1>2, <2>2 DEF Turn, EnterFunding
  <2>3. CASE PollTick \/ TurnBroadcastPage \/ Record \/ Export \/ GoLive
    <3>1. page' = "main" \/ step' \in {6, 7, 8}
      BY <2>3 DEF PollTick, TurnBroadcastPage, Record, Export, GoLive, Navigate, At
    <3> QED
      BY <1>2, <3>1
  <2> QED
    BY <1>8, <2>1, <2>2, <2>3 DEF Spawn
<1>9. CASE Restart
  BY <1>2, <1>9 DEF Restart
<1>10. CASE UNCHANGED vars
  BY <1>1, <1>10 DEF vars, wizardVars
<1> QED
  BY <1>4, <1>5, <1>6, <1>7, <1>8, <1>9, <1>10 DEF Next, Ticket

\* The page asks for the word the next tap is compared with: twelve right taps are
\* always enough to pass.
THEOREM WizardQuizAgrees == Spec => []QuizAgrees
<1>1. Init => QuizAgrees
  BY DEF Init, WizardInit, QuizAgrees, At
<1>2. WizardInv /\ QuizAgrees /\ [Next]_vars => QuizAgrees'
  BY QuizStep
<1> QED
  BY <1>1, <1>2, WizardInvariant, PTL DEF Spec
=============================================================================
