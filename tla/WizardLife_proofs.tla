------------------------- MODULE WizardLife_proofs --------------------------
(***************************************************************************)
(* The identity list, for a user who re-opens only the newest identity's   *)
(* quiz: no ticket is listed twice, the page writes to the identity it     *)
(* shows, and nothing attested is taken back by the page.  Then, with      *)
(* reliable storage and a user who is patient: the whole application --    *)
(* pages, draft, file, threads and restarts -- implements Lifecycle.       *)
(***************************************************************************)
EXTENDS Wizard_proofs

USE SpawnAssumption, WizardAssumption DEF SpawnAssumption, WizardAssumption

-----------------------------------------------------------------------------
(* Lists.                                                                      *)

\* No ticket is listed twice, and none that was not minted.
Unique(list) == \A i, j \in 1..Len(list) : list[i].seed = list[j].seed => i = j

Upto(list, n) == \A i \in 1..Len(list) : list[i].seed <= n

\* The two lists hold the same tickets in the same places.
SameSeeds(new, list) ==
    Len(new) = Len(list) /\ \A i \in 1..Len(list) : new[i].seed = list[i].seed

\* If the ticket is listed, it is last, and not attested.
Tip(list, seed) ==
    \A i \in 1..Len(list) :
      list[i].seed = seed => i = Len(list) /\ InProgress(list[i].stage)

LEMMA SameSeedsKeeps ==
    ASSUME NEW list, NEW new, SameSeeds(new, list)
    PROVE  /\ Unique(list) => Unique(new)
           /\ \A n : Upto(list, n) => Upto(new, n)
  BY DEF SameSeeds, Unique, Upto

\* A stage, a UTXO or an attestation changes no ticket.
LEMMA ChangesKeepSeeds ==
    ASSUME NEW list \in Seq(Identity), NEW i \in 1..Len(list)
    PROVE  /\ \A stage \in Stages : SameSeeds(WithStage(list, i, stage), list)
           /\ \A utxo \in Utxos : SameSeeds(WithFunding(list, i, utxo), list)
           /\ \A result \in Job \cup {None} : SameSeeds(WithAttestation(list, i, result), list)
<1>1. ASSUME NEW stage \in Stages
      PROVE  SameSeeds(WithStage(list, i, stage), list)
  <2> DEFINE new == WithStage(list, i, stage)
  <2>1. Len(new) = Len(list)
    BY WithStageType
  <2>2. new[i].seed = list[i].seed /\ \A j \in 1..Len(list) : j # i => new[j] = list[j]
    BY WithStageValue
  <2> HIDE DEF new
  <2>3. SameSeeds(new, list)
    BY <2>1, <2>2 DEF SameSeeds
  <2> QED
    BY <2>3 DEF new
<1>2. ASSUME NEW utxo \in Utxos
      PROVE  SameSeeds(WithFunding(list, i, utxo), list)
  <2> DEFINE new == WithFunding(list, i, utxo)
  <2>1. Len(new) = Len(list)
    BY WithFundingType
  <2>2. new[i].seed = list[i].seed /\ \A j \in 1..Len(list) : j # i => new[j] = list[j]
    BY WithFundingValue
  <2> HIDE DEF new
  <2>3. SameSeeds(new, list)
    BY <2>1, <2>2 DEF SameSeeds
  <2> QED
    BY <2>3 DEF new
<1>3. ASSUME NEW result \in Job \cup {None}
      PROVE  SameSeeds(WithAttestation(list, i, result), list)
  <2> DEFINE new == WithAttestation(list, i, result)
  <2>1. Len(new) = Len(list)
    BY WithAttestationType
  <2>2. new[i].seed = list[i].seed /\ \A j \in 1..Len(list) : j # i => new[j] = list[j]
    BY WithAttestationValue
  <2> HIDE DEF new
  <2>3. SameSeeds(new, list)
    BY <2>1, <2>2 DEF SameSeeds
  <2> QED
    BY <2>3 DEF new
<1> QED
  BY <1>1, <1>2, <1>3

\* Deleting one identity keeps the others apart.
LEMMA RemoveAtKeeps ==
    ASSUME NEW list \in Seq(Identity), NEW i \in DOMAIN list
    PROVE  /\ Unique(list) => Unique(RemoveAt(list, i))
           /\ \A n : Upto(list, n) => Upto(RemoveAt(list, i), n)
<1> DEFINE new == RemoveAt(list, i)
<1>1. i \in 1..Len(list) /\ Len(list) \in Nat
  BY LenProperties
<1>2. /\ Len(new) = Len(list) - 1
      /\ \A j \in 1..(Len(list) - 1) : new[j] = IF j < i THEN list[j] ELSE list[j + 1]
  BY RemoveAtType
<1> HIDE DEF new
<1> DEFINE old(j) == IF j < i THEN j ELSE j + 1
<1>3. \A j \in 1..Len(new) : old(j) \in 1..Len(list) /\ new[j] = list[old(j)]
  BY <1>1, <1>2
<1>4. \A j, k \in 1..Len(new) : old(j) = old(k) => j = k
  BY <1>1, <1>2
<1> HIDE DEF old
<1>5. Unique(list) => Unique(new)
  BY <1>3, <1>4 DEF Unique
<1>6. \A n : Upto(list, n) => Upto(new, n)
  BY <1>3 DEF Upto
<1> QED
  BY <1>5, <1>6 DEF new

\* What the backup proof lists: the ticket is last, in its place if it was listed,
\* newly backed up if not.
Fresh(seed) == [seed |-> seed, stage |-> BACKED_UP, funding |-> None, attested |-> None]

LEMMA FreshType ==
    ASSUME NEW seed \in Seeds
    PROVE  /\ Fresh(seed) \in Identity
           /\ Fresh(seed).seed = seed /\ Fresh(seed).stage = BACKED_UP
           /\ Fresh(seed).attested = None
  BY StageType DEF Fresh, Identity

LEMMA BackedUpValue ==
    ASSUME NEW list \in Seq(Identity), NEW seed \in Seeds, Tip(list, seed)
    PROVE  LET new == WithBackedUp(list, seed) IN
           \/ new = list /\ Len(list) \in 1..Len(list) /\ list[Len(list)].seed = seed
           \/ /\ new = Append(list, Fresh(seed))
              /\ Len(new) = Len(list) + 1 /\ new[Len(new)] = Fresh(seed)
              /\ \A i \in 1..Len(list) : new[i] = list[i] /\ list[i].seed # seed
<1>0. Len(list) \in Nat /\ DOMAIN list = 1..Len(list)
  BY LenProperties
<1>1. CASE IndexOf(list, seed) # {}
  <2>1. PICK i \in 1..Len(list) : list[i].seed = seed
    BY <1>0, <1>1 DEF IndexOf
  <2>2. i = Len(list)
    BY <2>1 DEF Tip
  <2>3. WithBackedUp(list, seed) = list
    BY <1>1 DEF WithBackedUp
  <2> QED
    BY <1>0, <2>1, <2>2, <2>3
<1>2. CASE IndexOf(list, seed) = {}
  <2> DEFINE new == Append(list, Fresh(seed))
  <2>2. WithBackedUp(list, seed) = new
    BY <1>2 DEF WithBackedUp, Fresh
  <2>3. \A i \in 1..Len(list) : list[i].seed # seed
    BY <1>0, <1>2 DEF IndexOf
  <2>4. /\ Len(new) = Len(list) + 1
        /\ new[Len(list) + 1] = Fresh(seed)
        /\ \A i \in 1..Len(list) : new[i] = list[i]
    BY FreshType, AppendProperties
  <2> QED
    BY <2>2, <2>3, <2>4
<1> QED
  BY <1>1, <1>2

LEMMA BackedUpKeeps ==
    ASSUME NEW list \in Seq(Identity), NEW seed \in Seeds, Tip(list, seed),
           Unique(list), Upto(list, minted), seed <= minted
    PROVE  LET new == WithBackedUp(list, seed) IN
           /\ Unique(new) /\ Upto(new, minted)
           /\ new[Len(new)].seed = seed
           /\ InProgress(new[Len(new)].stage)
<1> DEFINE new == WithBackedUp(list, seed)
<1>0. Len(list) \in Nat
  BY LenProperties
<1>1. CASE new = list /\ Len(list) \in 1..Len(list) /\ list[Len(list)].seed = seed
  BY <1>1 DEF Tip
<1>2. CASE /\ Len(new) = Len(list) + 1 /\ new[Len(new)] = Fresh(seed)
           /\ \A i \in 1..Len(list) : new[i] = list[i] /\ list[i].seed # seed
  <2> HIDE DEF new
  <2>1. Fresh(seed).seed = seed /\ InProgress(Fresh(seed).stage)
    BY FreshType DEF InProgress, BACKED_UP, ATTESTED
  <2>2. \A i \in 1..Len(new) : i = Len(new) \/ i \in 1..Len(list)
    BY <1>0, <1>2
  <2>3. Unique(new)
    BY <1>2, <2>1, <2>2 DEF Unique
  <2>4. Upto(new, minted)
    BY <1>2, <2>1, <2>2 DEF Upto
  <2>5. new[Len(new)].seed = seed /\ InProgress(new[Len(new)].stage)
    BY <1>2, <2>1
  <2> QED
    BY <2>3, <2>4, <2>5 DEF new
<1> QED
  BY <1>1, <1>2, BackedUpValue

-----------------------------------------------------------------------------
(* The lists in memory and in the file.                                        *)

ListsInv ==
    /\ Unique(identities) /\ Upto(identities, minted)
    /\ disk # None => Unique(disk) /\ Upto(disk, minted)

\* Every step leaves the lists alone, saves changed ones or loads the file.
LEMMA UptoGrows ==
    ASSUME NEW list \in Seq(Identity), NEW m \in Nat, NEW n \in Nat, m <= n, Upto(list, m)
    PROVE  Upto(list, n)
<1> SUFFICES ASSUME NEW i \in 1..Len(list)
             PROVE  list[i].seed <= n
  BY DEF Upto
<1>1. list[i] \in Identity
  BY ElementOfSeq
<1>2. list[i].seed \in Nat
  BY <1>1 DEF Identity, Seeds
<1>3. list[i].seed <= m
  BY DEF Upto
<1> QED
  BY <1>2, <1>3

LEMMA ListsKept ==
    ASSUME ListsInv, UNCHANGED <<identities, disk>>, minted' \in Nat, minted \in Nat,
           minted <= minted', StoreType
    PROVE  ListsInv'
<1>1. Upto(identities, minted')
  BY UptoGrows DEF ListsInv, StoreType
<1>2. disk # None => Unique(disk) /\ Upto(disk, minted')
  BY UptoGrows DEF ListsInv, StoreType
<1> QED
  BY <1>1, <1>2 DEF ListsInv

LEMMA PersistKeeps ==
    ASSUME ListsInv, NEW list, Persist(list), UNCHANGED minted, Unique(list), Upto(list, minted)
    PROVE  ListsInv'
<1>1. /\ identities' = list
      /\ disk' \in {list, disk, None}
  BY DEF Persist, Saved
<1>2. Unique(identities') /\ Upto(identities', minted)
  BY <1>1
<1>3. disk' # None => Unique(disk') /\ Upto(disk', minted)
  BY <1>1 DEF ListsInv
<1> QED
  BY <1>2, <1>3 DEF ListsInv, Unique, Upto

LEMMA PersistTwiceKeeps ==
    ASSUME ListsInv, NEW first, NEW second, PersistTwice(first, second), UNCHANGED minted,
           Unique(first), Upto(first, minted), Unique(second), Upto(second, minted)
    PROVE  ListsInv'
<1>1. /\ identities' = second
      /\ disk' \in {first, second, disk, None}
  BY DEF PersistTwice, Saved
<1>2. Unique(identities') /\ Upto(identities', minted)
  BY <1>1
<1>3. disk' # None => Unique(disk') /\ Upto(disk', minted)
  BY <1>1 DEF ListsInv
<1> QED
  BY <1>2, <1>3 DEF ListsInv, Unique, Upto

-----------------------------------------------------------------------------
(* Which identity the page writes to.                                          *)

\* The dice pool and the draft hold minted tickets, the pool only the draft's.
SeedInv ==
    /\ pool.seed # None => pool.seed <= minted
    /\ draft.seed # None => draft.seed <= minted
    /\ page = "main" => pool.seed = None
    /\ page = "create" /\ step >= 2 => pool.seed \in {None, draft.seed}

\* Up to the quiz the ticket is last in the list or not in it; from there on the
\* page's index is the ticket's.
PlaceInv ==
    /\ At(1) => Tip(identities, pool.seed)
    /\ At(2) \/ At(3) => Tip(identities, draft.seed)
    /\ page = "create" /\ step >= 4 =>
         /\ savedIndex \in 1..Len(identities)
         /\ identities[savedIndex].seed = draft.seed
         /\ InProgress(identities[savedIndex].stage) <=> step # 8

ListInv == ListsInv /\ SeedInv /\ PlaceInv

\* The steps that change a list: the rest leave both alone.
LEMMA OtherSteps ==
    ASSUME [Next]_vars, ~Delete, ~(\E right \in BOOLEAN : PassQuiz(right)),
           ~(\E utxo \in Utxos : EnterFunding(utxo)), ~Record, ~GoLive, ~Restart
    PROVE  UNCHANGED <<identities, disk>>
<1>1. CASE MainPage
  BY <1>1 DEF MainPage, Create, Resume, ArmDelete, StoreIdle, storeVars
<1>2. CASE Ticket
  BY <1>2 DEF Ticket, AddRoll, Generate, CancelWizard, EnterQuiz, BackToDice, TapWord,
              FailQuiz, BackToWords, StoreIdle, storeVars
<1>3. CASE Spawn
  BY <1>3 DEF Spawn, Turn, Mine, CancelMine, PollTick, WorkerRuns, TurnBroadcastPage,
              Export, StoreIdle, storeVars
<1>4. CASE UNCHANGED vars
  BY <1>4 DEF vars, storeVars
<1> QED
  BY <1>1, <1>2, <1>3, <1>4 DEF Next

LEMMA MintedStep ==
    ASSUME WizardInv, [Next]_vars
    PROVE  minted \in Nat /\ minted' \in Nat /\ minted <= minted'
<1>1. minted \in Nat
  BY DEF WizardInv, DraftType
<1>2. CASE Generate
  BY <1>1, <1>2 DEF Generate
<1>3. CASE ~Generate
  <2>1. UNCHANGED minted
    <3>1. CASE MainPage
      BY <3>1 DEF MainPage, Create, Resume, ArmDelete, Delete
    <3>2. CASE Ticket
      BY <1>3, <3>2 DEF Ticket, AddRoll, CancelWizard, EnterQuiz, BackToDice, TapWord,
                  FailQuiz, PassQuiz, BackToWords, PageKept
    <3>3. CASE Spawn
      BY <3>3 DEF Spawn, Turn, EnterFunding, Mine, CancelMine, PollTick, WorkerRuns,
                  TurnBroadcastPage, Record, Export, GoLive, PageKept, wizardVars
    <3>4. CASE Restart
      BY <3>4 DEF Restart
    <3>5. CASE UNCHANGED vars
      BY <3>5 DEF vars, wizardVars
    <3> QED
      BY <3>1, <3>2, <3>3, <3>4, <3>5 DEF Next
  <2> QED
    BY <1>1, <2>1
<1> QED
  BY <1>2, <1>3

\* Passing the quiz: what is listed, and then staged.
LEMMA PassQuizLists ==
    ASSUME WizardInv, ListInv, At(3)
    PROVE  LET listed == WithBackedUp(identities, draft.seed)
               staged == WithStage(listed, Len(listed), BACKED_UP) IN
           /\ draft.seed \in Seeds
           /\ listed \in Seq(Identity) /\ Len(listed) \in 1..Len(listed)
           /\ Unique(listed) /\ Upto(listed, minted)
           /\ Unique(staged) /\ Upto(staged, minted)
           /\ Len(staged) = Len(listed)
           /\ staged[Len(staged)].seed = draft.seed
           /\ InProgress(staged[Len(staged)].stage)
<1> DEFINE listed == WithBackedUp(identities, draft.seed)
<1> DEFINE staged == WithStage(listed, Len(listed), BACKED_UP)
<1>1. draft.seed \in Seeds /\ draft.seed # None
  BY DraftUpdates DEF WizardInv, PageInv, At
<1>2. /\ identities \in Seq(Identity) /\ Unique(identities) /\ Upto(identities, minted)
      /\ Tip(identities, draft.seed) /\ draft.seed <= minted
  BY <1>1 DEF WizardInv, StoreType, ListInv, ListsInv, SeedInv, PlaceInv
<1>3. listed \in Seq(Identity) /\ Len(listed) >= 1
  BY <1>1, <1>2, BackedUpType
<1>4. Unique(listed) /\ Upto(listed, minted) /\ listed[Len(listed)].seed = draft.seed
  BY <1>1, <1>2, BackedUpKeeps
<1> HIDE DEF listed
<1>5. Len(listed) \in 1..Len(listed)
  BY <1>3, LenProperties
<1>6. SameSeeds(staged, listed)
  BY <1>3, <1>5, StageType, ChangesKeepSeeds
<1>7. staged[Len(listed)].stage = BACKED_UP /\ staged[Len(listed)].seed = draft.seed
  <2>1. BACKED_UP \in Stages
    BY StageType
  <2>2. staged[Len(listed)].stage = BACKED_UP /\ staged[Len(listed)].seed = listed[Len(listed)].seed
    BY <1>3, <1>5, <2>1, WithStageValue
  <2> QED
    BY <1>4, <2>2
<1> HIDE DEF staged
<1>8. Unique(staged) /\ Upto(staged, minted) /\ Len(staged) = Len(listed)
  BY <1>4, <1>6, SameSeedsKeeps DEF SameSeeds
<1>9. InProgress(BACKED_UP)
  BY DEF InProgress, BACKED_UP, ATTESTED
<1> QED
  BY <1>1, <1>3, <1>4, <1>5, <1>7, <1>8, <1>9 DEF listed, staged

LEMMA ListsStep ==
    ASSUME MinerTypeOK, WizardInv, ListInv, [Next]_vars
    PROVE  ListsInv'
<1>1. ListsInv /\ identities \in Seq(Identity) /\ StoreType
  BY DEF ListInv, WizardInv, StoreType
<1>2. Unique(identities) /\ Upto(identities, minted)
  BY <1>1 DEF ListsInv
<1>3. CASE Delete
  <2>1. confirmDelete \in DOMAIN identities
    BY <1>3 DEF Delete
  <2>2. /\ Unique(RemoveAt(identities, confirmDelete))
        /\ Upto(RemoveAt(identities, confirmDelete), minted)
    BY <1>1, <1>2, <2>1, RemoveAtKeeps
  <2> QED
    BY <1>1, <1>3, <2>2, PersistKeeps DEF Delete
<1>4. ASSUME NEW right \in BOOLEAN, PassQuiz(right)
      PROVE  ListsInv'
  BY <1>1, <1>4, PassQuizLists, PersistTwiceKeeps DEF PassQuiz, PageKept
<1>5. ASSUME NEW new, SameSeeds(new, identities), Persist(new), UNCHANGED minted
      PROVE  ListsInv'
  BY <1>1, <1>2, <1>5, SameSeedsKeeps, PersistKeeps
<1>6. ASSUME NEW utxo \in Utxos, EnterFunding(utxo)
      PROVE  ListsInv'
  <2>1. savedIndex \in 1..Len(identities)
    BY <1>6 DEF EnterFunding, ListInv, PlaceInv, At
  <2>2. SameSeeds(WithFunding(identities, savedIndex, utxo), identities)
    BY <1>1, <2>1, ChangesKeepSeeds
  <2> QED
    BY <1>5, <1>6, <2>2 DEF EnterFunding, PageKept
<1>7. CASE Record
  <2>1. savedIndex \in 1..Len(identities) /\ outcome \in Job \cup {None}
    BY <1>7 DEF Record, ListInv, PlaceInv, At, MinerTypeOK
  <2>2. SameSeeds(WithAttestation(identities, savedIndex, outcome), identities)
    BY <1>1, <2>1, ChangesKeepSeeds
  <2> QED
    BY <1>5, <1>7, <2>2 DEF Record, PageKept
<1>8. CASE GoLive
  <2>1. savedIndex \in 1..Len(identities)
    BY <1>8 DEF GoLive, ListInv, PlaceInv, At
  <2>2. SameSeeds(WithStage(identities, savedIndex, LIVE), identities)
    BY <1>1, <2>1, StageType, ChangesKeepSeeds
  <2> QED
    BY <1>5, <1>8, <2>2 DEF GoLive
<1>9. CASE Restart
  <2>1. /\ identities' \in {<<>>, disk} /\ (identities' = disk => disk # None \/ identities' = <<>>)
        /\ disk' = disk /\ minted' = minted
    BY <1>9 DEF Restart, Loaded
  <2>2. Unique(<<>>) /\ Upto(<<>>, minted)
    BY EmptySeq DEF Unique, Upto
  <2>3. Unique(identities') /\ Upto(identities', minted)
    BY <1>1, <2>1, <2>2 DEF ListsInv
  <2> QED
    BY <1>1, <2>1, <2>3 DEF ListsInv
<1>10. ASSUME UNCHANGED <<identities, disk>>
       PROVE  ListsInv'
  BY <1>1, <1>10, MintedStep, ListsKept
<1> QED
  BY <1>3, <1>4, <1>6, <1>7, <1>8, <1>9, <1>10, OtherSteps

\* The steps that change the ticket of the draft or of the pool: the rest do not.
LEMMA OtherSeeds ==
    ASSUME WizardInv, [Next]_vars, ~Create, ~(\E i \in DOMAIN identities : Resume(i)),
           ~AddRoll, ~Generate, ~CancelWizard, ~GoLive, ~Restart
    PROVE  /\ UNCHANGED <<page, pool, minted>>
           /\ draft'.seed = draft.seed
           /\ page' = "create" /\ step' >= 2 => step >= 2
<1>1. CASE MainPage
  BY <1>1 DEF MainPage, ArmDelete, Delete
<1>2. CASE EnterQuiz \/ BackToWords \/ \E right \in BOOLEAN : FailQuiz(right) \/ PassQuiz(right)
  <2>1. /\ draft' = [draft EXCEPT !.quiz = <<>>] /\ step >= 2
        /\ UNCHANGED <<page, pool, minted>>
    BY <1>2 DEF EnterQuiz, BackToWords, FailQuiz, PassQuiz, PageKept, At
  <2> QED
    BY <2>1 DEF WizardInv, DraftType, Draft
<1>3. CASE BackToDice \/ \E right \in BOOLEAN : TapWord(right)
  <2>1. /\ draft' = draft \/ \E right \in BOOLEAN : draft' = [draft EXCEPT !.quiz = Tapped(right)]
        /\ step >= 2
        /\ UNCHANGED <<page, pool, minted>>
    BY <1>3 DEF BackToDice, TapWord, PageKept, At
  <2> QED
    BY <2>1 DEF WizardInv, DraftType, Draft
<1>4. CASE Spawn
  <2>1. CASE Turn(4, 5) \/ Turn(5, 4) \/ Turn(6, 5) \/ TurnBroadcastPage \/ Record \/ Export
    BY <1>4, <2>1 DEF Turn, TurnBroadcastPage, Record, Export, PageKept, At
  <2>2. CASE Mine \/ CancelMine \/ \E w \in Workers : WorkerRuns(w)
    BY <2>2 DEF Mine, CancelMine, WorkerRuns, wizardVars
  <2>3. ASSUME NEW utxo \in Utxos, EnterFunding(utxo)
        PROVE  /\ UNCHANGED <<page, pool, minted>> /\ step >= 2
               /\ draft'.seed = draft.seed
    BY <2>3 DEF EnterFunding, PageKept, At, WizardInv, DraftType, Draft
  <2>4. CASE PollTick
    BY <2>4 DEF PollTick, PageKept, At, WizardInv, DraftType, Draft
  <2> QED
    BY <1>4, <2>1, <2>2, <2>3, <2>4 DEF Spawn
<1>5. CASE UNCHANGED vars
  BY <1>5 DEF vars, wizardVars
<1> QED
  BY <1>1, <1>2, <1>3, <1>4, <1>5 DEF Next, MainPage, Ticket

LEMMA SeedStep ==
    ASSUME WizardInv, ListInv, [Next]_vars
    PROVE  SeedInv'
<1>1. minted \in Nat /\ minted' \in Nat /\ minted <= minted'
  BY MintedStep
<1>2. SeedInv /\ identities \in Seq(Identity) /\ Upto(identities, minted)
  BY DEF ListInv, ListsInv, WizardInv, StoreType
<1>3. ASSUME pool' = EmptyPool, draft' = NoDraft
      PROVE  SeedInv'
  BY <1>3 DEF SeedInv, EmptyPool, NoDraft
<1>4. CASE Create \/ CancelWizard \/ GoLive \/ Restart
  BY <1>3, <1>4 DEF Create, CancelWizard, GoLive, ResetWizard, ResetEntropy, Restart
<1>5. ASSUME NEW i \in DOMAIN identities, Resume(i)
      PROVE  SeedInv'
  <2>1. draft'.seed = identities[i].seed
    BY <1>5 DEF Resume, DraftOf, NoDraft
  <2>2. identities[i].seed <= minted
    BY <1>2, LenProperties DEF Upto
  <2>3. UNCHANGED minted /\ pool'.seed = None /\ page' = "create"
    BY <1>2, <1>5 DEF Resume, SeedInv, Navigate
  <2> QED
    BY <2>1, <2>2, <2>3 DEF SeedInv
<1>6. CASE AddRoll
  <2>1. pool'.seed = None /\ UNCHANGED <<page, step, draft, minted>> /\ step = 1 /\ page = "create"
    BY <1>6 DEF AddRoll, PageKept, At
  <2> QED
    BY <1>2, <2>1 DEF SeedInv
<1>7. CASE Generate
  <2>1. page' = "create"
    BY <1>7 DEF Generate, At
  <2>2. CASE pool.seed # None /\ draft' = DraftOf(pool.seed, None) /\ UNCHANGED <<pool, minted>>
    <3>1. draft'.seed = pool.seed
      BY <2>2 DEF DraftOf, NoDraft
    <3> QED
      BY <1>2, <2>1, <2>2, <3>1 DEF SeedInv
  <2>3. CASE /\ minted' = minted + 1
             /\ pool' = [pool EXCEPT !.seed = minted']
             /\ draft' = DraftOf(minted', None)
    <3>1. draft'.seed = minted' /\ pool'.seed = minted'
      BY <2>3 DEF DraftOf, NoDraft, WizardInv, DraftType
    <3> QED
      BY <1>1, <2>1, <3>1 DEF SeedInv
  <2> QED
    BY <1>7, <2>2, <2>3 DEF Generate
<1>8. CASE /\ UNCHANGED <<page, pool, minted>>
           /\ draft'.seed = draft.seed
           /\ page' = "create" /\ step' >= 2 => step >= 2
  BY <1>2, <1>8 DEF SeedInv
<1> QED
  BY <1>4, <1>5, <1>6, <1>7, <1>8, OtherSeeds

LEMMA PlaceStep ==
    ASSUME MinerTypeOK, WizardInv, ListInv, ~Requiz, [Next]_vars
    PROVE  PlaceInv'
<1> USE DEF PlaceInv, At
<1>0. /\ identities \in Seq(Identity) /\ Len(identities) \in Nat
      /\ \A i \in 1..Len(identities) : identities[i] \in Identity /\ identities[i].seed \in Seeds
  <2>1. identities \in Seq(Identity)
    BY DEF WizardInv, StoreType
  <2>2. \A i \in 1..Len(identities) : identities[i] \in Identity
    BY <2>1, ElementOfSeq
  <2> QED
    BY <2>1, <2>2, LenProperties DEF Identity
<1>1. Unique(identities) /\ Upto(identities, minted) /\ SeedInv /\ PlaceInv
  BY DEF ListInv, ListsInv
<1>2. Tip(identities, None)
  BY <1>0 DEF Tip
<1>3. ASSUME page' = "main"
      PROVE  PlaceInv'
  BY <1>3
<1>4. ASSUME identities' = identities, step' = 1, pool'.seed = None
      PROVE  PlaceInv'
  BY <1>2, <1>4
<1>5. ASSUME identities' = identities, step' \in {2, 3}, Tip(identities, draft'.seed)
      PROVE  PlaceInv'
  BY <1>5
<1>6. ASSUME step' \in 4..8, savedIndex' \in 1..Len(identities'),
             identities'[savedIndex'].seed = draft'.seed,
             InProgress(identities'[savedIndex'].stage) <=> step' # 8
      PROVE  PlaceInv'
  BY <1>6
<1>7. ASSUME page = "create", step \in 4..8, UNCHANGED <<savedIndex, identities>>,
             draft'.seed = draft.seed, step' \in 4..8, step' = 8 <=> step = 8
      PROVE  PlaceInv'
  BY <1>1, <1>7
<1>8. ASSUME UNCHANGED <<page, step, savedIndex, identities, pool, draft>>
      PROVE  PlaceInv'
  BY <1>1, <1>8
<1>9. CASE MainPage
  <2>1. CASE Create
    BY <1>4, <2>1 DEF Create, ResetWizard, ResetEntropy, EmptyPool, StoreIdle, storeVars
  <2>2. ASSUME NEW i \in DOMAIN identities, Resume(i)
        PROVE  PlaceInv'
    <3>1. i \in 1..Len(identities)
      BY <1>0, LenProperties
    <3>2. /\ draft'.seed = identities[i].seed /\ step' \in {4, 6}
          /\ savedIndex' = i /\ identities' = identities /\ InProgress(identities[i].stage)
      BY <2>2 DEF Resume, DraftOf, NoDraft, StoreIdle, storeVars
    <3> QED
      BY <1>6, <3>1, <3>2
  <2>3. CASE Delete \/ \E i \in DOMAIN identities \cup {0} : ArmDelete(i)
    BY <1>3, <2>3 DEF Delete, ArmDelete
  <2> QED
    BY <1>9, <2>1, <2>2, <2>3 DEF MainPage
<1>10. CASE AddRoll
  BY <1>4, <1>10 DEF AddRoll, StoreIdle, storeVars
<1>11. CASE Generate
  <2>1. Tip(identities, pool.seed) /\ identities' = identities /\ step' = 2
    BY <1>1, <1>11 DEF Generate, StoreIdle, storeVars
  <2>2. CASE draft' = DraftOf(pool.seed, None)
    <3>1. draft'.seed = pool.seed
      BY <2>2 DEF DraftOf, NoDraft
    <3> QED
      BY <1>5, <2>1, <3>1
  <2>3. CASE minted' = minted + 1 /\ draft' = DraftOf(minted', None)
    <3>1. draft'.seed = minted + 1 /\ minted \in Nat
      BY <2>3 DEF DraftOf, NoDraft, WizardInv, DraftType
    <3>2. \A i \in 1..Len(identities) : identities[i].seed <= minted
      BY <1>1 DEF Upto
    <3>3. \A i \in 1..Len(identities) : identities[i].seed # minted + 1
      BY <1>0, <3>1, <3>2 DEF Seeds
    <3> QED
      BY <1>5, <2>1, <3>1, <3>3 DEF Tip
  <2> QED
    BY <1>11, <2>2, <2>3 DEF Generate
<1>12. CASE CancelWizard \/ GoLive \/ Restart
  BY <1>3, <1>12 DEF CancelWizard, GoLive, Navigate, Restart
<1>13. CASE EnterQuiz
  <2>1. identities' = identities /\ step' = 3 /\ draft'.seed = draft.seed
    BY <1>13 DEF EnterQuiz, StoreIdle, storeVars, WizardInv, DraftType, Draft
  <2>2. CASE At(2)
    BY <1>1, <1>5, <2>1, <2>2
  <2>3. CASE At(4) /\ savedIndex = Len(identities)
    <3>1. identities[Len(identities)].seed = draft.seed /\ Len(identities) \in 1..Len(identities)
          /\ InProgress(identities[Len(identities)].stage)
      BY <1>1, <2>3
    <3>2. Tip(identities, draft.seed)
      BY <1>1, <3>1 DEF Tip, Unique
    <3> QED
      BY <1>5, <2>1, <3>2
  <2> QED
    BY <1>13, <2>2, <2>3 DEF EnterQuiz
<1>14. CASE BackToDice
  <2>1. /\ step = 2 /\ step' = 1 /\ page = "create"
        /\ UNCHANGED <<page, pool, draft, identities>>
    BY <1>14 DEF BackToDice, PageKept, StoreIdle, storeVars
  <2>2. pool.seed \in {None, draft.seed} /\ Tip(identities, draft.seed)
    BY <1>1, <2>1 DEF SeedInv
  <2> QED
    BY <1>2, <2>1, <2>2
<1>15. CASE BackToWords \/ \E right \in BOOLEAN : TapWord(right) \/ FailQuiz(right)
  <2>1. /\ step = 3 /\ page = "create" /\ step' \in {2, 3} /\ identities' = identities
        /\ \/ draft' = [draft EXCEPT !.quiz = <<>>]
           \/ \E right \in BOOLEAN : draft' = [draft EXCEPT !.quiz = Tapped(right)]
    BY <1>15 DEF BackToWords, TapWord, FailQuiz, StoreIdle, storeVars
  <2>2. draft'.seed = draft.seed
    BY <2>1 DEF WizardInv, DraftType, Draft
  <2> QED
    BY <1>1, <1>5, <2>1, <2>2
<1>16. ASSUME NEW right \in BOOLEAN, PassQuiz(right)
       PROVE  PlaceInv'
  <2> DEFINE listed == WithBackedUp(identities, draft.seed)
  <2> DEFINE staged == WithStage(listed, Len(listed), BACKED_UP)
  <2>1. /\ Len(staged) = Len(listed) /\ Len(listed) \in 1..Len(listed)
        /\ staged[Len(staged)].seed = draft.seed /\ InProgress(staged[Len(staged)].stage)
    BY <1>16, PassQuizLists DEF PassQuiz
  <2>2. /\ savedIndex' = Len(listed) /\ identities' = staged /\ step' = 4
        /\ draft' = [draft EXCEPT !.quiz = <<>>]
    BY <1>16 DEF PassQuiz, PersistTwice
  <2>3. draft'.seed = draft.seed
    BY <2>2 DEF WizardInv, DraftType, Draft
  <2> HIDE DEF listed, staged
  <2> QED
    BY <1>6, <2>1, <2>2, <2>3
<1>17. CASE Turn(4, 5) \/ Turn(5, 4) \/ Turn(6, 5)
  <2>1. /\ page = "create" /\ step \in 4..7 /\ step' \in 4..7
        /\ UNCHANGED <<savedIndex, identities, draft>>
    BY <1>17 DEF Turn, StoreIdle, storeVars
  <2> QED
    BY <1>7, <2>1
<1>18. ASSUME NEW utxo \in Utxos, EnterFunding(utxo)
       PROVE  PlaceInv'
  <2> DEFINE funded == WithFunding(identities, savedIndex, utxo)
  <2>1. /\ savedIndex \in 1..Len(identities) /\ InProgress(identities[savedIndex].stage)
        /\ identities[savedIndex].seed = draft.seed
    BY <1>1, <1>18 DEF EnterFunding
  <2>2. /\ Len(funded) = Len(identities)
        /\ funded[savedIndex].seed = draft.seed
        /\ funded[savedIndex].stage \in {FUNDED, identities[savedIndex].stage}
    BY <1>0, <2>1, WithFundingType, WithFundingValue
  <2>3. InProgress(funded[savedIndex].stage)
    BY <2>1, <2>2 DEF InProgress, FUNDED, ATTESTED
  <2>4. /\ identities' = funded /\ savedIndex' = savedIndex /\ step' = 6
        /\ draft'.seed = draft.seed
    BY <1>18 DEF EnterFunding, Persist, WizardInv, DraftType, Draft
  <2> HIDE DEF funded
  <2> QED
    BY <1>6, <2>1, <2>2, <2>3, <2>4
<1>19. CASE Mine \/ CancelMine \/ \E w \in Workers : WorkerRuns(w)
  BY <1>8, <1>19 DEF Mine, CancelMine, WorkerRuns, wizardVars, StoreIdle, storeVars
<1>20. CASE PollTick
  <2>1. /\ page = "create" /\ step = 6 /\ step' \in {6, 7}
        /\ UNCHANGED <<savedIndex, identities>>
    BY <1>20 DEF PollTick, StoreIdle, storeVars
  <2>2. draft'.seed = draft.seed
    BY <1>20 DEF PollTick, WizardInv, DraftType, Draft
  <2> QED
    BY <1>7, <2>1, <2>2
<1>21. CASE TurnBroadcastPage \/ Export
  <2>1. UNCHANGED <<page, step, savedIndex, identities, pool, draft>>
    BY <1>21 DEF TurnBroadcastPage, Export, PageKept, StoreIdle, storeVars
  <2> QED
    BY <1>8, <2>1
<1>22. CASE Record
  <2> DEFINE recorded == WithAttestation(identities, savedIndex, outcome)
  <2>1. /\ savedIndex \in 1..Len(identities)
        /\ identities[savedIndex].seed = draft.seed
    BY <1>1, <1>22 DEF Record
  <2>2. /\ Len(recorded) = Len(identities)
        /\ recorded[savedIndex].seed = draft.seed
        /\ recorded[savedIndex].stage = ATTESTED
    BY <1>0, <2>1, WithAttestationType, WithAttestationValue DEF MinerTypeOK
  <2>3. identities' = recorded /\ UNCHANGED <<savedIndex, draft>> /\ step' = 8
    BY <1>22 DEF Record, Persist
  <2>4. ~InProgress(ATTESTED)
    BY DEF InProgress, ATTESTED
  <2> HIDE DEF recorded
  <2> QED
    BY <1>6, <2>1, <2>2, <2>3, <2>4
<1>23. CASE UNCHANGED vars
  BY <1>8, <1>23 DEF vars, wizardVars, storeVars
<1> QED
  BY <1>9, <1>10, <1>11, <1>12, <1>13, <1>14, <1>15, <1>16, <1>17, <1>18, <1>19, <1>20,
     <1>21, <1>22, <1>23 DEF Next, Ticket, Spawn

\* With a user who re-opens only the newest identity's quiz, no ticket is ever listed
\* twice, and the page's index and seeds stay those of one identity: what the
\* theorems below rest on.
THEOREM ListInvariant == ~Requiz => (Spec => []ListInv)
<1> SUFFICES ASSUME ~Requiz
             PROVE  Spec => []ListInv
  OBVIOUS
<1>1. Init => ListInv
  <2> SUFFICES ASSUME Init
               PROVE  ListInv
    OBVIOUS
  <2>1. identities = <<>> /\ disk = None /\ Len(<<>>) = 0
    BY EmptySeq DEF Init, StoreInit
  <2>2. page = "main" /\ pool.seed = None /\ draft.seed = None
    BY DEF Init, WizardInit, EmptyPool, NoDraft
  <2>3. ListsInv
    BY <2>1 DEF ListsInv, Unique, Upto
  <2> QED
    BY <2>2, <2>3 DEF ListInv, SeedInv, PlaceInv, At
<1>2. MinerTypeOK /\ WizardInv /\ ListInv /\ [Next]_vars => ListInv'
  BY ListsStep, SeedStep, PlaceStep DEF ListInv
<1> QED
  BY <1>1, <1>2, WizardInvariant, PTL DEF Spec

\* From the funding step on the page writes to the one listed identity whose address
\* it shows, whichever call of the file system fails (main.rs: record_funding,
\* record_attestation, set_stage by saved-index).
THEOREM WizardSavedIndexIsDrafts == ~Requiz => (Spec => []SavedIndexIsDrafts)
<1>1. WizardInv /\ ListInv => SavedIndexIsDrafts
  <2> SUFFICES ASSUME WizardInv, ListInv, page = "create", step >= 4
               PROVE  IndexOf(identities, draft.seed) = {savedIndex}
    BY DEF SavedIndexIsDrafts
  <2>1. savedIndex \in 1..Len(identities) /\ identities[savedIndex].seed = draft.seed
    BY DEF ListInv, PlaceInv
  <2>2. DOMAIN identities = 1..Len(identities)
    BY LenProperties DEF WizardInv, StoreType
  <2>3. Unique(identities)
    BY DEF ListInv, ListsInv
  <2> QED
    BY <2>1, <2>2, <2>3 DEF IndexOf, Unique
<1> QED
  BY <1>1, WizardInvariant, ListInvariant, PTL

-----------------------------------------------------------------------------
(* What is on record of a spawn.                                               *)

\* An identity is attested exactly if it is past the mine step, and then with the
\* spawn of its own ticket and UTXO.
Sound(it) ==
    /\ ~InProgress(it.stage) <=> it.attested # None
    /\ it.attested # None => it.attested = [seed |-> it.seed, utxo |-> it.funding]

AllSound(list) == \A i \in 1..Len(list) : Sound(list[i])

SoundInv == AllSound(identities) /\ (disk # None => AllSound(disk))

LEMMA ConsistentParts ==
    ASSUME NEW list \in Seq(Identity)
    PROVE  Consistent(list) <=> Unique(list) /\ AllSound(list)
<1>1. DOMAIN list = 1..Len(list)
  BY LenProperties
<1> QED
  BY <1>1 DEF Consistent, Unique, AllSound, Sound

LEMMA PersistSound ==
    ASSUME SoundInv, NEW list, Persist(list), AllSound(list)
    PROVE  SoundInv'
<1>1. identities' = list /\ disk' \in {list, disk, None}
  BY DEF Persist, Saved
<1> QED
  BY <1>1 DEF SoundInv

\* A list with one entry changed.
LEMMA ChangeSound ==
    ASSUME NEW list, NEW new, NEW i \in 1..Len(list), AllSound(list),
           Len(new) = Len(list), Sound(new[i]),
           \A j \in 1..Len(list) : j # i => new[j] = list[j]
    PROVE  AllSound(new)
  BY DEF AllSound

LEMMA RemoveAtSound ==
    ASSUME NEW list \in Seq(Identity), NEW i \in DOMAIN list, AllSound(list)
    PROVE  AllSound(RemoveAt(list, i))
<1> DEFINE new == RemoveAt(list, i)
<1>1. i \in 1..Len(list) /\ Len(list) \in Nat
  BY LenProperties
<1>2. /\ Len(new) = Len(list) - 1
      /\ \A j \in 1..(Len(list) - 1) : new[j] = IF j < i THEN list[j] ELSE list[j + 1]
  BY RemoveAtType
<1> HIDE DEF new
<1>3. \A j \in 1..Len(new) : \E k \in 1..Len(list) : new[j] = list[k]
  <2> SUFFICES ASSUME NEW j \in 1..Len(new)
               PROVE  \E k \in 1..Len(list) : new[j] = list[k]
    OBVIOUS
  <2>1. j \in 1..Len(list) /\ j + 1 \in 1..Len(list)
    BY <1>1, <1>2
  <2> QED
    BY <1>2, <2>1
<1>4. AllSound(new)
  BY <1>3 DEF AllSound
<1> QED
  BY <1>4 DEF new

LEMMA StageSound ==
    ASSUME NEW list \in Seq(Identity), NEW i \in 1..Len(list), NEW stage \in Stages,
           AllSound(list), InProgress(list[i].stage) <=> InProgress(stage)
    PROVE  AllSound(WithStage(list, i, stage))
<1> DEFINE new == WithStage(list, i, stage)
<1>1. /\ new[i].stage = stage /\ new[i].seed = list[i].seed
      /\ new[i].funding = list[i].funding /\ new[i].attested = list[i].attested
      /\ \A j \in 1..Len(list) : j # i => new[j] = list[j]
  BY WithStageValue
<1>2. Len(new) = Len(list)
  BY WithStageType
<1> HIDE DEF new
<1>3. Sound(list[i])
  BY DEF AllSound
<1>4. Sound(new[i])
  BY <1>1, <1>3 DEF Sound
<1>5. AllSound(new)
  BY <1>1, <1>2, <1>4, ChangeSound
<1> QED
  BY <1>5 DEF new

LEMMA FundingSound ==
    ASSUME NEW list \in Seq(Identity), NEW i \in 1..Len(list), NEW utxo \in Utxos,
           AllSound(list), InProgress(list[i].stage)
    PROVE  AllSound(WithFunding(list, i, utxo))
<1> DEFINE new == WithFunding(list, i, utxo)
<1>1. /\ new[i].stage \in {FUNDED, list[i].stage} /\ new[i].attested = list[i].attested
      /\ \A j \in 1..Len(list) : j # i => new[j] = list[j]
  BY WithFundingValue
<1>2. Len(new) = Len(list)
  BY WithFundingType
<1> HIDE DEF new
<1>3. list[i].attested = None
  BY DEF AllSound, Sound
<1>4. InProgress(new[i].stage)
  BY <1>1 DEF InProgress, FUNDED, ATTESTED
<1>5. Sound(new[i])
  BY <1>1, <1>3, <1>4 DEF Sound
<1>6. AllSound(new)
  BY <1>1, <1>2, <1>5, ChangeSound
<1> QED
  BY <1>6 DEF new

LEMMA AttestationSound ==
    ASSUME NEW list \in Seq(Identity), NEW i \in 1..Len(list), NEW result \in Job,
           AllSound(list), result = [seed |-> list[i].seed, utxo |-> list[i].funding]
    PROVE  AllSound(WithAttestation(list, i, result))
<1> DEFINE new == WithAttestation(list, i, result)
<1>1. /\ new[i].stage = ATTESTED /\ new[i].seed = list[i].seed
      /\ new[i].funding = list[i].funding /\ new[i].attested = result
      /\ \A j \in 1..Len(list) : j # i => new[j] = list[j]
  BY WithAttestationValue
<1>2. Len(new) = Len(list)
  BY WithAttestationType
<1> HIDE DEF new
<1>3. result # None /\ ~InProgress(ATTESTED)
  BY DEF InProgress, ATTESTED
<1>4. Sound(new[i])
  BY <1>1, <1>3 DEF Sound
<1>5. AllSound(new)
  BY <1>1, <1>2, <1>4, ChangeSound
<1> QED
  BY <1>5 DEF new

LEMMA BackedUpSound ==
    ASSUME NEW list \in Seq(Identity), NEW seed \in Seeds, Tip(list, seed), AllSound(list)
    PROVE  AllSound(WithBackedUp(list, seed))
<1> DEFINE new == WithBackedUp(list, seed)
<1>0. Len(list) \in Nat
  BY LenProperties
<1>1. CASE new = list
  BY <1>1
<1>2. CASE /\ Len(new) = Len(list) + 1 /\ new[Len(new)] = Fresh(seed)
           /\ \A i \in 1..Len(list) : new[i] = list[i] /\ list[i].seed # seed
  <2> HIDE DEF new
  <2>1. Sound(Fresh(seed))
    BY FreshType DEF Sound, InProgress, BACKED_UP, ATTESTED
  <2>2. \A i \in 1..Len(new) : i = Len(new) \/ i \in 1..Len(list)
    BY <1>0, <1>2
  <2>3. AllSound(new)
    BY <1>2, <2>1, <2>2 DEF AllSound
  <2> QED
    BY <2>3 DEF new
<1> QED
  BY <1>1, <1>2, BackedUpValue

LEMMA SoundStep ==
    ASSUME MinerTypeOK, WizardInv, ListInv, FundingListed, OutcomeIsDrafts, SoundInv,
           [Next]_vars
    PROVE  SoundInv'
<1>1. identities \in Seq(Identity) /\ AllSound(identities)
  BY DEF WizardInv, StoreType, SoundInv
<1>2. CASE Delete
  <2>1. AllSound(RemoveAt(identities, confirmDelete))
    BY <1>1, <1>2, RemoveAtSound DEF Delete
  <2> QED
    BY <1>2, <2>1, PersistSound DEF Delete
<1>3. ASSUME NEW right \in BOOLEAN, PassQuiz(right)
      PROVE  SoundInv'
  <2> DEFINE listed == WithBackedUp(identities, draft.seed)
  <2> DEFINE staged == WithStage(listed, Len(listed), BACKED_UP)
  <2>1. draft.seed \in Seeds /\ Tip(identities, draft.seed) /\ At(3)
    BY <1>3, PassQuizLists DEF PassQuiz, ListInv, PlaceInv
  <2>2. AllSound(listed)
    BY <1>1, <2>1, BackedUpSound
  <2>3. listed \in Seq(Identity) /\ Len(listed) \in 1..Len(listed)
    BY <2>1, PassQuizLists
  <2>4. draft.seed <= minted /\ Unique(identities) /\ Upto(identities, minted)
    BY <2>1 DEF ListInv, ListsInv, SeedInv
  <2>5. InProgress(listed[Len(listed)].stage)
    BY <1>1, <2>1, <2>4, BackedUpKeeps
  <2>6. PersistTwice(listed, staged)
    BY <1>3 DEF PassQuiz
  <2> HIDE DEF listed
  <2>7. AllSound(staged)
    BY <2>2, <2>3, <2>5, StageType, StageSound DEF InProgress, BACKED_UP, ATTESTED
  <2> HIDE DEF staged
  <2>8. identities' = staged /\ disk' \in {listed, staged, disk, None}
    BY <2>6 DEF PersistTwice, Saved
  <2> QED
    BY <2>2, <2>7, <2>8 DEF SoundInv
<1>4. ASSUME page = "create", step >= 4
      PROVE  /\ savedIndex \in 1..Len(identities)
             /\ identities[savedIndex].seed = draft.seed
             /\ InProgress(identities[savedIndex].stage) <=> step # 8
  BY <1>4 DEF ListInv, PlaceInv
<1>5. ASSUME NEW utxo \in Utxos, EnterFunding(utxo)
      PROVE  SoundInv'
  <2>1. savedIndex \in 1..Len(identities) /\ InProgress(identities[savedIndex].stage)
    BY <1>4, <1>5 DEF EnterFunding, At
  <2>2. AllSound(WithFunding(identities, savedIndex, utxo))
    BY <1>1, <2>1, FundingSound
  <2> QED
    BY <1>5, <2>2, PersistSound DEF EnterFunding
<1>6. CASE Record
  <2>1. page = "create" /\ step = 7
    BY <1>6 DEF Record, At
  <2>2. savedIndex \in 1..Len(identities) /\ identities[savedIndex].seed = draft.seed
    BY <1>4, <2>1
  <2>3. /\ outcome = [seed |-> draft.seed, utxo |-> draft.funding]
        /\ identities[savedIndex].funding = draft.funding /\ draft.funding # None
    BY <2>1 DEF OutcomeIsDrafts, FundingListed
  <2>4. outcome \in Job
    <3>1. draft.seed # None
      BY <2>1 DEF WizardInv, PageInv
    <3> QED
      BY <2>3, <3>1, DraftJob DEF WizardInv
  <2>5. AllSound(WithAttestation(identities, savedIndex, outcome))
    BY <1>1, <2>2, <2>3, <2>4, AttestationSound
  <2> QED
    BY <1>6, <2>5, PersistSound DEF Record
<1>7. CASE GoLive
  <2>1. savedIndex \in 1..Len(identities) /\ ~InProgress(identities[savedIndex].stage)
    BY <1>4, <1>7 DEF GoLive, At
  <2>2. ~InProgress(LIVE)
    BY DEF InProgress, LIVE, ATTESTED
  <2>3. AllSound(WithStage(identities, savedIndex, LIVE))
    BY <1>1, <2>1, <2>2, StageType, StageSound
  <2> QED
    BY <1>7, <2>3, PersistSound DEF GoLive
<1>8. CASE Restart
  <2>1. identities' \in {<<>>, disk} /\ disk' = disk /\ (disk = None => identities' = <<>>)
    BY <1>8 DEF Restart, Loaded
  <2>2. AllSound(<<>>)
    BY EmptySeq DEF AllSound
  <2> QED
    BY <2>1, <2>2 DEF SoundInv
<1>9. CASE UNCHANGED <<identities, disk>>
  BY <1>9 DEF SoundInv
<1> QED
  BY <1>2, <1>3, <1>5, <1>6, <1>7, <1>8, <1>9, OtherSteps

\* ... and every spawn on record, in memory and in the file, is its identity's own.
THEOREM SoundInvariant == ~Requiz /\ ~Impatient => (Spec => []SoundInv)
<1> SUFFICES ASSUME ~Requiz, ~Impatient
             PROVE  Spec => []SoundInv
  OBVIOUS
<1>1. Init => SoundInv
  BY EmptySeq DEF Init, StoreInit, SoundInv, AllSound
<1>2. /\ MinerTypeOK /\ WizardInv /\ ListInv /\ FundingListed /\ OutcomeIsDrafts /\ SoundInv
      /\ [Next]_vars
      => SoundInv'
  BY SoundStep
<1> QED
  BY <1>1, <1>2, WizardInvariant, ListInvariant, WizardFundingListed,
     PatientOutcomeIsDrafts, PTL DEF Spec

\* No ticket is listed twice, and nothing is recorded of an identity but the spawn of
\* its own ticket and UTXO, whichever call of the file system fails.
THEOREM WizardListConsistent == ~Requiz /\ ~Impatient => (Spec => []ListConsistent)
<1>1. WizardInv /\ ListInv /\ SoundInv => ListConsistent
  BY ConsistentParts DEF WizardInv, StoreType, ListInv, ListsInv, SoundInv, ListConsistent
<1> QED
  BY <1>1, WizardInvariant, ListInvariant, SoundInvariant, PTL

\* The same of the file: what a restart loads is as consistent as what was lost.
THEOREM WizardFileConsistent == ~Requiz /\ ~Impatient => (Spec => []FileConsistent)
<1>1. WizardInv /\ ListInv /\ SoundInv => FileConsistent
  BY ConsistentParts DEF WizardInv, StoreType, ListInv, ListsInv, SoundInv, FileConsistent
<1> QED
  BY <1>1, WizardInvariant, ListInvariant, SoundInvariant, PTL

USE NothingAssumption DEF NothingAssumption

-----------------------------------------------------------------------------
(* The file.                                                                   *)

\* The file holds what memory holds.
FileAgrees == disk = identities \/ (disk = None /\ identities = <<>>)

LEMMA FileStep ==
    ASSUME Faults = {}, WizardInv, FileAgrees, [Next]_vars
    PROVE  FileAgrees'
<1>1. ASSUME NEW list, Persist(list)
      PROVE  FileAgrees'
  BY <1>1 DEF Persist, Saved, FileAgrees
<1>2. ASSUME NEW first, NEW second, PersistTwice(first, second)
      PROVE  FileAgrees'
  BY <1>2 DEF PersistTwice, Saved, FileAgrees
<1>3. CASE Delete \/ Record \/ GoLive \/ \E utxo \in Utxos : EnterFunding(utxo)
  BY <1>1, <1>3 DEF Delete, Record, GoLive, EnterFunding
<1>4. CASE \E right \in BOOLEAN : PassQuiz(right)
  BY <1>2, <1>4 DEF PassQuiz
<1>5. CASE Restart
  BY <1>5 DEF Restart, Loaded, FileAgrees
<1>6. CASE UNCHANGED <<identities, disk>>
  BY <1>6 DEF FileAgrees
<1> QED
  BY <1>3, <1>4, <1>5, <1>6, OtherSteps

LEMMA FileInvariant == Faults = {} => (Spec => []FileAgrees)
<1> SUFFICES ASSUME Faults = {}
             PROVE  Spec => []FileAgrees
  OBVIOUS
<1>1. Init => FileAgrees
  BY DEF Init, StoreInit, FileAgrees
<1>2. WizardInv /\ FileAgrees /\ [Next]_vars => FileAgrees'
  BY FileStep
<1> QED
  BY <1>1, <1>2, WizardInvariant, PTL DEF Spec

\* With reliable storage a ticket that may be paid to is in the file at any moment the
\* app may end (main.rs: confirm_backup persists before the page goes on).
THEOREM WizardPastQuizIsOnDisk == ~Requiz /\ Faults = {} => (Spec => []PastQuizIsOnDisk)
<1>1. SavedIndexIsDrafts /\ WizardInv /\ FileAgrees => PastQuizIsOnDisk
  <2> SUFFICES ASSUME SavedIndexIsDrafts, WizardInv, FileAgrees, page = "create", step >= 4
               PROVE  disk # None /\ IndexOf(disk, draft.seed) # {}
    BY DEF PastQuizIsOnDisk
  <2>1. IndexOf(identities, draft.seed) = {savedIndex}
    BY DEF SavedIndexIsDrafts
  <2>2. IndexOf(<<>>, draft.seed) = {}
    BY DEF IndexOf
  <2>3. disk = identities /\ identities # <<>>
    BY <2>1, <2>2 DEF FileAgrees
  <2> QED
    BY <2>1, <2>3 DEF WizardInv, StoreType
<1> QED
  BY <1>1, WizardInvariant, WizardSavedIndexIsDrafts, FileInvariant, PTL

-----------------------------------------------------------------------------
(* What a step does to the list.                                               *)

\* From the mine step on the stage is known exactly.
StageInv ==
    /\ page = "create" /\ step \in {6, 7} => identities[savedIndex].stage = FUNDED
    /\ page = "create" /\ step = 8 => identities[savedIndex].stage = ATTESTED

LEMMA InProgressStages ==
    \A stage \in Stages : InProgress(stage) <=> stage \in {BACKED_UP, FUNDED}
  BY DEF Stages, InProgress, BACKED_UP, FUNDED, ATTESTED, LIVE

LEMMA StageStep ==
    ASSUME MinerTypeOK, WizardInv, ListInv, StageInv, [Next]_vars
    PROVE  StageInv'
<1> USE DEF StageInv, At
<1>0. /\ identities \in Seq(Identity)
      /\ \A i \in 1..Len(identities) : identities[i].stage \in Stages
  <2>1. identities \in Seq(Identity)
    BY DEF WizardInv, StoreType
  <2>2. \A i \in 1..Len(identities) : identities[i] \in Identity
    BY <2>1, ElementOfSeq
  <2> QED
    BY <2>1, <2>2 DEF Identity
<1>1. page = "create" /\ step >= 4 =>
        /\ savedIndex \in 1..Len(identities)
        /\ InProgress(identities[savedIndex].stage) <=> step # 8
  BY DEF ListInv, PlaceInv
<1>2. ASSUME page' = "main" \/ step' \in 1..5
      PROVE  StageInv'
  BY <1>2
<1>3. ASSUME UNCHANGED <<page, step, savedIndex, identities>>
      PROVE  StageInv'
  BY <1>3
<1>4. CASE MainPage
  <2>1. CASE Create \/ Delete \/ \E i \in DOMAIN identities \cup {0} : ArmDelete(i)
    BY <1>2, <2>1 DEF Create, ResetWizard, Delete, ArmDelete
  <2>2. ASSUME NEW i \in DOMAIN identities, Resume(i)
        PROVE  StageInv'
    <3>1. i \in 1..Len(identities) /\ identities[i].stage \in Stages
      BY <1>0, LenProperties
    <3>2. /\ InProgress(identities[i].stage)
          /\ savedIndex' = i /\ identities' = identities
          /\ (step' = 6 /\ identities[i].stage >= FUNDED) \/ step' = 4
      BY <2>2 DEF Resume, StoreIdle, storeVars
    <3>3. step' = 6 => identities[i].stage = FUNDED
      BY <3>1, <3>2, InProgressStages DEF BACKED_UP, FUNDED
    <3> QED
      BY <3>2, <3>3
  <2> QED
    BY <1>4, <2>1, <2>2 DEF MainPage
<1>5. CASE Ticket
  <2>1. page' = "main" \/ step' \in 1..5
    BY <1>5 DEF Ticket, AddRoll, Generate, CancelWizard, Navigate, EnterQuiz, BackToDice,
                TapWord, FailQuiz, PassQuiz, BackToWords
  <2> QED
    BY <1>2, <2>1
<1>6. CASE Turn(4, 5) \/ Turn(5, 4) \/ Turn(6, 5) \/ GoLive \/ Restart
  BY <1>2, <1>6 DEF Turn, GoLive, Navigate, Restart
<1>7. ASSUME NEW utxo \in Utxos, EnterFunding(utxo)
      PROVE  StageInv'
  <2> DEFINE funded == WithFunding(identities, savedIndex, utxo)
  <2>1. savedIndex \in 1..Len(identities) /\ InProgress(identities[savedIndex].stage)
    BY <1>1, <1>7 DEF EnterFunding
  <2>2. funded[savedIndex].stage = IF identities[savedIndex].stage < FUNDED
                                   THEN FUNDED ELSE identities[savedIndex].stage
    BY <1>0, <2>1, WithFundingValue
  <2>3. identities[savedIndex].stage \in {BACKED_UP, FUNDED}
    BY <1>0, <2>1, InProgressStages
  <2>4. funded[savedIndex].stage = FUNDED
    BY <2>2, <2>3 DEF BACKED_UP, FUNDED
  <2>5. identities' = funded /\ savedIndex' = savedIndex /\ step' = 6
    BY <1>7 DEF EnterFunding, Persist
  <2> HIDE DEF funded
  <2> QED
    BY <2>4, <2>5
<1>8. CASE Mine \/ CancelMine \/ \E w \in Workers : WorkerRuns(w)
  BY <1>3, <1>8 DEF Mine, CancelMine, WorkerRuns, wizardVars, StoreIdle, storeVars
<1>9. CASE PollTick
  <2>1. /\ page = "create" /\ step = 6 /\ step' \in {6, 7}
        /\ UNCHANGED <<savedIndex, identities>>
    BY <1>9 DEF PollTick, StoreIdle, storeVars
  <2> QED
    BY <2>1
<1>10. CASE TurnBroadcastPage \/ Export
  <2>1. UNCHANGED <<page, step, savedIndex, identities>>
    BY <1>10 DEF TurnBroadcastPage, Export, PageKept, StoreIdle, storeVars
  <2> QED
    BY <1>3, <2>1
<1>11. CASE Record
  <2>1. savedIndex \in 1..Len(identities)
    BY <1>1, <1>11 DEF Record
  <2>2. WithAttestation(identities, savedIndex, outcome)[savedIndex].stage = ATTESTED
    BY <1>0, <2>1, WithAttestationValue DEF MinerTypeOK
  <2> QED
    BY <1>11, <2>2 DEF Record, Persist
<1>12. CASE UNCHANGED vars
  BY <1>3, <1>12 DEF vars, wizardVars, storeVars
<1> QED
  BY <1>4, <1>5, <1>6, <1>7, <1>8, <1>9, <1>10, <1>11, <1>12 DEF Next, Spawn

LEMMA StageInvariant == ~Requiz => (Spec => []StageInv)
<1> SUFFICES ASSUME ~Requiz
             PROVE  Spec => []StageInv
  OBVIOUS
<1>1. Init => StageInv
  BY DEF Init, WizardInit, StageInv
<1>2. MinerTypeOK /\ WizardInv /\ ListInv /\ StageInv /\ [Next]_vars => StageInv'
  BY StageStep
<1> QED
  BY <1>1, <1>2, WizardInvariant, ListInvariant, PTL DEF Spec

\* With reliable storage the app may end at any moment of the mining and of the
\* broadcast: the file has what Resume needs to run the very same job again
\* (create/page.slint:652 and main.rs:497, load_identity).
THEOREM WizardResumesSameJob == ~Requiz /\ Faults = {} => (Spec => []ResumesSameJob)
<1>1. SavedIndexIsDrafts /\ WizardInv /\ FileAgrees /\ StageInv /\ FundingListed
        => ResumesSameJob
  <2> SUFFICES ASSUME SavedIndexIsDrafts, WizardInv, FileAgrees, StageInv, FundingListed,
                      page = "create", step \in {6, 7}
               PROVE  /\ disk # None
                      /\ draft.funding # None
                      /\ \E i \in DOMAIN disk :
                           /\ IndexOf(disk, draft.seed) = {i}
                           /\ InProgress(disk[i].stage) /\ disk[i].stage >= FUNDED
                           /\ disk[i].funding = draft.funding
    BY DEF ResumesSameJob
  <2>1. IndexOf(identities, draft.seed) = {savedIndex}
    BY DEF SavedIndexIsDrafts
  <2>2. IndexOf(<<>>, draft.seed) = {}
    BY DEF IndexOf
  <2>3. disk = identities /\ identities # <<>>
    BY <2>1, <2>2 DEF FileAgrees
  <2>4. savedIndex \in DOMAIN identities
    BY <2>1 DEF IndexOf
  <2>5. InProgress(identities[savedIndex].stage) /\ identities[savedIndex].stage >= FUNDED
    BY DEF StageInv, InProgress, FUNDED, ATTESTED
  <2>6. draft.funding # None /\ identities[savedIndex].funding = draft.funding
    BY DEF FundingListed
  <2>7. disk # None
    BY <2>3 DEF WizardInv, StoreType
  <2> QED
    BY <2>1, <2>3, <2>4, <2>5, <2>6, <2>7
<1> QED
  BY <1>1, WizardInvariant, WizardSavedIndexIsDrafts, FileInvariant, StageInvariant,
     WizardFundingListed, PTL

\* Entry i, and only it, is changed.
Changed(new, list, i) ==
    /\ i \in 1..Len(list) /\ Len(new) = Len(list)
    /\ new[i].seed = list[i].seed
    /\ \A j \in 1..Len(list) : j # i => new[j] = list[j]

Reproved(new, old) ==
    /\ old.stage \in {BACKED_UP, FUNDED} /\ new.stage = BACKED_UP
    /\ new.funding = old.funding /\ new.attested = None

Funded(new, old) ==
    /\ old.stage \in {BACKED_UP, FUNDED} /\ new.stage = FUNDED
    /\ new.funding \in Utxos /\ new.attested = old.attested

Attested(new, old) ==
    /\ old.stage = FUNDED /\ new.stage = ATTESTED
    /\ new.funding = old.funding
    /\ new.attested = [seed |-> old.seed, utxo |-> old.funding]

Booted(new, old) ==
    /\ old.stage = ATTESTED /\ new.stage = LIVE
    /\ new.funding = old.funding /\ new.attested = old.attested
    /\ airlock' = None

\* What a step does to the list.
ListChange ==
    \/ identities' = identities
    \/ \E i \in 1..Len(identities) :
         /\ Changed(identities', identities, i)
         /\ \/ Reproved(identities'[i], identities[i])
            \/ Funded(identities'[i], identities[i])
            \/ Attested(identities'[i], identities[i])
            \/ Booted(identities'[i], identities[i])
    \/ \E seed \in Seeds :
         /\ \A i \in 1..Len(identities) : identities[i].seed # seed
         /\ identities' = Append(identities, Fresh(seed))
    \/ \E i \in DOMAIN identities : identities' = RemoveAt(identities, i)

LEMMA ListChanges ==
    ASSUME Faults = {}, MinerTypeOK, WizardInv, ListInv, FundingListed, OutcomeIsDrafts,
           SoundInv, StageInv, FileAgrees, [Next]_vars
    PROVE  ListChange
<1>0. identities \in Seq(Identity)
  BY DEF WizardInv, StoreType
<1>1. \A i \in 1..Len(identities) : identities[i] \in Identity
  BY <1>0, ElementOfSeq
<1>2. page = "create" /\ step >= 4 =>
        /\ savedIndex \in 1..Len(identities)
        /\ identities[savedIndex].seed = draft.seed
        /\ InProgress(identities[savedIndex].stage) <=> step # 8
  BY DEF ListInv, PlaceInv
<1>3. CASE Delete
  BY <1>3 DEF Delete, Persist, ListChange
<1>4. ASSUME NEW right \in BOOLEAN, PassQuiz(right)
      PROVE  ListChange
  <2> DEFINE listed == WithBackedUp(identities, draft.seed)
  <2> DEFINE staged == WithStage(listed, Len(listed), BACKED_UP)
  <2>1. draft.seed \in Seeds /\ Tip(identities, draft.seed) /\ At(3)
    BY <1>4, PassQuizLists DEF PassQuiz, ListInv, PlaceInv
  <2>2. listed \in Seq(Identity) /\ Len(listed) \in 1..Len(listed)
    BY <2>1, PassQuizLists
  <2>3. \/ listed = identities /\ identities[Len(identities)].seed = draft.seed
        \/ /\ listed = Append(identities, Fresh(draft.seed))
           /\ Len(listed) = Len(identities) + 1 /\ listed[Len(listed)] = Fresh(draft.seed)
           /\ \A i \in 1..Len(identities) :
                listed[i] = identities[i] /\ identities[i].seed # draft.seed
    BY <1>0, <2>1, BackedUpValue
  <2>4. identities' = staged
    BY <1>4 DEF PassQuiz, PersistTwice
  <2> HIDE DEF listed
  <2> DEFINE n == Len(listed)
  <2>5. /\ staged[n].stage = BACKED_UP
        /\ staged[n].seed = listed[n].seed
        /\ staged[n].funding = listed[n].funding
        /\ staged[n].attested = listed[n].attested
        /\ \A j \in 1..n : j # n => staged[j] = listed[j]
    <3>1. BACKED_UP \in Stages
      BY StageType
    <3> QED
      BY <2>2, <3>1, WithStageValue
  <2>6. Len(staged) = n /\ staged \in Seq(Identity)
    BY <2>2, StageType, WithStageType
  <2>7. CASE listed = identities
    <3>1. n \in 1..Len(identities) /\ identities[n].seed = draft.seed
      BY <2>2, <2>3, <2>7
    <3>2. InProgress(identities[n].stage) /\ identities[n].stage \in Stages
      BY <1>1, <2>1, <3>1 DEF Tip, Identity
    <3>3. identities[n].stage \in {BACKED_UP, FUNDED} /\ identities[n].attested = None
      BY <3>1, <3>2, InProgressStages DEF SoundInv, AllSound, Sound
    <3> HIDE DEF staged, n
    <3>4. Changed(staged, identities, n) /\ Reproved(staged[n], identities[n])
      BY <2>5, <2>6, <2>7, <3>1, <3>3 DEF Changed, Reproved, n
    <3> QED
      BY <2>4, <3>1, <3>4 DEF ListChange
  <2>8. CASE listed = Append(identities, Fresh(draft.seed)) /\ listed[n] = Fresh(draft.seed)
    <3>1. staged = [listed EXCEPT ![n].stage = BACKED_UP] /\ listed[n].stage = BACKED_UP
      BY <2>2, <2>8, LenProperties, FreshType, <2>1 DEF WithStage
    <3>2. staged = listed
      <4>1. listed[n] \in Identity
        BY <2>1, <2>8, FreshType
      <4>2. [listed[n] EXCEPT !.stage = BACKED_UP] = listed[n]
        BY <3>1, <4>1 DEF Identity
      <4>3. staged = [listed EXCEPT ![n] = listed[n]]
        BY <3>1, <4>2
      <4>4. \A j \in 1..n : staged[j] = listed[j]
        BY <2>5, <2>2, <4>3, ExceptSeq, <4>1
      <4> QED
        BY <2>2, <2>6, <4>4, SeqEqual
    <3>3. \A i \in 1..Len(identities) : identities[i].seed # draft.seed
      BY <2>3, <2>8, <1>0, LenProperties, <2>1, FreshType, AppendProperties
    <3> QED
      BY <2>1, <2>4, <2>8, <3>2, <3>3 DEF ListChange
  <2> QED
    BY <2>3, <2>7, <2>8
<1>5. ASSUME NEW utxo \in Utxos, EnterFunding(utxo)
      PROVE  ListChange
  <2> DEFINE new == WithFunding(identities, savedIndex, utxo)
  <2>1. savedIndex \in 1..Len(identities) /\ InProgress(identities[savedIndex].stage)
    BY <1>2, <1>5 DEF EnterFunding, At
  <2>2. identities[savedIndex].stage \in {BACKED_UP, FUNDED}
    BY <1>1, <2>1, InProgressStages DEF Identity
  <2>3. /\ Len(new) = Len(identities) /\ identities' = new
        /\ new[savedIndex].stage = FUNDED
        /\ new[savedIndex].seed = identities[savedIndex].seed
        /\ new[savedIndex].funding = utxo
        /\ new[savedIndex].attested = identities[savedIndex].attested
        /\ \A j \in 1..Len(identities) : j # savedIndex => new[j] = identities[j]
    <3>1. identities' = new
      BY <1>5 DEF EnterFunding, Persist
    <3>2. Len(new) = Len(identities)
      BY <1>0, WithFundingType
    <3>3. (IF identities[savedIndex].stage < FUNDED
           THEN FUNDED ELSE identities[savedIndex].stage) = FUNDED
      BY <2>2 DEF BACKED_UP, FUNDED
    <3> QED
      BY <1>0, <2>1, <3>1, <3>2, <3>3, WithFundingValue
  <2> HIDE DEF new
  <2>4. Changed(new, identities, savedIndex) /\ Funded(new[savedIndex], identities[savedIndex])
    BY <2>1, <2>2, <2>3 DEF Changed, Funded
  <2> QED
    BY <2>1, <2>3, <2>4 DEF ListChange
<1>6. CASE Record
  <2> DEFINE new == WithAttestation(identities, savedIndex, outcome)
  <2>1. page = "create" /\ step = 7
    BY <1>6 DEF Record, At
  <2>2. /\ savedIndex \in 1..Len(identities) /\ identities[savedIndex].seed = draft.seed
        /\ identities[savedIndex].stage = FUNDED
        /\ identities[savedIndex].funding = draft.funding
        /\ outcome = [seed |-> draft.seed, utxo |-> draft.funding]
    BY <1>2, <2>1 DEF StageInv, FundingListed, OutcomeIsDrafts
  <2>3. /\ Len(new) = Len(identities) /\ identities' = new
        /\ new[savedIndex].stage = ATTESTED
        /\ new[savedIndex].seed = identities[savedIndex].seed
        /\ new[savedIndex].funding = identities[savedIndex].funding
        /\ new[savedIndex].attested = outcome
        /\ \A j \in 1..Len(identities) : j # savedIndex => new[j] = identities[j]
    <3>1. identities' = new
      BY <1>6 DEF Record, Persist
    <3>2. outcome \in Job \cup {None}
      BY DEF MinerTypeOK
    <3>3. Len(new) = Len(identities)
      BY <1>0, <3>2, WithAttestationType
    <3>4. savedIndex \in 1..Len(identities)
      BY <2>2
    <3> QED
      BY <1>0, <3>1, <3>2, <3>3, <3>4, WithAttestationValue
  <2> HIDE DEF new
  <2>4. Changed(new, identities, savedIndex) /\ Attested(new[savedIndex], identities[savedIndex])
    BY <2>2, <2>3 DEF Changed, Attested
  <2> QED
    BY <2>2, <2>3, <2>4 DEF ListChange
<1>7. CASE GoLive
  <2> DEFINE new == WithStage(identities, savedIndex, LIVE)
  <2>1. page = "create" /\ step = 8
    BY <1>7 DEF GoLive, At
  <2>2. savedIndex \in 1..Len(identities) /\ identities[savedIndex].stage = ATTESTED
    BY <1>2, <2>1 DEF StageInv
  <2>3. airlock' = None
    BY <1>7 DEF GoLive, Wipe
  <2>4. /\ Len(new) = Len(identities) /\ identities' = new
        /\ new[savedIndex].stage = LIVE
        /\ new[savedIndex].seed = identities[savedIndex].seed
        /\ new[savedIndex].funding = identities[savedIndex].funding
        /\ new[savedIndex].attested = identities[savedIndex].attested
        /\ \A j \in 1..Len(identities) : j # savedIndex => new[j] = identities[j]
    <3>1. identities' = new
      BY <1>7 DEF GoLive, Persist
    <3>2. LIVE \in Stages
      BY StageType
    <3> QED
      BY <1>0, <2>2, <3>1, <3>2, WithStageType, WithStageValue
  <2> HIDE DEF new
  <2>5. Changed(new, identities, savedIndex) /\ Booted(new[savedIndex], identities[savedIndex])
    BY <2>2, <2>3, <2>4 DEF Changed, Booted
  <2> QED
    BY <2>2, <2>4, <2>5 DEF ListChange
<1>8. CASE Restart
  BY <1>8 DEF Restart, Loaded, FileAgrees, ListChange, WizardInv, StoreType
<1>9. CASE UNCHANGED <<identities, disk>>
  BY <1>9 DEF ListChange
<1> QED
  BY <1>3, <1>4, <1>5, <1>6, <1>7, <1>8, <1>9, OtherSteps

\* Everything that holds for the patient user with reliable storage.
LifeInv ==
    /\ MinerTypeOK /\ WizardInv /\ ListInv
    /\ FundingListed /\ OutcomeIsDrafts /\ SoundInv
    /\ StageInv /\ FileAgrees

LEMMA LifeInvariant == ~Requiz /\ ~Impatient /\ Faults = {} => (Spec => []LifeInv)
  BY WizardInvariant, ListInvariant, WizardFundingListed, PatientOutcomeIsDrafts,
     SoundInvariant, StageInvariant, FileInvariant, PTL DEF LifeInv

-----------------------------------------------------------------------------
(* An attested identity stays attested.                                        *)

LEMMA AttestedStep ==
    ASSUME WizardInv, WizardInv', ListInv, ListChange,
           NEW i \in DOMAIN identities, NEW j \in DOMAIN identities',
           identities'[j].seed = identities[i].seed, ~InProgress(identities[i].stage)
    PROVE  ~InProgress(identities'[j].stage)
<1>0. /\ identities \in Seq(Identity) /\ DOMAIN identities = 1..Len(identities)
      /\ Len(identities) \in Nat /\ Unique(identities)
  BY LenProperties DEF WizardInv, StoreType, ListInv, ListsInv
<1>a. DOMAIN identities' = 1..Len(identities')
  BY LenProperties DEF WizardInv, StoreType
<1>1. CASE identities' = identities
  BY <1>0, <1>1 DEF Unique
<1>2. ASSUME NEW k \in 1..Len(identities), Changed(identities', identities, k),
             \/ Reproved(identities'[k], identities[k])
             \/ Funded(identities'[k], identities[k])
             \/ Attested(identities'[k], identities[k])
             \/ Booted(identities'[k], identities[k])
      PROVE  ~InProgress(identities'[j].stage)
  <2>1. identities'[j].seed = identities[j].seed /\ j \in 1..Len(identities)
    BY <1>a, <1>2 DEF Changed
  <2>2. i = j
    BY <1>0, <2>1 DEF Unique
  <2>3. CASE j # k
    BY <1>2, <2>1, <2>2, <2>3 DEF Changed
  <2>4. CASE j = k
    BY <1>2, <2>2, <2>4 DEF Reproved, Funded, Attested, Booted, InProgress,
                             BACKED_UP, FUNDED, ATTESTED, LIVE
  <2> QED
    BY <2>3, <2>4
<1>3. ASSUME NEW seed \in Seeds, \A k \in 1..Len(identities) : identities[k].seed # seed,
             identities' = Append(identities, Fresh(seed))
      PROVE  ~InProgress(identities'[j].stage)
  <2>1. /\ DOMAIN identities' = 1..(Len(identities) + 1)
        /\ identities'[Len(identities) + 1] = Fresh(seed)
        /\ \A k \in 1..Len(identities) : identities'[k] = identities[k]
    BY <1>0, <1>3, FreshType, AppendProperties, AppendType, LenProperties
  <2>2. j \in 1..Len(identities)
    BY <1>0, <1>3, <2>1, FreshType
  <2> QED
    BY <1>0, <2>1, <2>2 DEF Unique
<1>4. ASSUME NEW k \in DOMAIN identities, identities' = RemoveAt(identities, k)
      PROVE  ~InProgress(identities'[j].stage)
  <2>1. /\ DOMAIN identities' = 1..(Len(identities) - 1)
        /\ identities'[j] = IF j < k THEN identities[j] ELSE identities[j + 1]
    <3> DEFINE new == RemoveAt(identities, k)
    <3>1. /\ Len(new) = Len(identities) - 1
          /\ \A m \in 1..(Len(identities) - 1) :
               new[m] = IF m < k THEN identities[m] ELSE identities[m + 1]
      BY <1>0, RemoveAtType
    <3> HIDE DEF new
    <3>2. identities' = new
      BY <1>4 DEF new
    <3> QED
      BY <1>a, <3>1, <3>2
  <2>2. PICK m \in 1..Len(identities) : identities'[j] = identities[m]
    BY <1>0, <2>1
  <2> QED
    BY <1>0, <2>2 DEF Unique
<1> QED
  BY <1>1, <1>2, <1>3, <1>4 DEF ListChange

\* Once both transactions of an identity are recorded it is never again in progress:
\* its spawn is not run, and no other UTXO is attested for it, a second time
\* (main.rs: load_identity, set_stage, record_attestation).
THEOREM WizardAttestedForGood ==
    ~Requiz /\ ~Impatient /\ Faults = {} => (Spec => AttestedForGood)
<1> SUFFICES ASSUME ~Requiz, ~Impatient, Faults = {}
             PROVE  Spec => AttestedForGood
  OBVIOUS
<1>1. LifeInv /\ LifeInv' /\ [Next]_vars
        => [\A i \in DOMAIN identities, j \in DOMAIN identities' :
              /\ identities'[j].seed = identities[i].seed
              /\ ~InProgress(identities[i].stage)
              => ~InProgress(identities'[j].stage)]_vars
  BY ListChanges, AttestedStep DEF LifeInv
<1> QED
  BY <1>1, LifeInvariant, PTL DEF Spec, AttestedForGood

-----------------------------------------------------------------------------
(* Only the app ending leaves an attested identity without its boot step.      *)

\* An entry becomes attested when both transactions are recorded, at the index the
\* page writes to.
LEMMA AttestedByRecord ==
    ASSUME LifeInv, [Next]_vars, ~Restart,
           NEW k \in 1..Len(identities), Changed(identities', identities, k),
           Attested(identities'[k], identities[k])
    PROVE  Record /\ k = savedIndex
<1>0. /\ identities \in Seq(Identity) /\ Len(identities) \in Nat
      /\ DOMAIN identities = 1..Len(identities)
  BY LenProperties DEF LifeInv, WizardInv, StoreType
<1>1. /\ Len(identities') = Len(identities)
      /\ identities[k].stage = FUNDED /\ identities'[k].stage = ATTESTED
  BY DEF Changed, Attested
<1>2. identities'[k] # identities[k] /\ FUNDED # ATTESTED /\ BACKED_UP # ATTESTED
  BY <1>1 DEF BACKED_UP, FUNDED, ATTESTED
<1>3. page = "create" /\ step >= 4 => savedIndex \in 1..Len(identities)
  BY DEF LifeInv, ListInv, PlaceInv
<1>a. BACKED_UP \in Stages /\ LIVE \in Stages
  BY StageType
<1>4. CASE Delete
  <2> DEFINE new == RemoveAt(identities, confirmDelete)
  <2>1. confirmDelete \in DOMAIN identities /\ identities' = new
    BY <1>4 DEF Delete, Persist
  <2>2. Len(new) = Len(identities) - 1
    BY <1>0, <2>1, RemoveAtType
  <2> HIDE DEF new
  <2> QED
    BY <1>0, <1>1, <2>1, <2>2
<1>5. ASSUME NEW right \in BOOLEAN, PassQuiz(right)
      PROVE  FALSE
  <2> DEFINE listed == WithBackedUp(identities, draft.seed)
  <2>1. draft.seed \in Seeds /\ Tip(identities, draft.seed)
        /\ listed \in Seq(Identity) /\ Len(listed) \in 1..Len(listed)
    BY <1>5, PassQuizLists DEF LifeInv, PassQuiz, ListInv, PlaceInv
  <2>2. identities' = WithStage(listed, Len(listed), BACKED_UP)
    BY <1>5 DEF PassQuiz, PersistTwice
  <2>3. k \in 1..Len(listed) /\ listed[k] = identities[k]
    BY <1>0, <2>1, BackedUpValue
  <2> HIDE DEF listed
  <2>4. identities'[k].stage = IF k = Len(listed) THEN BACKED_UP ELSE listed[k].stage
    BY <1>a, <2>1, <2>2, <2>3, WithStageValue
  <2> QED
    BY <1>1, <1>2, <2>3, <2>4
<1>6. ASSUME NEW utxo \in Utxos, EnterFunding(utxo)
      PROVE  FALSE
  <2>1. savedIndex \in 1..Len(identities)
        /\ identities' = WithFunding(identities, savedIndex, utxo)
    BY <1>3, <1>6 DEF EnterFunding, At, Persist
  <2>2. k = savedIndex => identities'[k].stage = FUNDED
    BY <1>0, <1>1, <2>1, WithFundingValue
  <2>3. k # savedIndex => identities'[k] = identities[k]
    BY <1>0, <2>1, WithFundingValue
  <2> QED
    BY <1>1, <1>2, <2>2, <2>3
<1>7. CASE GoLive
  <2>1. savedIndex \in 1..Len(identities)
        /\ identities' = WithStage(identities, savedIndex, LIVE)
    BY <1>3, <1>7 DEF GoLive, At, Persist
  <2>2. k = savedIndex => identities'[k].stage = LIVE
    BY <1>0, <1>a, <2>1, WithStageValue
  <2>3. k # savedIndex => identities'[k] = identities[k]
    BY <1>0, <1>a, <2>1, WithStageValue
  <2> QED
    BY <1>1, <1>2, <2>2, <2>3 DEF ATTESTED, LIVE
<1>8. Record
  BY <1>2, <1>4, <1>5, <1>6, <1>7, OtherSteps
<1>9. k = savedIndex
  <2>1. savedIndex \in 1..Len(identities) /\ outcome \in Job \cup {None}
        /\ identities' = WithAttestation(identities, savedIndex, outcome)
    BY <1>3, <1>8 DEF Record, At, Persist, LifeInv, MinerTypeOK
  <2>2. k # savedIndex => identities'[k] = identities[k]
    BY <1>0, <2>1, WithAttestationValue
  <2> QED
    BY <1>2, <2>2
<1> QED
  BY <1>8, <1>9

\* No button but the last leads away from the boot step.
LEMMA BootStepStays ==
    ASSUME At(8), [Next]_vars, ~GoLive, ~Restart
    PROVE  At(8)' /\ UNCHANGED <<savedIndex, identities>>
<1>1. CASE MainPage \/ Ticket
  BY <1>1 DEF At, MainPage, Create, Resume, ArmDelete, Delete, Ticket, AddRoll, Generate,
              CancelWizard, EnterQuiz, BackToDice, TapWord, FailQuiz, PassQuiz, BackToWords
<1>2. CASE Export \/ \E w \in Workers : WorkerRuns(w)
  BY <1>2 DEF At, Export, WorkerRuns, wizardVars, PageKept, StoreIdle, storeVars
<1>3. CASE Spawn /\ ~Export /\ ~(\E w \in Workers : WorkerRuns(w))
  BY <1>3 DEF At, Spawn, Turn, EnterFunding, Mine, CancelMine, PollTick,
              TurnBroadcastPage, Record
<1>4. CASE UNCHANGED vars
  BY <1>4 DEF At, vars, wizardVars, storeVars
<1> QED
  BY <1>1, <1>2, <1>3, <1>4 DEF Next

\* The list of a comet that went live.
LEMMA LiveList ==
    ASSUME NEW list \in Seq(Identity), NEW i \in 1..Len(list)
    PROVE  /\ Len(WithStage(list, i, LIVE)) = Len(list)
           /\ WithStage(list, i, LIVE)[i].stage = LIVE
           /\ \A k \in 1..Len(list) : k # i => WithStage(list, i, LIVE)[k] = list[k]
<1>1. LIVE \in Stages
  BY StageType
<1> QED
  BY <1>1, WithStageType, WithStageValue

LEMMA OrphanStep ==
    ASSUME Faults = {}, LifeInv, LifeInv', [Next]_vars, ~Restart,
           NEW j \in DOMAIN identities', identities'[j].stage = ATTESTED,
           ~(At(8)' /\ savedIndex' = j)
    PROVE  identities'[j].seed \in Orphans
<1>0. /\ identities \in Seq(Identity) /\ DOMAIN identities = 1..Len(identities)
      /\ Len(identities) \in Nat
      /\ DOMAIN identities' = 1..Len(identities')
  BY LenProperties DEF LifeInv, WizardInv, StoreType
<1>1. ASSUME NEW i \in DOMAIN identities, identities[i].stage = ATTESTED,
             identities'[j].seed = identities[i].seed, At(8) => savedIndex # i
      PROVE  identities'[j].seed \in Orphans
  BY <1>1 DEF Orphans
<1>2. CASE At(8) /\ ~GoLive
  BY <1>1, <1>2, BootStepStays
<1>3. CASE GoLive
  <2>1. savedIndex \in 1..Len(identities)
        /\ identities' = WithStage(identities, savedIndex, LIVE)
    BY <1>3 DEF GoLive, At, Persist, LifeInv, ListInv, PlaceInv
  <2> DEFINE new == WithStage(identities, savedIndex, LIVE)
  <2>a. /\ Len(new) = Len(identities) /\ new[savedIndex].stage = LIVE
        /\ \A i \in 1..Len(identities) : i # savedIndex => new[i] = identities[i]
    BY Zenon, <1>0, <2>1, LiveList
  <2>b. Len(identities') = Len(identities)
    BY Zenon, <2>1, <2>a
  <2>c. /\ identities'[savedIndex].stage = LIVE
        /\ \A i \in 1..Len(identities) : i # savedIndex => identities'[i] = identities[i]
    BY Zenon, <2>1, <2>a
  <2>3. j # savedIndex
    BY <2>c DEF ATTESTED, LIVE
  <2> QED
    BY <1>0, <1>1, <2>b, <2>c, <2>3
<1>4. CASE ~At(8)
  <2>1. ListChange
    BY ListChanges DEF LifeInv
  <2>2. CASE identities' = identities
    BY <1>1, <1>4, <2>2
  <2>3. ASSUME NEW k \in 1..Len(identities), Changed(identities', identities, k),
               \/ Reproved(identities'[k], identities[k])
               \/ Funded(identities'[k], identities[k])
               \/ Attested(identities'[k], identities[k])
               \/ Booted(identities'[k], identities[k])
        PROVE  identities'[j].seed \in Orphans
    <3>1. j \in DOMAIN identities
      BY <1>0, <2>3 DEF Changed
    <3>2. CASE j # k
      BY <1>0, <1>1, <1>4, <2>3, <3>1, <3>2 DEF Changed
    <3>3. CASE j = k
      <4>1. Attested(identities'[k], identities[k])
        BY <2>3, <3>3 DEF Reproved, Funded, Booted, BACKED_UP, FUNDED, ATTESTED, LIVE
      <4>2. Record /\ k = savedIndex
        BY <2>3, <4>1, AttestedByRecord
      <4>3. page' = "create" /\ step' = 8 /\ savedIndex' = savedIndex
        BY <4>2 DEF Record, PageKept, At
      <4> QED
        BY <3>3, <4>2, <4>3 DEF At
    <3> QED
      BY <3>2, <3>3
  <2>4. ASSUME NEW seed \in Seeds, identities' = Append(identities, Fresh(seed))
        PROVE  identities'[j].seed \in Orphans
    <3>1. /\ DOMAIN identities' = 1..(Len(identities) + 1)
          /\ identities'[Len(identities) + 1] = Fresh(seed)
          /\ \A m \in 1..Len(identities) : identities'[m] = identities[m]
      BY <1>0, <2>4, FreshType, AppendProperties, AppendType, LenProperties
    <3>2. Fresh(seed).stage # ATTESTED
      BY FreshType DEF BACKED_UP, ATTESTED
    <3>3. j \in 1..Len(identities)
      BY <1>0, <3>1, <3>2
    <3> QED
      BY <1>0, <1>1, <1>4, <3>1, <3>3
  <2>5. ASSUME NEW k \in DOMAIN identities, identities' = RemoveAt(identities, k)
        PROVE  identities'[j].seed \in Orphans
    <3>1. PICK m \in 1..Len(identities) : identities'[j] = identities[m]
      <4> DEFINE new == RemoveAt(identities, k)
      <4>1. /\ Len(new) = Len(identities) - 1
            /\ \A m \in 1..(Len(identities) - 1) :
                 new[m] = IF m < k THEN identities[m] ELSE identities[m + 1]
        BY <1>0, RemoveAtType
      <4> HIDE DEF new
      <4>2. identities' = new
        BY <2>5 DEF new
      <4>3. j \in 1..(Len(identities) - 1)
        BY <1>0, <4>1, <4>2
      <4> QED
        BY <1>0, <4>1, <4>2, <4>3
    <3> QED
      BY <1>0, <1>1, <1>4, <3>1
  <2> QED
    BY <2>1, <2>2, <2>3, <2>4, <2>5 DEF ListChange
<1> QED
  BY <1>2, <1>3, <1>4

\* The boot feed of a spawn is kept nowhere but on the boot step's page: from there no
\* button leads away before the identity is live, so an attested identity is without
\* it only after the app has ended (page.slint: Resume's condition; create/page.slint:
\* the boot step).
THEOREM WizardOrphanedOnlyByRestart ==
    ~Requiz /\ ~Impatient /\ Faults = {} => (Spec => OrphanedOnlyByRestart)
<1> SUFFICES ASSUME ~Requiz, ~Impatient, Faults = {}
             PROVE  Spec => OrphanedOnlyByRestart
  OBVIOUS
<1>1. LifeInv /\ LifeInv' /\ [Next]_vars => [Restart \/ Orphans' \subseteq Orphans]_vars
  <2> SUFFICES ASSUME LifeInv, LifeInv', [Next]_vars, ~Restart
               PROVE  Orphans' \subseteq Orphans
    OBVIOUS
  <2> SUFFICES ASSUME NEW j \in DOMAIN identities', identities'[j].stage = ATTESTED,
                      ~(At(8)' /\ savedIndex' = j)
               PROVE  identities'[j].seed \in Orphans
    BY DEF Orphans
  <2> QED
    BY OrphanStep
<1> QED
  BY <1>1, LifeInvariant, PTL DEF Spec, OrphanedOnlyByRestart

-----------------------------------------------------------------------------
(* The boot key is not left on the Airlock.                                    *)

\* A live entry was live before, or has just become so.
LEMMA LiveStep ==
    ASSUME WizardInv, WizardInv', ListChange, airlock' # None,
           NEW j \in DOMAIN identities', identities'[j].stage = LIVE
    PROVE  \E i \in DOMAIN identities : identities'[j] = identities[i]
<1>0. /\ identities \in Seq(Identity) /\ DOMAIN identities = 1..Len(identities)
      /\ Len(identities) \in Nat
  BY LenProperties DEF WizardInv, StoreType
<1>a. DOMAIN identities' = 1..Len(identities')
  BY LenProperties DEF WizardInv, StoreType
<1>1. CASE identities' = identities
  BY <1>1
<1>2. ASSUME NEW k \in 1..Len(identities), Changed(identities', identities, k),
             \/ Reproved(identities'[k], identities[k])
             \/ Funded(identities'[k], identities[k])
             \/ Attested(identities'[k], identities[k])
             \/ Booted(identities'[k], identities[k])
      PROVE  \E i \in DOMAIN identities : identities'[j] = identities[i]
  <2>1. j # k
    BY <1>2 DEF Reproved, Funded, Attested, Booted, BACKED_UP, FUNDED, ATTESTED, LIVE
  <2> QED
    BY <1>0, <1>a, <1>2, <2>1 DEF Changed
<1>3. ASSUME NEW seed \in Seeds, identities' = Append(identities, Fresh(seed))
      PROVE  \E i \in DOMAIN identities : identities'[j] = identities[i]
  <2>1. /\ DOMAIN identities' = 1..(Len(identities) + 1)
        /\ identities'[Len(identities) + 1] = Fresh(seed)
        /\ \A k \in 1..Len(identities) : identities'[k] = identities[k]
    BY <1>0, <1>3, FreshType, AppendProperties, AppendType, LenProperties
  <2>2. Fresh(seed).stage # LIVE
    BY FreshType DEF BACKED_UP, LIVE
  <2> QED
    BY <1>0, <2>1, <2>2
<1>4. ASSUME NEW k \in DOMAIN identities, identities' = RemoveAt(identities, k)
      PROVE  \E i \in DOMAIN identities : identities'[j] = identities[i]
  <2> DEFINE new == RemoveAt(identities, k)
  <2>1. /\ Len(new) = Len(identities) - 1
        /\ \A m \in 1..(Len(identities) - 1) :
             new[m] = IF m < k THEN identities[m] ELSE identities[m + 1]
    BY <1>0, RemoveAtType
  <2> HIDE DEF new
  <2>2. identities' = new
    BY <1>4 DEF new
  <2>3. identities'[j] = IF j < k THEN identities[j] ELSE identities[j + 1]
    BY <1>a, <2>1, <2>2
  <2>4. j \in 1..Len(identities) /\ j + 1 \in 1..Len(identities)
    BY <1>0, <1>a, <2>1, <2>2
  <2> QED
    BY <1>0, <2>3, <2>4
<1> QED
  BY <1>1, <1>2, <1>3, <1>4 DEF ListChange

\* The steps that touch the Airlock.
LEMMA OtherAirlock ==
    ASSUME [Next]_vars, ~Export, ~GoLive
    PROVE  UNCHANGED airlock
<1>1. CASE MainPage
  BY <1>1 DEF MainPage, Create, Resume, ArmDelete, Delete, StoreIdle, storeVars
<1>2. CASE Ticket
  BY <1>2 DEF Ticket, AddRoll, Generate, CancelWizard, EnterQuiz, BackToDice, TapWord,
              FailQuiz, PassQuiz, BackToWords, StoreIdle, storeVars
<1>3. CASE Spawn
  BY <1>3 DEF Spawn, Turn, EnterFunding, Mine, CancelMine, PollTick, WorkerRuns,
              TurnBroadcastPage, Record, StoreIdle, storeVars
<1>4. CASE Restart \/ UNCHANGED vars
  BY <1>4 DEF Restart, vars, storeVars
<1> QED
  BY <1>1, <1>2, <1>3, <1>4 DEF Next

LEMMA ExportedStep ==
    ASSUME TypeOK, OutcomeIsDrafts, ExportedKeyIsThere, [Next]_vars
    PROVE  ExportedKeyIsThere'
<1> USE DEF ExportedKeyIsThere, At
<1>1. ASSUME keyExported' = FALSE
      PROVE  ExportedKeyIsThere'
  BY <1>1
<1>2. ASSUME UNCHANGED <<page, step, keyExported, outcome, airlock>>
      PROVE  ExportedKeyIsThere'
  BY <1>2
<1>3. ~(page = "create" /\ step = 8) => keyExported = FALSE
  BY DEF TypeOK
<1>4. CASE MainPage
  <2>1. keyExported' \in {FALSE, keyExported} /\ page = "main"
    BY <1>4 DEF MainPage, Create, ResetWizard, ResetFlow, Resume, ArmDelete, Delete
  <2> QED
    BY <1>1, <1>3, <2>1
<1>5. CASE Ticket
  <2>1. CASE AddRoll \/ Generate \/ EnterQuiz \/ BackToDice \/ BackToWords
             \/ \E right \in BOOLEAN : TapWord(right) \/ FailQuiz(right) \/ PassQuiz(right)
    <3>1. keyExported' = keyExported /\ step # 8
      BY <2>1 DEF AddRoll, Generate, EnterQuiz, BackToDice, BackToWords, TapWord, FailQuiz,
                  PassQuiz
    <3> QED
      BY <1>1, <1>3, <3>1
  <2>2. CASE CancelWizard
    BY <1>1, <2>2 DEF CancelWizard, ResetWizard, ResetFlow
  <2> QED
    BY <1>5, <2>1, <2>2 DEF Ticket
<1>6. CASE \/ Turn(4, 5) \/ Turn(5, 4) \/ Turn(6, 5)
           \/ \E utxo \in Utxos : EnterFunding(utxo)
           \/ PollTick \/ TurnBroadcastPage \/ Record
  <2>1. keyExported' = keyExported /\ step # 8
    BY <1>6 DEF Turn, EnterFunding, PollTick, TurnBroadcastPage, Record
  <2> QED
    BY <1>1, <1>3, <2>1
<1>7. CASE Mine \/ CancelMine
  <2>1. UNCHANGED wizardVars /\ step = 6
    BY <1>7 DEF Mine, CancelMine
  <2> QED
    BY <1>1, <1>3, <2>1 DEF wizardVars
<1>8. ASSUME NEW w \in Workers, WorkerRuns(w)
      PROVE  ExportedKeyIsThere'
  <2>1. UNCHANGED wizardVars /\ UNCHANGED storeVars /\ outcome' = outcome
    BY <1>8 DEF WorkerRuns, WorkerStep, CheckCancel, Publish, StoreIdle
  <2> QED
    BY <1>2, <2>1 DEF wizardVars, storeVars
<1>9. CASE Export
  <2>1. /\ page = "create" /\ step = 8 /\ page' = page /\ step' = step
        /\ outcome' = outcome
        /\ keyExported = FALSE
    BY <1>9, <1>3 DEF Export, PageKept, MinerIdle, minerVars
  <2>2. CASE ExportSucceeds(draft.spawn)
    BY <2>1, <2>2 DEF ExportSucceeds, OutcomeIsDrafts
  <2>3. CASE keyExported' = keyExported
    BY <1>1, <2>1, <2>3
  <2> QED
    BY <1>9, <2>2, <2>3 DEF Export
<1>10. CASE GoLive \/ Restart
  BY <1>1, <1>10 DEF GoLive, ResetWizard, ResetFlow, Restart
<1>11. CASE UNCHANGED vars
  BY <1>2, <1>11 DEF vars, wizardVars, minerVars, storeVars
<1> QED
  BY <1>4, <1>5, <1>6, <1>7, <1>8, <1>9, <1>10, <1>11 DEF Next, Spawn

\* With a patient user, and whichever call of the file system fails, the boot step
\* says the key is exported, and lets the identity go live, only while the boot feed
\* of the spawn it shows lies on the Airlock (store.rs:103, export_boot_key).
THEOREM WizardExportedKeyIsThere == ~Impatient => (Spec => []ExportedKeyIsThere)
<1> SUFFICES ASSUME ~Impatient
             PROVE  Spec => []ExportedKeyIsThere
  OBVIOUS
<1>1. Init => ExportedKeyIsThere
  BY DEF Init, WizardInit, ExportedKeyIsThere
<1>2. TypeOK /\ OutcomeIsDrafts /\ ExportedKeyIsThere /\ [Next]_vars
        => ExportedKeyIsThere'
  BY ExportedStep
<1> QED
  BY <1>1, <1>2, WizardTypeCorrect, PatientOutcomeIsDrafts, PTL DEF Spec

LEMMA KeyStep ==
    ASSUME Faults = {}, LifeInv, LifeInv', NoKeyAfterLive, [Next]_vars
    PROVE  NoKeyAfterLive'
<1>1. CASE Export
  <2>1. page = "create" /\ step = 8 /\ identities' = identities
    BY <1>1 DEF Export, At
  <2>2. airlock' = [seed |-> draft.seed, utxo |-> draft.funding]
    BY <1>1, <2>1 DEF Export, ExportSucceeds, ExportFails, LifeInv, OutcomeIsDrafts
  <2>3. /\ savedIndex \in 1..Len(identities) /\ identities[savedIndex].stage = ATTESTED
        /\ identities[savedIndex].seed = draft.seed
        /\ Unique(identities) /\ AllSound(identities)
    BY <2>1 DEF LifeInv, ListInv, ListsInv, PlaceInv, StageInv, SoundInv
  <2>4. DOMAIN identities = 1..Len(identities)
    BY LenProperties DEF LifeInv, WizardInv, StoreType
  <2>5. ASSUME NEW i \in DOMAIN identities, identities[i].stage = LIVE
        PROVE  airlock' # identities[i].attested
    <3>1. i # savedIndex
      BY <2>3, <2>5 DEF ATTESTED, LIVE
    <3>2. identities[i].seed # draft.seed
      BY <2>3, <2>4, <3>1 DEF Unique
    <3>3. Sound(identities[i])
      BY <2>3, <2>4 DEF AllSound
    <3>4. identities[i].attested # None
      BY <2>5, <3>3 DEF Sound, InProgress, ATTESTED, LIVE
    <3>5. identities[i].attested = [seed |-> identities[i].seed, utxo |-> identities[i].funding]
      BY <3>3, <3>4 DEF Sound
    <3> QED
      BY <2>2, <3>2, <3>5
  <2> QED
    BY <2>1, <2>5 DEF NoKeyAfterLive
<1>2. CASE airlock' = None
  BY <1>2 DEF NoKeyAfterLive
<1>3. CASE airlock' = airlock /\ airlock' # None
  <2> SUFFICES ASSUME NEW j \in DOMAIN identities', identities'[j].stage = LIVE
               PROVE  airlock' # identities'[j].attested
    BY DEF NoKeyAfterLive
  <2>1. ListChange
    BY ListChanges DEF LifeInv
  <2>2. PICK i \in DOMAIN identities : identities'[j] = identities[i]
    BY <1>3, <2>1, LiveStep DEF LifeInv
  <2> QED
    BY <1>3, <2>2 DEF NoKeyAfterLive
<1>4. CASE GoLive
  BY <1>2, <1>4 DEF GoLive, Wipe
<1> QED
  BY <1>1, <1>2, <1>3, <1>4, OtherAirlock

\* When a comet is marked live its boot key is off the Airlock, and no later export,
\* resume or restart puts it back (main.rs: export_boot_key, wipe-usb, set_stage).
THEOREM WizardNoKeyAfterLive ==
    ~Requiz /\ ~Impatient /\ Faults = {} => (Spec => []NoKeyAfterLive)
<1> SUFFICES ASSUME ~Requiz, ~Impatient, Faults = {}
             PROVE  Spec => []NoKeyAfterLive
  OBVIOUS
<1>1. Init => NoKeyAfterLive
  BY DEF Init, StoreInit, NoKeyAfterLive
<1>2. LifeInv /\ LifeInv' /\ NoKeyAfterLive /\ [Next]_vars => NoKeyAfterLive'
  BY KeyStep
<1> QED
  BY <1>1, <1>2, LifeInvariant, PTL DEF Spec

-----------------------------------------------------------------------------
(* The list implements the ledger.                                             *)

OnRecord(it) == [stage |-> it.stage, funding |-> it.funding, attested |-> it.attested]

LedgerOf(list) ==
    [s \in Seeds |->
       IF IndexOf(list, s) = {} THEN None
       ELSE OnRecord(list[CHOOSE i \in IndexOf(list, s) : TRUE])]

LEMMA LedgerIs == Ledger = LedgerOf(identities) /\ Ledger' = LedgerOf(identities')
  BY DEF Ledger, LedgerOf, OnRecord

\* What the ledger says of a ticket: its one entry, or nothing.
LEMMA Lookup ==
    ASSUME NEW list \in Seq(Identity), Unique(list)
    PROVE  /\ \A i \in 1..Len(list) : LedgerOf(list)[list[i].seed] = OnRecord(list[i])
           /\ \A s \in Seeds :
                (\A i \in 1..Len(list) : list[i].seed # s) => LedgerOf(list)[s] = None
           /\ DOMAIN LedgerOf(list) = Seeds
           /\ LedgerOf(list) = [s \in Seeds |-> LedgerOf(list)[s]]
           /\ \A i \in 1..Len(list) : list[i].seed \in Seeds /\ OnRecord(list[i]) # None
<1>1. DOMAIN list = 1..Len(list)
  BY LenProperties
<1>2. \A i \in 1..Len(list) : list[i] \in Identity
  BY ElementOfSeq
<1>3. \A i \in 1..Len(list) : list[i].seed \in Seeds /\ OnRecord(list[i]) # None
  <2> SUFFICES ASSUME NEW i \in 1..Len(list)
               PROVE  list[i].seed \in Seeds /\ OnRecord(list[i]) # None
    OBVIOUS
  <2>1. list[i] \in Identity
    BY <1>2
  <2>2. OnRecord(list[i]) \in Entry
    BY <2>1 DEF Identity, Entry, OnRecord
  <2> QED
    BY <2>1, <2>2 DEF Identity
<1>4. ASSUME NEW i \in 1..Len(list)
      PROVE  LedgerOf(list)[list[i].seed] = OnRecord(list[i])
  <2>1. IndexOf(list, list[i].seed) = {i}
    BY <1>1 DEF IndexOf, Unique
  <2>2. (CHOOSE j \in IndexOf(list, list[i].seed) : TRUE) = i
    BY <2>1
  <2>3. list[i].seed \in Seeds
    BY <1>3
  <2> QED
    BY <2>1, <2>2, <2>3 DEF LedgerOf
<1>5. ASSUME NEW s \in Seeds, \A i \in 1..Len(list) : list[i].seed # s
      PROVE  LedgerOf(list)[s] = None
  <2>1. IndexOf(list, s) = {}
    BY <1>1, <1>5 DEF IndexOf
  <2> QED
    BY <2>1 DEF LedgerOf
<1>6. DOMAIN LedgerOf(list) = Seeds /\ LedgerOf(list) = [s \in Seeds |-> LedgerOf(list)[s]]
  BY DEF LedgerOf
<1> QED
  BY <1>3, <1>4, <1>5, <1>6

\* Two ledgers that agree on every ticket but one.
LEMMA OneTicket ==
    ASSUME NEW old, NEW new, old = [s \in Seeds |-> old[s]], new = [s \in Seeds |-> new[s]],
           NEW seed \in Seeds, NEW value, new[seed] = value,
           \A s \in Seeds : s # seed => new[s] = old[s]
    PROVE  new = [old EXCEPT ![seed] = value]
  OBVIOUS

LEMMA ChangeLedger ==
    ASSUME NEW list \in Seq(Identity), NEW new \in Seq(Identity), Unique(list), Unique(new),
           NEW i \in 1..Len(list), Changed(new, list, i)
    PROVE  /\ list[i].seed \in Seeds
           /\ LedgerOf(list)[list[i].seed] = OnRecord(list[i])
           /\ LedgerOf(new) = [LedgerOf(list) EXCEPT ![list[i].seed] = OnRecord(new[i])]
<1> DEFINE seed == list[i].seed
<1>1. seed \in Seeds /\ LedgerOf(list)[seed] = OnRecord(list[i])
  BY Lookup
<1>2. new[i].seed = seed /\ i \in 1..Len(new)
  BY DEF Changed
<1>3. LedgerOf(new)[seed] = OnRecord(new[i])
  BY <1>2, Lookup
<1>4. ASSUME NEW s \in Seeds, s # seed
      PROVE  LedgerOf(new)[s] = LedgerOf(list)[s]
  <2>1. CASE \E j \in 1..Len(list) : list[j].seed = s
    <3>1. PICK j \in 1..Len(list) : list[j].seed = s
      BY <2>1
    <3>2. new[j] = list[j] /\ j \in 1..Len(new)
      BY <1>4, <3>1 DEF Changed
    <3>3. LedgerOf(list)[s] = OnRecord(list[j])
      BY <3>1, Lookup
    <3>4. LedgerOf(new)[s] = OnRecord(new[j])
      BY <3>1, <3>2, Lookup
    <3> QED
      BY <3>2, <3>3, <3>4
  <2>2. CASE \A j \in 1..Len(list) : list[j].seed # s
    <3>1. \A j \in 1..Len(new) : new[j].seed # s
      BY <1>2, <1>4, <2>2 DEF Changed
    <3> QED
      BY <2>2, <3>1, Lookup
  <2> QED
    BY <2>1, <2>2
<1> HIDE DEF seed
<1>5. LedgerOf(new) = [LedgerOf(list) EXCEPT ![seed] = OnRecord(new[i])]
  <2>1. /\ LedgerOf(list) = [s \in Seeds |-> LedgerOf(list)[s]]
        /\ LedgerOf(new) = [s \in Seeds |-> LedgerOf(new)[s]]
    BY DEF LedgerOf
  <2> QED
    BY <1>1, <1>3, <1>4, <2>1, OneTicket
<1> QED
  BY <1>1, <1>5 DEF seed

LEMMA AppendLedger ==
    ASSUME NEW list \in Seq(Identity), NEW seed \in Seeds, Unique(list),
           \A i \in 1..Len(list) : list[i].seed # seed,
           Unique(Append(list, Fresh(seed)))
    PROVE  /\ LedgerOf(list)[seed] = None
           /\ LedgerOf(Append(list, Fresh(seed)))
                = [LedgerOf(list) EXCEPT ![seed] = OnRecord(Fresh(seed))]
<1> DEFINE new == Append(list, Fresh(seed))
<1>0. Len(list) \in Nat
  BY LenProperties
<1>1. /\ new \in Seq(Identity) /\ Len(new) = Len(list) + 1
      /\ new[Len(list) + 1] = Fresh(seed)
      /\ \A k \in 1..Len(list) : new[k] = list[k]
  BY FreshType, AppendProperties, AppendType
<1>2. LedgerOf(list)[seed] = None
  BY Lookup
<1>a. Unique(new)
  OBVIOUS
<1> HIDE DEF new
<1>3. LedgerOf(new)[seed] = OnRecord(Fresh(seed))
  <2>1. Len(list) + 1 \in 1..Len(new) /\ new[Len(list) + 1].seed = seed
    BY <1>0, <1>1, FreshType
  <2> QED
    BY <1>1, <1>a, <2>1, Lookup
<1>4. ASSUME NEW s \in Seeds, s # seed
      PROVE  LedgerOf(new)[s] = LedgerOf(list)[s]
  <2>1. CASE \E j \in 1..Len(list) : list[j].seed = s
    <3>1. PICK j \in 1..Len(list) : list[j].seed = s
      BY <2>1
    <3>2. new[j] = list[j] /\ j \in 1..Len(new)
      BY <1>0, <1>1, <3>1
    <3>3. LedgerOf(list)[s] = OnRecord(list[j])
      BY <3>1, Lookup
    <3>4. LedgerOf(new)[s] = OnRecord(new[j])
      BY <1>1, <1>a, <3>1, <3>2, Lookup
    <3> QED
      BY <3>2, <3>3, <3>4
  <2>2. CASE \A j \in 1..Len(list) : list[j].seed # s
    <3>1. \A j \in 1..Len(new) : j = Len(list) + 1 \/ j \in 1..Len(list)
      BY <1>0, <1>1
    <3>2. \A j \in 1..Len(new) : new[j].seed # s
      BY <1>1, <1>4, <2>2, <3>1, FreshType
    <3> QED
      BY <1>1, <1>a, <2>2, <3>2, Lookup
  <2> QED
    BY <2>1, <2>2
<1>5. LedgerOf(new) = [LedgerOf(list) EXCEPT ![seed] = OnRecord(Fresh(seed))]
  <2>1. /\ LedgerOf(list) = [s \in Seeds |-> LedgerOf(list)[s]]
        /\ LedgerOf(new) = [s \in Seeds |-> LedgerOf(new)[s]]
    BY DEF LedgerOf
  <2> QED
    BY <1>3, <1>4, <2>1, OneTicket
<1> QED
  BY <1>2, <1>5 DEF new

LEMMA RemoveLedger ==
    ASSUME NEW list \in Seq(Identity), NEW i \in DOMAIN list, Unique(list)
    PROVE  /\ list[i].seed \in Seeds
           /\ LedgerOf(list)[list[i].seed] # None
           /\ LedgerOf(RemoveAt(list, i)) = [LedgerOf(list) EXCEPT ![list[i].seed] = None]
<1> DEFINE new == RemoveAt(list, i)
<1> DEFINE seed == list[i].seed
<1>0. Len(list) \in Nat /\ i \in 1..Len(list)
  BY LenProperties
<1>1. /\ new \in Seq(Identity) /\ Len(new) = Len(list) - 1
      /\ \A j \in 1..(Len(list) - 1) : new[j] = IF j < i THEN list[j] ELSE list[j + 1]
  BY RemoveAtType
<1>2. Unique(new)
  BY RemoveAtKeeps
<1>3. seed \in Seeds /\ LedgerOf(list)[seed] # None
  BY <1>0, Lookup
<1> HIDE DEF new
<1>4. \A j \in 1..Len(new) : \E k \in 1..Len(list) : k # i /\ new[j] = list[k]
  <2> SUFFICES ASSUME NEW j \in 1..Len(new)
               PROVE  \E k \in 1..Len(list) : k # i /\ new[j] = list[k]
    OBVIOUS
  <2>1. j \in 1..Len(list) /\ j + 1 \in 1..Len(list) /\ (~(j < i) => j + 1 # i)
    BY <1>0, <1>1
  <2>2. new[j] = IF j < i THEN list[j] ELSE list[j + 1]
    BY <1>1
  <2>3. j < i => j # i
    BY <1>0, <2>1
  <2> QED
    BY <2>1, <2>2, <2>3
<1>5. \A k \in 1..Len(list) : k # i => \E j \in 1..Len(new) : new[j] = list[k]
  <2> SUFFICES ASSUME NEW k \in 1..Len(list), k # i
               PROVE  \E j \in 1..Len(new) : new[j] = list[k]
    OBVIOUS
  <2>1. CASE k < i
    <3>1. k \in 1..Len(new) /\ new[k] = list[k]
      BY <1>0, <1>1, <2>1
    <3> QED
      BY <3>1
  <2>2. CASE k > i
    <3>1. k - 1 \in 1..Len(new) /\ ~(k - 1 < i) /\ (k - 1) + 1 = k
      BY <1>0, <1>1, <2>2
    <3>2. new[k - 1] = list[k]
      BY <1>1, <3>1
    <3> QED
      BY <3>1, <3>2
  <2> QED
    BY <1>0, <2>1, <2>2
<1>6. LedgerOf(new)[seed] = None
  <2>1. \A j \in 1..Len(new) : new[j].seed # seed
    BY <1>0, <1>4 DEF Unique
  <2> QED
    BY <1>1, <1>2, <1>3, <2>1, Lookup
<1>7. ASSUME NEW s \in Seeds, s # seed
      PROVE  LedgerOf(new)[s] = LedgerOf(list)[s]
  <2>1. CASE \E k \in 1..Len(list) : list[k].seed = s
    <3>1. PICK k \in 1..Len(list) : list[k].seed = s
      BY <2>1
    <3>2. PICK j \in 1..Len(new) : new[j] = list[k]
      BY <1>5, <1>7, <3>1
    <3>3. LedgerOf(list)[s] = OnRecord(list[k])
      BY <3>1, Lookup
    <3>4. LedgerOf(new)[new[j].seed] = OnRecord(new[j])
      BY <1>1, <1>2, Lookup
    <3> QED
      BY <3>1, <3>2, <3>3, <3>4
  <2>2. CASE \A k \in 1..Len(list) : list[k].seed # s
    <3>1. ASSUME NEW j \in 1..Len(new)
          PROVE  new[j].seed # s
      <4>1. PICK k \in 1..Len(list) : new[j] = list[k]
        BY <1>4
      <4> QED
        BY <2>2, <4>1
    <3> QED
      BY <1>1, <1>2, <2>2, <3>1, Lookup
  <2> QED
    BY <2>1, <2>2
<1> HIDE DEF seed
<1>8. LedgerOf(new) = [LedgerOf(list) EXCEPT ![seed] = None]
  <2>1. /\ LedgerOf(list) = [s \in Seeds |-> LedgerOf(list)[s]]
        /\ LedgerOf(new) = [s \in Seeds |-> LedgerOf(new)[s]]
    BY DEF LedgerOf
  <2> QED
    BY <1>3, <1>6, <1>7, <2>1, OneTicket
<1> QED
  BY <1>3, <1>8 DEF new, seed

\* A changed entry is one step of the ledger.
LEMMA EntryStep ==
    ASSUME NEW list \in Seq(Identity), NEW new \in Seq(Identity), Unique(list), Unique(new),
           AllSound(list), NEW i \in 1..Len(list), Changed(new, list, i),
           Ledger = LedgerOf(list), Ledger' = LedgerOf(new),
           \/ Reproved(new[i], list[i]) \/ Funded(new[i], list[i])
           \/ Attested(new[i], list[i]) \/ Booted(new[i], list[i])
    PROVE  Life!LifecycleNext
<1> DEFINE seed == list[i].seed
<1>1. list[i] \in Identity /\ new[i] \in Identity
  BY ElementOfSeq DEF Changed
<1>2. /\ seed \in Seeds /\ Ledger[seed] = OnRecord(list[i])
      /\ Ledger' = [Ledger EXCEPT ![seed] = OnRecord(new[i])]
  BY ChangeLedger
<1>3. Ledger = [s \in Seeds |-> Ledger[s]]
  BY Lookup
<1>4. Ledger[seed] # None
  BY <1>2, Lookup
<1>5. /\ Ledger[seed].stage = list[i].stage /\ Ledger[seed].funding = list[i].funding
  BY <1>2 DEF OnRecord
<1>6. new[i].seed = seed
  BY DEF Changed
<1> HIDE DEF seed
<1>7. CASE Reproved(new[i], list[i])
  <2>1. OnRecord(new[i]) = [stage |-> 1, funding |-> Ledger[seed].funding, attested |-> None]
    BY <1>5, <1>7 DEF OnRecord, Reproved, BACKED_UP
  <2>2. Ledger[seed].stage \in {1, 2}
    BY <1>5, <1>7 DEF Reproved, BACKED_UP, FUNDED
  <2>3. Life!ProvePaper(seed)
    BY <1>2, <1>4, <2>1, <2>2 DEF Life!ProvePaper, Life!Listed
  <2> QED
    BY <1>2, <2>3 DEF Life!LifecycleNext
<1>8. CASE Funded(new[i], list[i])
  <2>1. OnRecord(new[i]) = [stage |-> 2, funding |-> new[i].funding,
                            attested |-> list[i].attested]
    BY <1>8 DEF OnRecord, Funded, FUNDED
  <2>2. Ledger[seed].stage \in {1, 2} /\ new[i].funding \in Utxos
    BY <1>5, <1>8 DEF Funded, BACKED_UP, FUNDED
  <2> DEFINE funding == new[i].funding
  <2>3. Ledger' = [Ledger EXCEPT ![seed].stage = 2, ![seed].funding = new[i].funding]
    <3> HIDE DEF funding
    <3>1. [Ledger EXCEPT ![seed].stage = 2, ![seed].funding = funding]
            = [Ledger EXCEPT ![seed] =
                 [OnRecord(list[i]) EXCEPT !.stage = 2, !.funding = funding]]
      BY <1>2, <1>3
    <3>2. [OnRecord(list[i]) EXCEPT !.stage = 2, !.funding = funding]
            = [stage |-> 2, funding |-> funding, attested |-> list[i].attested]
      <4>1. [OnRecord(list[i]) EXCEPT !.stage = 2]
              = [stage |-> 2, funding |-> list[i].funding, attested |-> list[i].attested]
        BY DEF OnRecord
      <4>2. [[stage |-> 2, funding |-> list[i].funding, attested |-> list[i].attested]
               EXCEPT !.funding = funding]
              = [stage |-> 2, funding |-> funding, attested |-> list[i].attested]
        OBVIOUS
      <4> QED
        BY <4>1, <4>2
    <3> QED
      BY <1>2, <2>1, <3>1, <3>2 DEF funding
  <2>4. Life!Fund(seed, new[i].funding)
    BY <1>4, <2>2, <2>3 DEF Life!Fund, Life!Listed
  <2> QED
    BY <1>2, <2>2, <2>4 DEF Life!LifecycleNext
<1>9. CASE Attested(new[i], list[i])
  <2>1. OnRecord(new[i]) = [stage |-> 5, funding |-> list[i].funding,
                            attested |-> [seed |-> seed, utxo |-> Ledger[seed].funding]]
    BY <1>5, <1>9 DEF OnRecord, Attested, ATTESTED, seed
  <2>2. Ledger[seed].stage = 2
    BY <1>5, <1>9 DEF Attested, FUNDED
  <2>3. Ledger' = [Ledger EXCEPT ![seed].stage = 5,
                     ![seed].attested = [seed |-> seed, utxo |-> Ledger[seed].funding]]
    <3> DEFINE result == [seed |-> seed, utxo |-> Ledger[seed].funding]
    <3>1. OnRecord(new[i]) = [stage |-> 5, funding |-> list[i].funding, attested |-> result]
      BY <2>1
    <3> HIDE DEF result
    <3>2. [Ledger EXCEPT ![seed].stage = 5, ![seed].attested = result]
            = [Ledger EXCEPT ![seed] =
                 [OnRecord(list[i]) EXCEPT !.stage = 5, !.attested = result]]
      BY <1>2, <1>3
    <3>3. [OnRecord(list[i]) EXCEPT !.stage = 5, !.attested = result]
            = [stage |-> 5, funding |-> list[i].funding, attested |-> result]
      <4>1. [OnRecord(list[i]) EXCEPT !.stage = 5]
              = [stage |-> 5, funding |-> list[i].funding, attested |-> list[i].attested]
        BY DEF OnRecord
      <4>2. [[stage |-> 5, funding |-> list[i].funding, attested |-> list[i].attested]
               EXCEPT !.attested = result]
              = [stage |-> 5, funding |-> list[i].funding, attested |-> result]
        OBVIOUS
      <4> QED
        BY <4>1, <4>2
    <3>4. Ledger' = [Ledger EXCEPT ![seed].stage = 5, ![seed].attested = result]
      BY <1>2, <3>1, <3>2, <3>3
    <3> QED
      BY <3>4 DEF result
  <2>4. Life!Attest(seed)
    BY <1>4, <2>2, <2>3 DEF Life!Attest, Life!Listed
  <2> QED
    BY <1>2, <2>4 DEF Life!LifecycleNext
<1>10. CASE Booted(new[i], list[i])
  <2>1. OnRecord(new[i]) = [stage |-> 6, funding |-> list[i].funding,
                            attested |-> list[i].attested]
    BY <1>10 DEF OnRecord, Booted, LIVE
  <2>2. Ledger[seed].stage = 5
    BY <1>5, <1>10 DEF Booted, ATTESTED
  <2>3. Ledger' = [Ledger EXCEPT ![seed].stage = 6]
    <3>1. [Ledger EXCEPT ![seed].stage = 6]
            = [Ledger EXCEPT ![seed] = [OnRecord(list[i]) EXCEPT !.stage = 6]]
      BY <1>2, <1>3
    <3>2. [OnRecord(list[i]) EXCEPT !.stage = 6]
            = [stage |-> 6, funding |-> list[i].funding, attested |-> list[i].attested]
      BY DEF OnRecord
    <3> QED
      BY <1>2, <2>1, <3>1, <3>2
  <2>4. Life!Boot(seed)
    BY <1>4, <2>2, <2>3 DEF Life!Boot, Life!Listed
  <2> QED
    BY <1>2, <2>4 DEF Life!LifecycleNext
<1> QED
  BY <1>7, <1>8, <1>9, <1>10

LEMMA LifecycleStep ==
    ASSUME Faults = {}, LifeInv, LifeInv', [Next]_vars
    PROVE  [Life!LifecycleNext]_Ledger
<1>0. ListChange
  BY ListChanges DEF LifeInv
<1>1. /\ identities \in Seq(Identity) /\ Unique(identities) /\ AllSound(identities)
      /\ identities' \in Seq(Identity) /\ Unique(identities')
  BY DEF LifeInv, WizardInv, StoreType, ListInv, ListsInv, SoundInv, Unique
<1>2. Ledger = LedgerOf(identities) /\ Ledger' = LedgerOf(identities')
  BY LedgerIs
<1>3. CASE identities' = identities
  BY <1>2, <1>3
<1>4. ASSUME NEW i \in 1..Len(identities), Changed(identities', identities, i),
             \/ Reproved(identities'[i], identities[i])
             \/ Funded(identities'[i], identities[i])
             \/ Attested(identities'[i], identities[i])
             \/ Booted(identities'[i], identities[i])
      PROVE  Life!LifecycleNext
  BY <1>1, <1>2, <1>4, EntryStep
<1>5. ASSUME NEW seed \in Seeds, \A i \in 1..Len(identities) : identities[i].seed # seed,
             identities' = Append(identities, Fresh(seed))
      PROVE  Life!LifecycleNext
  <2>1. /\ Ledger[seed] = None
        /\ Ledger' = [Ledger EXCEPT ![seed] = OnRecord(Fresh(seed))]
    BY <1>1, <1>2, <1>5, AppendLedger
  <2>2. OnRecord(Fresh(seed)) = [stage |-> 1, funding |-> None, attested |-> None]
    BY DEF OnRecord, Fresh, BACKED_UP
  <2>3. Life!ProvePaper(seed)
    BY <2>1, <2>2 DEF Life!ProvePaper, Life!Listed
  <2> QED
    BY <2>3 DEF Life!LifecycleNext
<1>6. ASSUME NEW i \in DOMAIN identities, identities' = RemoveAt(identities, i)
      PROVE  Life!LifecycleNext
  <2>1. /\ identities[i].seed \in Seeds /\ Ledger[identities[i].seed] # None
        /\ Ledger' = [Ledger EXCEPT ![identities[i].seed] = None]
    BY <1>1, <1>2, <1>6, RemoveLedger
  <2>2. Life!Erase(identities[i].seed)
    BY <2>1 DEF Life!Erase, Life!Listed
  <2> QED
    BY <2>1, <2>2 DEF Life!LifecycleNext
<1> QED
  BY <1>0, <1>3, <1>4, <1>5, <1>6 DEF ListChange

\* The application keeps Lifecycle's promise about every identity: backed up on paper,
\* funded, attested once with the spawn of its own ticket and UTXO, live, and changed
\* by nothing else -- no page, thread, save or restart.
THEOREM WizardImplementsLifecycle ==
    ~Requiz /\ ~Impatient /\ Faults = {} => (Spec => ImplementsLifecycle)
<1> SUFFICES ASSUME ~Requiz, ~Impatient, Faults = {}
             PROVE  Spec => ImplementsLifecycle
  OBVIOUS
<1>1. Init => Life!LifecycleInit
  <2> SUFFICES ASSUME Init
               PROVE  Ledger = [s \in Seeds |-> None]
    BY DEF Life!LifecycleInit
  <2>1. identities = <<>>
    BY DEF Init, StoreInit
  <2>2. \A s \in Seeds : IndexOf(<<>>, s) = {}
    BY DEF IndexOf
  <2> QED
    BY <2>1, <2>2 DEF Ledger
<1>2. LifeInv /\ LifeInv' /\ [Next]_vars => [Life!LifecycleNext]_Ledger
  BY LifecycleStep
<1> QED
  BY <1>1, <1>2, LifeInvariant, PTL DEF Spec, ImplementsLifecycle, Life!LifecycleSpec
=============================================================================
