---------------------------- MODULE Miner_proofs ----------------------------
(***************************************************************************)
(* Theorems about the worker-thread miner, for any number of threads, jobs *)
(* and batches.  Liveness stays with TLC.                                  *)
(***************************************************************************)
EXTENDS Miner, TLAPS

USE SpawnAssumption DEF SpawnAssumption

\* What SpawnJob::step gives back for any job that is still mining: an answer of
\* that very job, or a count that is below the budget.
LEMMA SpawnStepType ==
    ASSUME NEW job \in Job, NEW tries \in 0..(Budget - 1),
           NEW step \in SpawnStep(job, tries)
    PROVE  /\ step.tries \in 0..Budget
           /\ step.tries >= tries
           /\ step.answer \in Answer \cup {None}
           /\ step.answer # None => step.answer.job = job
           /\ step.answer = None => step.tries \in 0..(Budget - 1)
<1>1. CASE step = Hit(job, tries)
  BY <1>1 DEF Hit, Answer
<1>2. CASE step = Miss(job, tries)
  <2>1. step.tries = tries + 1
    BY <1>2 DEF Miss
  <2>2. step.answer = IF tries + 1 >= Budget THEN [job |-> job, ok |-> FALSE] ELSE None
    BY <1>2 DEF Miss
  <2>3. [job |-> job, ok |-> FALSE] \in Answer
    BY DEF Answer
  <2>4. [job |-> job, ok |-> FALSE] # None
    BY <2>3
  <2> QED
    BY <2>1, <2>2, <2>3, <2>4
<1> QED
  BY <1>1, <1>2 DEF SpawnStep

-----------------------------------------------------------------------------
(* Type correctness. *)

LEMMA FreshSharedType ==
    FreshShared \in [tries : 0..Budget, cancel : BOOLEAN, done : Answer \cup {None}]
  BY DEF FreshShared

\* A thread that is alive owns a job and has budget left.
LEMMA AliveType ==
    ASSUME MinerTypeOK, NEW w \in Workers, worker[w].pc # "ended"
    PROVE  worker[w] \in [pc : {"check", "batch"}, job : Job, tries : 0..(Budget - 1)]
  BY DEF MinerTypeOK, Ended

\* A thread whose batch missed: it owns its job, and nobody else changes.
LEMMA MinesOn ==
    ASSUME MinerTypeOK, NEW w \in Workers, NEW t, worker[w].pc # "ended",
           worker' = [worker EXCEPT ![w].pc = "check", ![w].tries = t]
    PROVE  /\ worker' = [worker EXCEPT ![w] = [worker[w] EXCEPT !.pc = "check", !.tries = t]]
           /\ worker'[w].pc = "check"
           /\ worker'[w].job = worker[w].job
           /\ worker'[w].tries = t
           /\ \A v \in Workers \ {w} : worker'[v] = worker[v]
<1>1. worker[w] \in [pc : {"check", "batch"}, job : Job, tries : 0..(Budget - 1)]
  BY AliveType
<1>2. worker' = [worker EXCEPT ![w] = [worker[w] EXCEPT !.pc = "check", !.tries = t]]
  BY DEF MinerTypeOK
<1>3. worker'[w] = [worker[w] EXCEPT !.pc = "check", !.tries = t]
  BY <1>2 DEF MinerTypeOK
<1>4. \A v \in Workers \ {w} : worker'[v] = worker[v]
  BY <1>2 DEF MinerTypeOK
<1> QED
  BY <1>1, <1>2, <1>3, <1>4

LEMMA TypeInit == MinerInit => MinerTypeOK
  BY FreshSharedType DEF MinerInit, MinerTypeOK

LEMMA TypeStep == MinerTypeOK /\ [MinerNext]_minerVars => MinerTypeOK'
<1> SUFFICES ASSUME MinerTypeOK, [MinerNext]_minerVars
             PROVE  MinerTypeOK'
  OBVIOUS
<1> USE DEF MinerTypeOK
<1>1. CASE \E job \in Job : SpawnBegin(job)
  <2>1. PICK job \in Job : SpawnBegin(job)
    BY <1>1
  <2>2. shared' = FreshShared
    BY <2>1 DEF SpawnBegin, ResetShared
  <2>3. PICK w \in Workers \ Alive :
          worker' = [worker EXCEPT ![w] = [pc |-> "check", job |-> job, tries |-> 0]]
    BY <2>1 DEF SpawnBegin
  <2>4. [pc |-> "check", job |-> job, tries |-> 0]
          \in [pc : {"check", "batch"}, job : Job, tries : 0..(Budget - 1)]
    OBVIOUS
  <2> QED
    BY <2>1, <2>2, <2>3, <2>4, FreshSharedType DEF SpawnBegin
<1>2. CASE SpawnCancel
  <2>1. shared' \in [tries : 0..Budget, cancel : BOOLEAN, done : Answer \cup {None}]
    BY <1>2 DEF SpawnCancel
  <2> QED
    BY <1>2, <2>1 DEF SpawnCancel, Alive
<1>3. CASE SpawnPoll
  <2>1. shared' \in [tries : 0..Budget, cancel : BOOLEAN, done : Answer \cup {None}]
    BY <1>3 DEF SpawnPoll
  <2>2. outcome' \in Job \cup {None}
    BY <1>3 DEF SpawnPoll, Answer
  <2> QED
    BY <1>3, <2>1, <2>2 DEF SpawnPoll
<1>4. ASSUME NEW w \in Workers, CheckCancel(w)
      PROVE  MinerTypeOK'
  <2>1. CASE shared.cancel
    BY <1>4, <2>1 DEF CheckCancel, Stops
  <2>2. CASE ~shared.cancel
    <3>1. worker' = [worker EXCEPT ![w].pc = "batch"]
      BY <1>4, <2>2 DEF CheckCancel
    <3>2. [worker[w] EXCEPT !.pc = "batch"]
            \in [pc : {"check", "batch"}, job : Job, tries : 0..(Budget - 1)]
      BY <1>4, AliveType DEF CheckCancel
    <3> QED
      BY <1>4, <2>2, <3>1, <3>2 DEF CheckCancel
  <2> QED
    BY <2>1, <2>2
<1>5. ASSUME NEW w \in Workers, Publish(w)
      PROVE  MinerTypeOK'
  <2>1. worker[w] \in [pc : {"check", "batch"}, job : Job, tries : 0..(Budget - 1)]
    BY <1>5, AliveType DEF Publish
  <2>2. PICK step \in SpawnStep(worker[w].job, worker[w].tries) :
          /\ shared' = [shared EXCEPT
                          !.tries = step.tries,
                          !.done  = IF step.answer = None THEN @ ELSE step.answer]
          /\ IF step.answer = None
             THEN /\ worker' = [worker EXCEPT ![w].pc = "check", ![w].tries = step.tries]
                  /\ UNCHANGED told
             ELSE Stops(w)
    BY <1>5 DEF Publish
  <2>3. /\ step.tries \in 0..Budget
        /\ step.answer \in Answer \cup {None}
        /\ step.answer = None => step.tries \in 0..(Budget - 1)
    BY <2>1, SpawnStepType
  <2>4. shared' \in [tries : 0..Budget, cancel : BOOLEAN, done : Answer \cup {None}]
    BY <2>2, <2>3
  <2>5. CASE step.answer = None
    <3>1. worker' = [worker EXCEPT ![w] = [worker[w] EXCEPT !.pc = "check", !.tries = step.tries]]
      BY <1>5, <2>2, <2>5, MinesOn DEF Publish
    <3>2. [worker[w] EXCEPT !.pc = "check", !.tries = step.tries]
            \in [pc : {"check", "batch"}, job : Job, tries : 0..(Budget - 1)]
      BY <2>1, <2>3, <2>5
    <3>3. worker' \in [Workers -> {Ended} \cup
                        [pc : {"check", "batch"}, job : Job, tries : 0..(Budget - 1)]]
      BY <3>1, <3>2
    <3> QED
      BY <1>5, <2>2, <2>4, <2>5, <3>3 DEF Publish
  <2>6. CASE step.answer # None
    BY <1>5, <2>2, <2>4, <2>6 DEF Publish, Stops
  <2> QED
    BY <2>5, <2>6
<1>6. CASE UNCHANGED minerVars
  BY <1>6 DEF minerVars
<1> QED
  BY <1>1, <1>2, <1>3, <1>4, <1>5, <1>6 DEF MinerNext, WorkerStep

\* Every reachable state of the miner is well-typed: in particular a worker that
\* has not ended owns a job and is within its budget.
THEOREM MinerTypeCorrect == MinerSpec => []MinerTypeOK
<1>1. MinerInit => MinerTypeOK
  BY TypeInit
<1>2. MinerTypeOK /\ [MinerNext]_minerVars => MinerTypeOK'
  BY TypeStep
<1> QED
  BY <1>1, <1>2, PTL DEF MinerSpec

-----------------------------------------------------------------------------
(* The page never waits for nobody. *)

LEMMA StallStep ==
    MinerTypeOK /\ MineNeverStalls /\ [MinerNext]_minerVars => MineNeverStalls'
<1> SUFFICES ASSUME MinerTypeOK, MineNeverStalls, [MinerNext]_minerVars
             PROVE  MineNeverStalls'
  OBVIOUS
<1> USE DEF MinerTypeOK, MineNeverStalls, Alive
<1>1. CASE \E job \in Job : SpawnBegin(job)
  <2>1. PICK job \in Job : SpawnBegin(job)
    BY <1>1
  <2>2. PICK w \in Workers \ Alive :
          worker' = [worker EXCEPT ![w] = [pc |-> "check", job |-> job, tries |-> 0]]
    BY <2>1 DEF SpawnBegin
  <2>3. w \in Alive'
    BY <2>2
  <2>4. ~shared'.cancel
    BY <2>1 DEF SpawnBegin, ResetShared, FreshShared
  <2> QED
    BY <2>3, <2>4
<1>2. CASE SpawnCancel \/ SpawnPoll
  BY <1>2 DEF SpawnCancel, SpawnPoll
<1>3. ASSUME NEW w \in Workers, CheckCancel(w), spawning
      PROVE  MineNeverStalls'
  <2>1. worker' = [worker EXCEPT ![w].pc = "batch"]
    BY <1>3 DEF CheckCancel
  <2>2. w \in Alive'
    BY <2>1
  <2> QED
    BY <1>3, <2>2 DEF CheckCancel
<1>4. ASSUME NEW w \in Workers, Publish(w), spawning
      PROVE  MineNeverStalls'
  <2>1. PICK step \in SpawnStep(worker[w].job, worker[w].tries) :
          /\ shared' = [shared EXCEPT
                          !.tries = step.tries,
                          !.done  = IF step.answer = None THEN @ ELSE step.answer]
          /\ IF step.answer = None
             THEN /\ worker' = [worker EXCEPT ![w].pc = "check", ![w].tries = step.tries]
                  /\ UNCHANGED told
             ELSE Stops(w)
    BY <1>4 DEF Publish
  <2>2. ~shared'.cancel
    BY <1>4, <2>1
  <2>3. CASE step.answer = None
    <3>1. w \in Alive'
      <4>1. worker[w].pc # "ended"
        BY <1>4 DEF Publish
      <4>2. worker' = [worker EXCEPT ![w].pc = "check", ![w].tries = step.tries]
        BY <2>1, <2>3
      <4> QED
        BY <4>1, <4>2, MinesOn
    <3> QED
      BY <2>2, <3>1
  <2>4. CASE step.answer # None
    <3>1. shared'.done # None
      BY <2>1, <2>4
    <3> QED
      BY <2>2, <3>1
  <2> QED
    BY <2>3, <2>4
<1>5. CASE UNCHANGED minerVars
  BY <1>5 DEF minerVars
<1>6. ASSUME NEW w \in Workers, WorkerStep(w), ~spawning
      PROVE  MineNeverStalls'
  BY <1>6 DEF WorkerStep, CheckCancel, Publish
<1> QED
  BY <1>1, <1>2, <1>3, <1>4, <1>5, <1>6 DEF MinerNext, WorkerStep

\* Whatever the user does, while the create page polls nothing has told the worker
\* to stop, and an answer is there or a thread still mines (main.rs: spawn_begin,
\* the worker thread, spawn_poll).
THEOREM MinerNeverStalls == MinerSpec => []MineNeverStalls
<1>1. MinerInit => MineNeverStalls
  BY DEF MinerInit, MineNeverStalls
<1>2. MinerTypeOK /\ MineNeverStalls /\ [MinerNext]_minerVars => MineNeverStalls'
  BY StallStep
<1> QED
  BY <1>1, <1>2, MinerTypeCorrect, PTL DEF MinerSpec

-----------------------------------------------------------------------------
(* A patient user: a run begins only when every earlier worker has ended.  The *)
(* invariant says why that is enough.                                          *)

\* At most one thread is alive; while the page polls it mines the page's own job
\* and its count is not behind the readout; once it has answered it is gone.
OwnRun ==
    /\ \A v, w \in Alive : v = w
    /\ spawning <=> current # None
    /\ spawning =>
         /\ \A w \in Alive : worker[w].job = current /\ shared.tries <= worker[w].tries
         /\ shared.done # None => Alive = {} /\ shared.done.job = current

LEMMA OwnRunInit == MinerInit => OwnRun
  BY DEF MinerInit, OwnRun, Alive, Ended

LEMMA OwnRunStep ==
    ~Impatient /\ MinerTypeOK /\ OwnRun /\ [MinerNext]_minerVars => OwnRun'
<1> SUFFICES ASSUME ~Impatient, MinerTypeOK, OwnRun, [MinerNext]_minerVars
             PROVE  OwnRun'
  OBVIOUS
<1> USE DEF MinerTypeOK, OwnRun, Alive
<1>1. CASE \E job \in Job : SpawnBegin(job)
  <2>1. PICK job \in Job : SpawnBegin(job)
    BY <1>1
  <2>2. Alive = {}
    BY <2>1 DEF SpawnBegin
  <2>3. PICK w \in Workers \ Alive :
          worker' = [worker EXCEPT ![w] = [pc |-> "check", job |-> job, tries |-> 0]]
    BY <2>1 DEF SpawnBegin
  <2>4. Alive' = {w} /\ worker'[w].job = job /\ worker'[w].tries = 0
    BY <2>2, <2>3
  <2>5. shared'.done = None /\ shared'.tries = 0
    BY <2>1 DEF SpawnBegin, ResetShared, FreshShared
  <2>6. spawning' /\ current' = job /\ job # None
    BY <2>1 DEF SpawnBegin, SpawnAssumption
  <2> QED
    BY <2>4, <2>5, <2>6
<1>2. CASE SpawnCancel \/ SpawnPoll
  BY <1>2 DEF SpawnCancel, SpawnPoll
<1>3. ASSUME NEW w \in Workers, CheckCancel(w)
      PROVE  OwnRun'
  <2>1. \A v \in Alive' : /\ v \in Alive
                          /\ worker'[v].job = worker[v].job
                          /\ worker'[v].tries = worker[v].tries
    <3>1. CASE shared.cancel
      BY <1>3, <3>1 DEF CheckCancel, Stops, Ended
    <3>2. CASE ~shared.cancel
      <4>1. worker' = [worker EXCEPT ![w] = [worker[w] EXCEPT !.pc = "batch"]]
        BY <1>3, <3>2 DEF CheckCancel
      <4>2. w \in Alive
        BY <1>3 DEF CheckCancel
      <4>3. \A v \in Workers : v # w => worker'[v] = worker[v]
        BY <4>1
      <4>4. worker'[w] = [worker[w] EXCEPT !.pc = "batch"]
        BY <4>1
      <4>5. worker'[w].job = worker[w].job /\ worker'[w].tries = worker[w].tries
        BY <4>2, <4>4, AliveType
      <4> QED
        BY <4>2, <4>3, <4>5
    <3> QED
      BY <3>1, <3>2
  <2> QED
    BY <1>3, <2>1 DEF CheckCancel
<1>4. ASSUME NEW w \in Workers, Publish(w)
      PROVE  OwnRun'
  <2>1. worker[w] \in [pc : {"check", "batch"}, job : Job, tries : 0..(Budget - 1)]
    BY <1>4, AliveType DEF Publish
  <2>2. PICK step \in SpawnStep(worker[w].job, worker[w].tries) :
          /\ shared' = [shared EXCEPT
                          !.tries = step.tries,
                          !.done  = IF step.answer = None THEN @ ELSE step.answer]
          /\ IF step.answer = None
             THEN /\ worker' = [worker EXCEPT ![w].pc = "check", ![w].tries = step.tries]
                  /\ UNCHANGED told
             ELSE Stops(w)
    BY <1>4 DEF Publish
  <2>3. step.answer # None => step.answer.job = worker[w].job
    BY <2>1, SpawnStepType
  <2>4. Alive = {w}
    BY <1>4 DEF Publish
  <2>5. UNCHANGED <<spawning, current>>
    BY <1>4 DEF Publish
  <2>6. CASE step.answer = None
    <3>1. Alive' = {w} /\ worker'[w].job = worker[w].job /\ worker'[w].tries = step.tries
      <4>1. worker' = [worker EXCEPT ![w].pc = "check", ![w].tries = step.tries]
        BY <2>2, <2>6
      <4>2. /\ worker'[w].pc = "check"
            /\ worker'[w].job = worker[w].job
            /\ worker'[w].tries = step.tries
            /\ \A v \in Workers \ {w} : worker'[v] = worker[v]
        BY <1>4, <4>1, MinesOn DEF Publish
      <4> QED
        BY <2>4, <4>2
    <3>2. shared'.tries = step.tries /\ shared'.done = shared.done
      BY <2>2, <2>6
    <3>3. step.tries <= step.tries
      BY <2>1, SpawnStepType
    <3> QED
      BY <2>4, <2>5, <3>1, <3>2, <3>3
  <2>7. CASE step.answer # None
    <3>1. Alive' = {}
      BY <2>2, <2>4, <2>7 DEF Stops, Ended
    <3>2. shared'.done = step.answer
      BY <2>2, <2>7
    <3> QED
      BY <2>3, <2>4, <2>5, <2>7, <3>1, <3>2
  <2> QED
    BY <2>6, <2>7
<1>5. CASE UNCHANGED minerVars
  BY <1>5 DEF minerVars
<1> QED
  BY <1>1, <1>2, <1>3, <1>4, <1>5 DEF MinerNext, WorkerStep

\* With a patient user at most one worker is alive, it mines the job the page waits
\* for, and it is gone once it has answered (main.rs: spawn_begin, spawn_poll).
THEOREM PatientOwnRun == ~Impatient => (MinerSpec => []OwnRun)
<1> SUFFICES ASSUME ~Impatient
             PROVE  MinerSpec => []OwnRun
  OBVIOUS
<1>1. MinerInit => OwnRun
  BY OwnRunInit
<1>2. MinerTypeOK /\ OwnRun /\ [MinerNext]_minerVars => OwnRun'
  BY OwnRunStep
<1> QED
  BY <1>1, <1>2, MinerTypeCorrect, PTL DEF MinerSpec

\* With a patient user the answer spawn_poll may take is the answer of the job the
\* page shows: what is signed spends the UTXO on screen, for the identity on screen.
THEOREM PatientAnswerIsForThisRun == ~Impatient => (MinerSpec => []AnswerIsForThisRun)
<1> SUFFICES ASSUME ~Impatient
             PROVE  MinerSpec => []AnswerIsForThisRun
  OBVIOUS
<1>1. OwnRun => AnswerIsForThisRun
  BY DEF OwnRun, AnswerIsForThisRun
<1> QED
  BY <1>1, PatientOwnRun, PTL
\* What a batch of the only worker does, in terms of the page's own run.
LEMMA PublishOwn ==
    ASSUME MinerTypeOK, OwnRun, NEW w \in Workers, Publish(w), spawning
    PROVE  /\ spawning' /\ current' = current /\ outcome' = outcome
           /\ shared.done = None
           /\ shared'.tries >= shared.tries
           /\ \/ shared'.done = None
              \/ shared'.done \in Answer /\ shared'.done.job = current
<1>1. worker[w] \in [pc : {"check", "batch"}, job : Job, tries : 0..(Budget - 1)]
  BY AliveType DEF Publish
<1>2. w \in Alive
  BY DEF Publish, Alive
<1>3. worker[w].job = current /\ shared.tries <= worker[w].tries /\ shared.done = None
  BY <1>2 DEF OwnRun
<1>4. PICK step \in SpawnStep(worker[w].job, worker[w].tries) :
        shared' = [shared EXCEPT
                     !.tries = step.tries,
                     !.done  = IF step.answer = None THEN @ ELSE step.answer]
  BY DEF Publish
<1>5. /\ step.tries \in 0..Budget
      /\ step.tries >= worker[w].tries
      /\ step.answer \in Answer \cup {None}
      /\ step.answer # None => step.answer.job = worker[w].job
  BY <1>1, SpawnStepType
<1>6. /\ shared'.tries = step.tries
      /\ shared'.done = IF step.answer = None THEN None ELSE step.answer
  BY <1>3, <1>4 DEF MinerTypeOK
<1>7. shared'.tries >= shared.tries
  BY <1>1, <1>3, <1>5, <1>6 DEF MinerTypeOK
<1>8. shared'.done = None \/ (shared'.done \in Answer /\ shared'.done.job = current)
  BY <1>3, <1>5, <1>6
<1> QED
  BY <1>3, <1>7, <1>8 DEF Publish

LEMMA TriesStep ==
    ASSUME MinerTypeOK, OwnRun, MinerNext, spawning, spawning'
    PROVE  shared'.tries >= shared.tries
<1>1. ASSUME NEW w \in Workers, CheckCancel(w)
      PROVE  shared'.tries >= shared.tries
  BY <1>1 DEF CheckCancel, MinerTypeOK
<1>2. ASSUME NEW w \in Workers, Publish(w)
      PROVE  shared'.tries >= shared.tries
  BY <1>2, PublishOwn
<1> QED
  BY <1>1, <1>2 DEF MinerNext, WorkerStep, SpawnBegin, SpawnCancel, SpawnPoll

\* With a patient user the try counter the page shows of a run never goes back.
THEOREM PatientTriesNeverGoBack == ~Impatient => (MinerSpec => TriesNeverGoBack)
<1> SUFFICES ASSUME ~Impatient
             PROVE  MinerSpec => TriesNeverGoBack
  OBVIOUS
<1>1. MinerTypeOK /\ OwnRun /\ [MinerNext]_minerVars
        => [spawning /\ spawning' => shared'.tries >= shared.tries]_minerVars
  BY TriesStep
<1> QED
  BY <1>1, MinerTypeCorrect, PatientOwnRun, PTL DEF MinerSpec, TriesNeverGoBack

-----------------------------------------------------------------------------
(* The threads, the mutex and the timer implement the service, step by step.   *)

LEMMA ServiceInitial == MinerInit => Service!ServiceInit
  BY DEF MinerInit, Service!ServiceInit, FreshShared

LEMMA ServiceStep ==
    ASSUME MinerTypeOK, OwnRun, [MinerNext]_minerVars
    PROVE  [Service!ServiceNext]_(Service!serviceVars)
<1> USE DEF Service!ServiceNext, Service!serviceVars
<1>1. ASSUME NEW job \in Job, SpawnBegin(job)
      PROVE  Service!Begin(job)
  <2>1. shared'.done = None
    BY <1>1 DEF SpawnBegin, ResetShared, FreshShared
  <2> QED
    BY <1>1, <2>1 DEF SpawnBegin, OwnRun, Service!Begin
<1>2. CASE SpawnCancel
  <2>1. Service!Cancel
    BY <1>2 DEF SpawnCancel, OwnRun, Service!Cancel
  <2> QED
    BY <2>1
<1>3. CASE SpawnPoll
  <2>1. shared.done.job = current
    BY <1>3 DEF SpawnPoll, OwnRun
  <2>2. Service!Take
    BY <1>3, <2>1 DEF SpawnPoll, Service!Take
  <2> QED
    BY <2>2
<1>4. ASSUME NEW w \in Workers, CheckCancel(w)
      PROVE  UNCHANGED Service!serviceVars
  BY <1>4 DEF CheckCancel
<1>5. ASSUME NEW w \in Workers, Publish(w), ~spawning
      PROVE  UNCHANGED Service!serviceVars
  BY <1>5 DEF Publish
<1>6. ASSUME NEW w \in Workers, Publish(w), spawning
      PROVE  Service!Respond \/ UNCHANGED Service!serviceVars
  <2>1. /\ spawning' /\ current' = current /\ outcome' = outcome
        /\ shared.done = None
        /\ \/ shared'.done = None
           \/ shared'.done \in Answer /\ shared'.done.job = current
    BY <1>6, PublishOwn
  <2>2. CASE shared'.done = None
    BY <1>6, <2>1, <2>2
  <2>3. CASE shared'.done \in Answer /\ shared'.done.job = current
    BY <1>6, <2>1, <2>3 DEF Service!Respond, OwnRun
  <2> QED
    BY <2>1, <2>2, <2>3
<1>7. CASE UNCHANGED minerVars
  BY <1>7 DEF minerVars
<1> QED
  BY <1>1, <1>2, <1>3, <1>4, <1>5, <1>6, <1>7 DEF MinerNext, WorkerStep

\* With a patient user every behaviour of MineShared, the workers and the poll
\* timer is one of the mine step's promise: a run is answered only with its own
\* answer, which is taken once, or it is cancelled.
THEOREM PatientMinerIsAService ==
    ~Impatient =>
      (MinerSpec => Service!ServiceInit /\ [][Service!ServiceNext]_(Service!serviceVars))
<1> SUFFICES ASSUME ~Impatient
             PROVE  MinerSpec => Service!ServiceInit
                                 /\ [][Service!ServiceNext]_(Service!serviceVars)
  OBVIOUS
<1>1. MinerInit => Service!ServiceInit
  BY ServiceInitial
<1>2. MinerTypeOK /\ OwnRun /\ [MinerNext]_minerVars
        => [Service!ServiceNext]_(Service!serviceVars)
  BY ServiceStep
<1> QED
  BY <1>1, <1>2, MinerTypeCorrect, PatientOwnRun, PTL DEF MinerSpec
=============================================================================
