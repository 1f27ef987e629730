------------------------------- MODULE Miner --------------------------------
(***************************************************************************)
(* The worker-thread miner: MineShared behind its mutex, the detached      *)
(* worker threads, and the mine step of the create page that begins,       *)
(* polls and cancels them (src/src/main.rs, src/ui/pages/create/page.slint)*)
(* A worker takes the mutex twice per batch -- to read `cancel`, and to    *)
(* publish -- and mines in between without it, so a batch is two actions.  *)
(***************************************************************************)
EXTENDS SpawnJob

CONSTANTS
    Workers,    \* bound: how many worker threads may exist at once
    Impatient   \* may the user mine again before a cancelled worker noticed?

ASSUME MinerAssumption == Impatient \in BOOLEAN /\ None \notin Workers

VARIABLES
    shared,     \* MineShared: tries, cancel, done
    worker,     \* each thread: pc, and the SpawnJob it owns
    spawning,   \* the create page's `spawning`: gates the poll timer
    outcome,    \* the create page's `outcome`: the last SpawnResult taken, or None
    current,    \* history: the job of the run the user waits for, or None
    told        \* history: the workers alive at a spawn-cancel

minerVars == <<shared, worker, spawning, outcome, current, told>>

\* The MineShared a begin installs.
FreshShared == [tries |-> 0, cancel |-> FALSE, done |-> None]

\* No thread, or one that has ended and dropped its job.
Ended == [pc |-> "ended", job |-> None, tries |-> 0]

Alive == {w \in Workers : worker[w].pc # "ended"}

MinerInit ==
    /\ shared = FreshShared
    /\ worker = [w \in Workers |-> Ended]
    /\ spawning = FALSE
    /\ outcome = None
    /\ current = None
    /\ told = {}

-----------------------------------------------------------------------------
(* The user interface's side. *)

\* Bugs: a begin that leaves the last answer, the cancel flag, or the count.
ResetFlagsOnly == [shared EXCEPT !.tries = 0, !.cancel = FALSE]
ResetDoneOnly == [shared EXCEPT !.tries = 0, !.done = None]
ResetKeepsTries == [shared EXCEPT !.cancel = FALSE, !.done = None]

\* What a begin leaves of MineShared: nothing.
ResetShared == FreshShared

\* "Mine & sign": spawn_begin replaces MineShared -- whoever still uses it --
\* and starts a thread.  Nothing waits for an earlier one: only the user's
\* patience does.
SpawnBegin(job) ==
    /\ ~spawning
    /\ Impatient \/ Alive = {}
    /\ \E w \in Workers \ Alive :
         worker' = [worker EXCEPT ![w] = [pc |-> "check", job |-> job, tries |-> 0]]
    /\ shared' = ResetShared
    /\ spawning' = TRUE
    /\ current' = job
    /\ UNCHANGED <<outcome, told>>

\* "Cancel" while mining: the flag is set, the timer stops.
SpawnCancel ==
    /\ spawning
    /\ shared' = [shared EXCEPT !.cancel = TRUE]
    /\ spawning' = FALSE
    /\ current' = None
    /\ told' = Alive
    /\ UNCHANGED <<worker, outcome>>

\* A timer tick that finds an answer takes it and ends the run; a success is the
\* page's new outcome.  (A tick that finds none only repaints the readout.)
SpawnPoll ==
    /\ spawning
    /\ shared.done # None
    /\ shared' = [shared EXCEPT !.done = None]
    /\ spawning' = FALSE
    /\ outcome' = IF shared.done.ok THEN shared.done.job ELSE outcome
    /\ current' = None
    /\ UNCHANGED <<worker, told>>

-----------------------------------------------------------------------------
(* A worker thread. *)

\* The thread's loop is left: the job is dropped.
Stops(w) ==
    /\ worker' = [worker EXCEPT ![w] = Ended]
    /\ told' = told \ {w}

\* Under the mutex: stop if cancelled, else go and mine a batch.
CheckCancel(w) ==
    /\ worker[w].pc = "check"
    /\ IF shared.cancel
       THEN Stops(w)
       ELSE worker' = [worker EXCEPT ![w].pc = "batch"] /\ UNCHANGED told
    /\ UNCHANGED <<shared, spawning, outcome, current>>

\* The batch's outcome is published under the mutex, cancelled or not.
Publish(w) ==
    /\ worker[w].pc = "batch"
    /\ \E step \in SpawnStep(worker[w].job, worker[w].tries) :
         /\ shared' = [shared EXCEPT
                         !.tries = step.tries,
                         !.done  = IF step.answer = None THEN @ ELSE step.answer]
         /\ IF step.answer = None
            THEN /\ worker' = [worker EXCEPT ![w].pc = "check", ![w].tries = step.tries]
                 /\ UNCHANGED told
            ELSE Stops(w)
    /\ UNCHANGED <<spawning, outcome, current>>

WorkerStep(w) == CheckCancel(w) \/ Publish(w)

MinerNext ==
    \/ \E job \in Job : SpawnBegin(job)
    \/ SpawnCancel
    \/ SpawnPoll
    \/ \E w \in Workers : WorkerStep(w)

\* The threads are preemptively scheduled and the timer fires every 33 ms; the
\* user owes nothing.
MinerSpec ==
    /\ MinerInit /\ [][MinerNext]_minerVars
    /\ \A w \in Workers : WF_minerVars(WorkerStep(w))
    /\ WF_minerVars(SpawnPoll)

-----------------------------------------------------------------------------
(* Properties. *)

MinerTypeOK ==
    /\ shared \in [tries : 0..Budget, cancel : BOOLEAN, done : Answer \cup {None}]
    /\ worker \in [Workers -> {Ended} \cup
                     [pc : {"check", "batch"}, job : Job, tries : 0..(Budget - 1)]]
    /\ spawning \in BOOLEAN
    /\ outcome \in Job \cup {None}
    /\ current \in Job \cup {None}
    /\ told \subseteq Workers

\* An answer the timer may take belongs to the run the user started last: the
\* transactions put on the draft spend the UTXO the wizard shows, with the keys
\* of the identity it shows.
AnswerIsForThisRun ==
    spawning /\ shared.done # None => shared.done.job = current

\* The polling user interface is never left waiting for nobody: while it polls,
\* nothing has told the worker to stop, and an answer is there or a thread is
\* still mining towards one.
MineNeverStalls ==
    spawning => ~shared.cancel /\ (shared.done # None \/ Alive # {})

\* The progress readout of a run never goes backwards.
TriesNeverGoBack ==
    [][spawning /\ spawning' => shared'.tries >= shared.tries]_minerVars

\* A cancelled worker mines at most the batch it is in: it never starts another.
CancelStopsWorker ==
    [][\A w \in told : worker[w].pc = "check" => worker'[w].pc # "batch"]_minerVars

\* Every run ends: with an answer, by the budget, or by the user's Cancel.
EveryRunEnds == spawning ~> ~spawning

\* Every thread ends, whatever the user does meanwhile: the seed it holds is
\* dropped.
EveryWorkerEnds == \A w \in Workers : worker[w].pc # "ended" ~> worker[w].pc = "ended"

\* The threads, the mutex and the timer implement the promised service.
Service == INSTANCE MineService
             WITH running  <- current,
                  answered <- IF spawning THEN shared.done ELSE None,
                  delivered <- outcome

ImplementsService == Service!ServiceSpec
=============================================================================
