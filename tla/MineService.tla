---------------------------- MODULE MineService -----------------------------
(***************************************************************************)
(* What the mine step of the wizard promises, with no thread in sight: a   *)
(* job is begun, it is answered with its own answer or cancelled, and the  *)
(* answer is taken once.  Miner.tla implements it.                         *)
(***************************************************************************)
CONSTANTS Job, Answer, None

VARIABLES
    running,   \* the job the user waits for, or None
    answered,  \* its answer, not yet taken, or None
    delivered  \* the last successful answer taken, or None

serviceVars == <<running, answered, delivered>>

ServiceInit == running = None /\ answered = None /\ delivered = None

Begin(job) ==
    /\ running = None
    /\ running' = job
    /\ UNCHANGED <<answered, delivered>>

\* A running job is answered, and only with an answer of its own.
Respond ==
    /\ running # None /\ answered = None
    /\ answered' \in {a \in Answer : a.job = running}
    /\ UNCHANGED <<running, delivered>>

\* The user interface takes the answer: the run is over.
Take ==
    /\ answered # None
    /\ running' = None /\ answered' = None
    /\ delivered' = IF answered.ok THEN running ELSE delivered

\* The user gives up; an answer that was not taken is lost.
Cancel ==
    /\ running # None
    /\ running' = None /\ answered' = None
    /\ UNCHANGED delivered

ServiceNext ==
    \/ \E job \in Job : Begin(job)
    \/ Respond
    \/ Take
    \/ Cancel

\* Every run is answered or cancelled, and an answer that stays is taken.
ServiceSpec ==
    ServiceInit /\ [][ServiceNext]_serviceVars
      /\ WF_serviceVars(Respond) /\ WF_serviceVars(Take)
=============================================================================
