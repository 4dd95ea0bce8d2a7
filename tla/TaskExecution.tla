---------------------------- MODULE TaskExecution ----------------------------
(***************************************************************************)
(* The TaskExecution controller (internal/taskexecution): it runs a        *)
(* TaskExecution as one Job and reports the Job's end as a condition.      *)
(*                                                                         *)
(* Jobs get random names, so that nothing but the List of the informer     *)
(* cache keeps the controller from creating a second one.  A Job that has  *)
(* ended may be removed by its TTL.                                        *)
(***************************************************************************)
EXTENDS Naturals, Sequences, FiniteSets

CONSTANTS
    MaxJobs,       \* bound: Jobs ever created
    MaxExpiries,   \* bound: Jobs removed by their TTL
    MaxFaults,     \* bound: API calls that fail or lose their answer
    MaxRestarts    \* bound: restarts of the operator process

ASSUME BoundsAssumption ==
    MaxJobs \in Nat /\ MaxExpiries \in Nat /\ MaxFaults \in Nat /\ MaxRestarts \in Nat

VARIABLES
    task, taskCache,              \* the TaskExecution exists, in the informer too
    valid,                        \* its spec unmarshals to a JobSpec
    jobs, jobsWatch, jobsCache,   \* its Jobs, their watch and their informer
    cond, condWatch, condCache,   \* its conditions that are True
    worker, pending,              \* the reconcile in progress, and the queue
    ended,                        \* history: how each Job ended
    lost, expired,                \* history: lost answers to Create, expired Jobs
    faults, restarts

taskVars == <<task, taskCache, valid>>
jobVars == <<jobs, jobsWatch, jobsCache>>
condVars == <<cond, condWatch, condCache>>
histVars == <<ended, lost, expired>>
vars == <<taskVars, jobVars, condVars, worker, pending, histVars, faults, restarts>>

Names == 1..MaxJobs
Verdicts == {"Complete", "Failed"}
Jobs == [Names -> {"unused", "running", "removed"} \cup Verdicts]
Conditions == SUBSET {"TaskSucceeded", "TaskFailed"}

\* The Jobs that exist in a snapshot.
Existing(snapshot) == {j \in Names : snapshot[j] \notin {"unused", "removed"}}

Idle == [pc |-> "idle", original |-> {}, wanted |-> {}]

TypeOK ==
    /\ task \in BOOLEAN /\ taskCache \in BOOLEAN /\ valid \in BOOLEAN
    /\ jobs \in Jobs /\ jobsWatch \in Seq(Jobs) /\ jobsCache \in Jobs
    /\ cond \in Conditions /\ condWatch \in Seq(Conditions) /\ condCache \in Conditions
    /\ worker \in [pc: {"idle", "list", "create", "status"},
                   original: Conditions, wanted: Conditions]
    /\ pending \in BOOLEAN
    /\ ended \subseteq Names \X Verdicts
    /\ lost \in 0..MaxFaults /\ expired \in 0..MaxExpiries
    /\ faults \in 0..MaxFaults /\ restarts \in 0..MaxRestarts

NoJobs == [j \in Names |-> "unused"]

Init ==
    /\ task = TRUE /\ taskCache = TRUE /\ valid \in BOOLEAN
    /\ jobs = NoJobs /\ jobsWatch = << >> /\ jobsCache = NoJobs
    /\ cond = {} /\ condWatch = << >> /\ condCache = {}
    /\ worker = Idle /\ pending = TRUE
    /\ ended = {} /\ lost = 0 /\ expired = 0
    /\ faults = 0 /\ restarts = 0

-----------------------------------------------------------------------------
(* The API server and the other controllers: Jobs end, expire and are      *)
(* collected with their owner.                                             *)

WriteJob(j, status) ==
    /\ jobs' = [jobs EXCEPT ![j] = status]
    /\ jobsWatch' = Append(jobsWatch, jobs')

JobEnds(j) ==
    /\ jobs[j] = "running"
    /\ \E verdict \in Verdicts : WriteJob(j, verdict) /\ ended' = ended \cup {<<j, verdict>>}
    /\ UNCHANGED <<taskVars, jobsCache, condVars, worker, pending, lost, expired, faults, restarts>>

JobExpires(j) ==
    /\ jobs[j] \in Verdicts /\ expired < MaxExpiries
    /\ WriteJob(j, "removed")
    /\ expired' = expired + 1
    /\ UNCHANGED <<taskVars, jobsCache, condVars, worker, pending, ended, lost, faults, restarts>>

CollectJob(j) ==
    /\ ~task /\ j \in Existing(jobs)
    /\ WriteJob(j, "removed")
    /\ UNCHANGED <<taskVars, jobsCache, condVars, worker, pending, histVars, faults, restarts>>

DeleteTask ==
    /\ task
    /\ task' = FALSE
    /\ UNCHANGED <<taskCache, valid, jobVars, condVars, worker, pending, histVars, faults, restarts>>

-----------------------------------------------------------------------------
(* Informers.  Every event of an owned Job queues its TaskExecution; a     *)
(* change of the status does not.                                          *)

DeliverTask ==
    /\ taskCache # task
    /\ taskCache' = task /\ pending' = TRUE
    /\ UNCHANGED <<task, valid, jobVars, condVars, worker, histVars, faults, restarts>>

DeliverJobs ==
    /\ jobsWatch # << >>
    /\ jobsCache' = Head(jobsWatch) /\ jobsWatch' = Tail(jobsWatch)
    /\ pending' = TRUE
    /\ UNCHANGED <<taskVars, jobs, condVars, worker, histVars, faults, restarts>>

DeliverCond ==
    /\ condWatch # << >>
    /\ condCache' = Head(condWatch) /\ condWatch' = Tail(condWatch)
    /\ UNCHANGED <<taskVars, jobVars, cond, worker, pending, histVars, faults, restarts>>

-----------------------------------------------------------------------------
(* Reconcile                                                               *)

Return == worker' = Idle /\ UNCHANGED pending
ReturnError == worker' = Idle /\ pending' = TRUE
Fault == faults < MaxFaults /\ faults' = faults + 1

Start ==
    /\ worker.pc = "idle" /\ pending
    /\ pending' = FALSE
    /\ worker' = IF taskCache THEN [Idle EXCEPT !.pc = "list", !.original = condCache] ELSE Idle
    /\ UNCHANGED <<taskVars, jobVars, condVars, histVars, faults, restarts>>

\* Faulty variant: every Job that has ended succeeded.
Verdict_Ended(status) == "TaskSucceeded"

isJobFinished(status) == status \in Verdicts

\* Faulty variant: the condition has the type of the Job's condition.
Verdict_JobType(status) == status

\* The condition that the end of a Job leads to.
Verdict(status) == IF status = "Failed" THEN "TaskFailed" ELSE "TaskSucceeded"

\* Faulty variant: of several Jobs none is taken, and a new one is created.
ListJobs_CreatesAnother ==
    LET found == Existing(jobsCache) IN
    /\ worker.pc = "list"
    /\ \/ Cardinality(found) # 1 /\ worker' = [worker EXCEPT !.pc = "create"] /\ UNCHANGED pending
       \/ \E j \in found :
            /\ found = {j}
            /\ IF isJobFinished(jobsCache[j])
               THEN /\ worker' = [worker EXCEPT !.pc = "status",
                                    !.wanted = worker.original \cup {Verdict(jobsCache[j])}]
                    /\ UNCHANGED pending
               ELSE Return
    /\ UNCHANGED <<taskVars, jobVars, condVars, histVars, faults, restarts>>

\* createOrGetJob and isJobFinished on the cached Jobs: several are an error,
\* none leads to a new one, the end of a single one is reported.
ListJobs ==
    LET found == Existing(jobsCache) IN
    /\ worker.pc = "list"
    /\ \/ Cardinality(found) > 1 /\ ReturnError
       \/ /\ found = {}
          /\ \/ valid /\ worker' = [worker EXCEPT !.pc = "create"] /\ UNCHANGED pending
             \/ ~valid /\ ReturnError
       \/ \E j \in found :
            /\ found = {j}
            /\ \/ ~isJobFinished(jobsCache[j]) /\ Return
               \/ /\ isJobFinished(jobsCache[j])
                  /\ worker' = [worker EXCEPT !.pc = "status",
                                  !.wanted = worker.original \cup {Verdict(jobsCache[j])}]
                  /\ UNCHANGED pending
    /\ UNCHANGED <<taskVars, jobVars, condVars, histVars, faults, restarts>>

\* The new Job is not finished, so Reconcile returns.
CreateJob ==
    /\ worker.pc = "create"
    /\ \/ \E j \in Names :
            /\ jobs[j] = "unused" /\ \A i \in 1..(j - 1) : jobs[i] # "unused"
            /\ WriteJob(j, "running")
            /\ \/ Return /\ UNCHANGED <<lost, faults>>
               \/ Fault /\ lost' = lost + 1 /\ ReturnError
       \/ Fault /\ ReturnError /\ UNCHANGED <<jobs, jobsWatch, lost>>
    /\ UNCHANGED <<taskVars, jobsCache, condVars, ended, expired, restarts>>

\* Faulty variant: a failed patch is not retried.
PatchStatus_NoRetry ==
    /\ worker.pc = "status"
    /\ \/ /\ task
          /\ cond' = worker.wanted
          /\ condWatch' = IF cond' = cond THEN condWatch ELSE Append(condWatch, cond')
          /\ UNCHANGED faults
       \/ Fault /\ UNCHANGED <<cond, condWatch>>
    /\ Return
    /\ UNCHANGED <<taskVars, jobVars, condCache, histVars, restarts>>

\* A status patch by name, if the status changed.
PatchStatus ==
    /\ worker.pc = "status"
    /\ \/ worker.wanted = worker.original /\ Return /\ UNCHANGED <<cond, condWatch, faults>>
       \/ /\ worker.wanted # worker.original /\ task
          /\ cond' = worker.wanted
          /\ condWatch' = IF cond' = cond THEN condWatch ELSE Append(condWatch, cond')
          /\ \/ Return /\ UNCHANGED faults
             \/ Fault /\ ReturnError
       \/ /\ worker.wanted # worker.original /\ ~task
          /\ ReturnError /\ UNCHANGED <<cond, condWatch, faults>>
       \/ /\ worker.wanted # worker.original
          /\ Fault /\ ReturnError /\ UNCHANGED <<cond, condWatch>>
    /\ UNCHANGED <<taskVars, jobVars, condCache, histVars, restarts>>

Restart ==
    /\ restarts < MaxRestarts
    /\ restarts' = restarts + 1
    /\ worker' = Idle /\ pending' = task
    /\ taskCache' = task
    /\ jobsCache' = jobs /\ jobsWatch' = << >>
    /\ condCache' = cond /\ condWatch' = << >>
    /\ UNCHANGED <<task, valid, jobs, cond, histVars, faults>>

-----------------------------------------------------------------------------
Reconcile == Start \/ ListJobs \/ CreateJob \/ PatchStatus

Next == \/ \E j \in Names : JobEnds(j) \/ JobExpires(j) \/ CollectJob(j)
        \/ DeleteTask \/ DeliverTask \/ DeliverJobs \/ DeliverCond
        \/ Reconcile \/ Restart

\* The queue hands out its key, watches deliver, and Jobs end.
Fairness == /\ WF_vars(Reconcile) /\ WF_vars(DeliverTask) /\ WF_vars(DeliverJobs)
            /\ WF_vars(DeliverCond) /\ \A j \in Names : WF_vars(JobEnds(j))

Spec == Init /\ [][Next]_vars
FairSpec == Spec /\ Fairness

-----------------------------------------------------------------------------
(* Properties                                                              *)

\* createOrGetJob creates one Job per TaskExecution, however often it is
\* reconciled: while no Job has expired, every further one is owed to a Create
\* whose answer was lost while the informer lagged.
JobsExplained ==
    task /\ expired = 0 => Cardinality({j \in Names : jobs[j] # "unused"}) <= 1 + lost

\* A condition that Reconcile sets is the verdict of a Job of this task.
VerdictFromJob ==
    \A c \in cond : \E end \in ended :
        c = (IF end[2] = "Failed" THEN "TaskFailed" ELSE "TaskSucceeded")

\* A TaskExecution with a valid spec is given a verdict, through lagging
\* caches, failed calls, restarts and Jobs that expire, unless it is deleted
\* or has got two Jobs, which createOrGetJob refuses.
TaskSettles ==
    valid ~> (cond # {} \/ ~task \/ Cardinality(Existing(jobs)) > 1)

=============================================================================
