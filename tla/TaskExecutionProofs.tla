------------------------ MODULE TaskExecutionProofs ------------------------
(***************************************************************************)
(* Proofs about the TaskExecution controller, for any number of Jobs,      *)
(* expiries, faults and restarts: its variables keep their types, a        *)
(* condition is the verdict of a Job, and Jobs are created once.           *)
(***************************************************************************)
EXTENDS TaskExecution, Watches, FiniteSetTheorems

-----------------------------------------------------------------------------
(* Types                                                                   *)

Worker == [pc: {"idle", "list", "create", "status"}, original: Conditions, wanted: Conditions]

\* Lost answers are among the faults.
Typed == TypeOK /\ lost <= faults

\* The initial state is of the declared types.
LEMMA InitTyped == Init => Typed
<1> SUFFICES ASSUME Init PROVE Typed
  OBVIOUS
<1>1. << >> \in Seq(Jobs) /\ << >> \in Seq(Conditions)
  BY NoEvent
<1> QED BY <1>1, BoundsAssumption DEF Init, Typed, TypeOK, NoJobs, Jobs, Conditions, Idle

\* A write of a Job keeps the Jobs and their watch well-typed.
LEMMA WriteJobTyped ==
    ASSUME Typed, NEW j \in Names, NEW s \in {"running", "removed"} \cup Verdicts, WriteJob(j, s)
    PROVE  /\ jobs' \in Jobs /\ jobsWatch' \in Seq(Jobs) /\ jobsWatch' # << >>
           /\ Events(jobsWatch') = Events(jobsWatch) \cup {jobs'}
           /\ jobs' = [jobs EXCEPT ![j] = s]
<1>1. jobs' \in Jobs /\ jobs' = [jobs EXCEPT ![j] = s]
  BY DEF Typed, TypeOK, WriteJob, Jobs
<1>2. jobsWatch \in Seq(Jobs) /\ jobsWatch' = Append(jobsWatch, jobs')
  BY DEF Typed, TypeOK, WriteJob
<1>3. /\ jobsWatch' \in Seq(Jobs) /\ jobsWatch' # << >>
      /\ Events(jobsWatch') = Events(jobsWatch) \cup {jobs'}
  <2>1. jobs' \in Jobs
    BY <1>1
  <2> QED BY <1>2, <2>1, SendEvent
<1> QED BY <1>1, <1>3

\* The verdict of a Job is one of the conditions of a TaskExecution.
LEMMA VerdictTyped ==
    ASSUME NEW c \in Conditions, NEW s
    PROVE  c \cup {Verdict(s)} \in Conditions
BY DEF Conditions, Verdict

\* No step of the API server, of an informer or of Reconcile takes a variable
\* out of its type.
LEMMA NextTyped == Typed /\ [Next]_vars => Typed'
<1> SUFFICES ASSUME Typed, [Next]_vars PROVE Typed'
  OBVIOUS
<1>t. TypeOK /\ lost <= faults
  BY DEF Typed
<1>w. worker \in Worker /\ Idle \in Worker
  BY <1>t DEF TypeOK, Worker, Idle, Conditions
<1>1. ASSUME NEW j \in Names, JobEnds(j) PROVE Typed'
  <2>1. PICK v \in Verdicts : WriteJob(j, v) /\ ended' = ended \cup {<<j, v>>}
    BY <1>1 DEF JobEnds
  <2>2. jobs' \in Jobs /\ jobsWatch' \in Seq(Jobs)
    BY <2>1, WriteJobTyped, Zenon
  <2> QED BY <1>1, <1>t, <2>1, <2>2 DEF JobEnds, Typed, TypeOK, taskVars, condVars
<1>2. ASSUME NEW j \in Names, JobExpires(j) PROVE Typed'
  <2>1. jobs' \in Jobs /\ jobsWatch' \in Seq(Jobs)
    BY <1>2, WriteJobTyped DEF JobExpires
  <2>2. expired' \in 0..MaxExpiries
    BY <1>2, <1>t, BoundsAssumption DEF JobExpires, TypeOK
  <2> QED BY <1>2, <1>t, <2>1, <2>2 DEF JobExpires, Typed, TypeOK, taskVars, condVars
<1>3. ASSUME NEW j \in Names, CollectJob(j) PROVE Typed'
  <2>1. jobs' \in Jobs /\ jobsWatch' \in Seq(Jobs)
    BY <1>3, WriteJobTyped DEF CollectJob
  <2> QED BY <1>3, <1>t, <2>1 DEF CollectJob, Typed, TypeOK, taskVars, condVars, histVars
<1>4. CASE DeleteTask
  BY <1>4, <1>t, Zenon DEF DeleteTask, Typed, TypeOK, jobVars, condVars, histVars
<1>5. CASE DeliverTask
  BY <1>5, <1>t DEF DeliverTask, Typed, TypeOK, jobVars, condVars, histVars
<1>6. CASE DeliverJobs
  <2>1. jobsCache' \in Jobs /\ jobsWatch' \in Seq(Jobs)
    BY <1>6, <1>t, TakeEvent DEF DeliverJobs, TypeOK
  <2> QED BY <1>6, <1>t, <2>1 DEF DeliverJobs, Typed, TypeOK, taskVars, condVars, histVars
<1>7. CASE DeliverCond
  <2>1. condCache' \in Conditions /\ condWatch' \in Seq(Conditions)
    BY <1>7, <1>t, TakeEvent DEF DeliverCond, TypeOK
  <2> QED BY <1>7, <1>t, <2>1 DEF DeliverCond, Typed, TypeOK, taskVars, jobVars, histVars
<1>8. CASE Start
  <2>1. worker' \in Worker /\ pending' \in BOOLEAN
    BY <1>8, <1>t, Zenon DEF Start, TypeOK, Idle, Worker, Conditions
  <2> QED BY <1>8, <1>t, <2>1 DEF Start, Typed, TypeOK, taskVars, jobVars, condVars, histVars, Worker
<1>9. CASE ListJobs
  <2>1. \A s : worker.original \cup {Verdict(s)} \in Conditions
    BY <1>w, VerdictTyped DEF Worker
  <2>2. worker' \in Worker /\ pending' \in BOOLEAN
    <3>1. pending \in BOOLEAN
      BY <1>t DEF TypeOK
    <3>2. CASE Return \/ ReturnError
      BY <3>1, <3>2, <1>w, Zenon DEF Return, ReturnError
    <3>3. CASE worker' = [worker EXCEPT !.pc = "create"] /\ UNCHANGED pending
      BY <3>1, <3>3, <1>w DEF Worker
    <3>4. CASE \E s : /\ worker' = [worker EXCEPT !.pc = "status",
                                     !.wanted = worker.original \cup {Verdict(s)}]
                      /\ UNCHANGED pending
      <4>1. \A c \in Conditions : [worker EXCEPT !.pc = "status", !.wanted = c] \in Worker
        BY <1>w, Zenon DEF Worker
      <4> QED BY <3>1, <3>4, <2>1, <4>1, Zenon
    <3> QED BY <1>9, <3>2, <3>3, <3>4, Zenon DEF ListJobs
  <2> QED BY <1>9, <1>t, <2>2, Zenon DEF ListJobs, Typed, TypeOK, taskVars, jobVars, condVars, histVars, Worker
<1>10. CASE CreateJob
  <2>1. jobs' \in Jobs /\ jobsWatch' \in Seq(Jobs)
    <3>1. CASE \E j \in Names : WriteJob(j, "running")
      BY <3>1, WriteJobTyped
    <3>2. CASE UNCHANGED <<jobs, jobsWatch>>
      BY <3>2, <1>t DEF TypeOK
    <3> QED BY <1>10, <3>1, <3>2 DEF CreateJob
  <2>2. worker' \in Worker /\ pending' \in BOOLEAN
    BY <1>10, <1>t, <1>w, Zenon DEF CreateJob, Return, ReturnError, TypeOK
  <2>3. /\ lost' \in 0..MaxFaults /\ faults' \in 0..MaxFaults /\ lost' <= faults'
    BY <1>10, <1>t, BoundsAssumption DEF CreateJob, Fault, TypeOK
  <2> QED BY <1>10, <1>t, <2>1, <2>2, <2>3 DEF CreateJob, Typed, TypeOK, taskVars, condVars, Worker
<1>11. CASE PatchStatus
  <2>1. cond' \in Conditions /\ condWatch' \in Seq(Conditions)
    <3>1. CASE UNCHANGED <<cond, condWatch>>
      BY <3>1, <1>t DEF TypeOK
    <3>2. CASE cond' = worker.wanted /\ condWatch' = IF cond' = cond THEN condWatch ELSE Append(condWatch, cond')
      <4>1. cond' \in Conditions /\ condWatch \in Seq(Conditions)
        BY <3>2, <1>t, <1>w DEF TypeOK, Worker
      <4> QED BY <3>2, <4>1, SendEvent
    <3> QED BY <1>11, <3>1, <3>2 DEF PatchStatus
  <2>2. worker' \in Worker /\ pending' \in BOOLEAN
    BY <1>11, <1>t, <1>w, Zenon DEF PatchStatus, Return, ReturnError, TypeOK
  <2>3. faults' \in 0..MaxFaults /\ faults' >= faults
    BY <1>11, <1>t, BoundsAssumption DEF PatchStatus, Fault, TypeOK
  <2> QED BY <1>11, <1>t, <2>1, <2>2, <2>3
          DEF PatchStatus, Typed, TypeOK, taskVars, jobVars, histVars, Worker
<1>12. CASE Restart
  <2>1. jobsWatch' \in Seq(Jobs) /\ condWatch' \in Seq(Conditions)
    BY <1>12, NoEvent DEF Restart
  <2>2. restarts' \in 0..MaxRestarts
    BY <1>12, <1>t, BoundsAssumption DEF Restart, TypeOK
  <2> QED BY <1>12, <1>t, <1>w, <2>1, <2>2 DEF Restart, Typed, TypeOK, histVars, Worker
<1>13. CASE UNCHANGED vars
  BY <1>13, <1>t DEF vars, taskVars, jobVars, condVars, histVars, Typed, TypeOK
<1> QED BY <1>1, <1>2, <1>3, <1>4, <1>5, <1>6, <1>7, <1>8, <1>9, <1>10, <1>11, <1>12, <1>13
        DEF Next, Reconcile

\* Every variable keeps its type, and lost answers stay among the faults.
THEOREM TypeCorrect == Spec => []TypeOK
<1>1. Typed => TypeOK
  BY DEF Typed
<1> QED BY <1>1, InitTyped, NextTyped, PTL DEF Spec

-----------------------------------------------------------------------------
(* A condition is the verdict of a Job                                     *)

Snapshots == {jobs, jobsCache} \cup Events(jobsWatch)

\* What any copy of the Jobs says of their end is how they ended.
EndsRecorded ==
    \A s \in Snapshots : \A j \in Names : s[j] \in Verdicts => <<j, s[j]>> \in ended

Explained(c) == \A k \in c : \E end \in ended : k = Verdict(end[2])

\* Every copy of the conditions is explained, the ones that Reconcile works
\* with included.
CopiesExplained ==
    /\ Explained(cond) /\ Explained(condCache)
    /\ \A c \in Events(condWatch) : Explained(c)
    /\ Explained(worker.original) /\ Explained(worker.wanted)

VerdictInv == EndsRecorded /\ CopiesExplained

\* Copies that were right stay right: how a Job ended is never forgotten.
LEMMA EndsKept ==
    ASSUME EndsRecorded, ended \subseteq ended', Snapshots' \subseteq Snapshots
    PROVE  EndsRecorded'
BY DEF EndsRecorded

\* A write of a Job keeps the copies right when an end it writes is recorded.
LEMMA WriteKeepsEnds ==
    ASSUME Typed, EndsRecorded, ended \subseteq ended', UNCHANGED jobsCache,
           NEW j \in Names, NEW s \in {"running", "removed"} \cup Verdicts, WriteJob(j, s),
           s \in Verdicts => <<j, s>> \in ended'
    PROVE  EndsRecorded'
<1>1. /\ jobs \in Jobs /\ jobs' = [jobs EXCEPT ![j] = s]
      /\ Events(jobsWatch') = Events(jobsWatch) \cup {jobs'}
  BY WriteJobTyped, Zenon DEF Typed, TypeOK
<1>2. Snapshots' \subseteq Snapshots \cup {jobs'}
  BY <1>1 DEF Snapshots
<1>3. \A i \in Names : jobs'[i] \in Verdicts => <<i, jobs'[i]>> \in ended'
  BY <1>1 DEF Jobs, EndsRecorded, Snapshots
<1> QED BY <1>2, <1>3 DEF EndsRecorded

\* The same for the conditions that were derived from them.
LEMMA ConditionsKept ==
    ASSUME CopiesExplained, ended \subseteq ended',
           UNCHANGED <<condVars, worker>> \/ (UNCHANGED condVars /\ worker' = Idle)
    PROVE  CopiesExplained'
BY DEF CopiesExplained, Explained, condVars, Idle

\* No step reports an end that no Job has come to.
LEMMA NextVerdict == Typed /\ VerdictInv /\ [Next]_vars => VerdictInv'
<1> SUFFICES ASSUME Typed, VerdictInv, [Next]_vars PROVE VerdictInv'
  OBVIOUS
<1>t. EndsRecorded /\ CopiesExplained
  BY DEF VerdictInv
<1>1. ASSUME NEW j \in Names, JobEnds(j) PROVE VerdictInv'
  <2>1. PICK v \in Verdicts : WriteJob(j, v) /\ ended' = ended \cup {<<j, v>>}
    BY <1>1 DEF JobEnds
  <2>2. EndsRecorded'
    BY <1>1, <1>t, <2>1, WriteKeepsEnds, Zenon DEF JobEnds
  <2>3. CopiesExplained'
    BY <1>1, <1>t, <2>1, ConditionsKept DEF JobEnds
  <2> QED BY <2>2, <2>3 DEF VerdictInv
<1>2. ASSUME NEW j \in Names, JobExpires(j) \/ CollectJob(j) PROVE VerdictInv'
  <2>1. WriteJob(j, "removed") /\ UNCHANGED <<ended, jobsCache, condVars, worker>>
    BY <1>2 DEF JobExpires, CollectJob, histVars
  <2>2. EndsRecorded'
    BY <1>t, <2>1, WriteKeepsEnds, Zenon DEF Verdicts
  <2>3. CopiesExplained'
    BY <1>t, <2>1, ConditionsKept
  <2> QED BY <2>2, <2>3 DEF VerdictInv
<1>3. CASE DeleteTask \/ DeliverTask \/ UNCHANGED vars
  <2>1. UNCHANGED <<ended, jobVars, condVars, worker>>
    BY <1>3 DEF DeleteTask, DeliverTask, vars, histVars
  <2>2. EndsRecorded'
    BY <1>t, <2>1 DEF EndsRecorded, Snapshots, jobVars
  <2>3. CopiesExplained'
    BY <1>t, <2>1, ConditionsKept
  <2> QED BY <2>2, <2>3 DEF VerdictInv
<1>4. CASE DeliverJobs
  <2>1. Snapshots' \subseteq Snapshots /\ UNCHANGED <<ended, condVars, worker>>
    <3>1. Events(jobsWatch) = {Head(jobsWatch)} \cup Events(Tail(jobsWatch))
      BY <1>4, TakeEvent DEF DeliverJobs, Typed, TypeOK
    <3> QED BY <1>4, <3>1 DEF DeliverJobs, Snapshots, histVars
  <2> QED BY <1>t, <2>1, EndsKept, ConditionsKept DEF VerdictInv
<1>5. CASE DeliverCond
  <2>1. Events(condWatch) = {Head(condWatch)} \cup Events(Tail(condWatch))
    BY <1>5, TakeEvent DEF DeliverCond, Typed, TypeOK
  <2>2. EndsRecorded'
    BY <1>5, <1>t DEF DeliverCond, EndsRecorded, Snapshots, jobVars, histVars
  <2>3. CopiesExplained'
    BY <1>5, <1>t, <2>1, Zenon DEF DeliverCond, CopiesExplained, Explained, histVars
  <2> QED BY <2>2, <2>3 DEF VerdictInv
<1>6. CASE Start
  <2>1. EndsRecorded'
    BY <1>6, <1>t DEF Start, EndsRecorded, Snapshots, jobVars, histVars
  <2>2. worker'.original \in {condCache, {}} /\ worker'.wanted = {}
    BY <1>6 DEF Start, Idle
  <2>3. CopiesExplained'
    BY <1>6, <1>t, <2>2 DEF Start, CopiesExplained, Explained, condVars, histVars
  <2> QED BY <2>1, <2>3 DEF VerdictInv
<1>7. CASE ListJobs
  <2>1. UNCHANGED <<jobVars, condVars, ended>>
    BY <1>7, Zenon DEF ListJobs, histVars
  <2>2. EndsRecorded'
    BY <1>t, <2>1 DEF EndsRecorded, Snapshots, jobVars
  <2>3. Explained(worker'.original) /\ Explained(worker'.wanted)
    <3>1. worker \in Worker /\ Explained(worker.original) /\ Explained(worker.wanted)
      BY <1>t DEF Typed, TypeOK, Worker, CopiesExplained
    <3>2. CASE worker' = Idle
      BY <3>2 DEF Idle, Explained
    <3>3. CASE worker' = [worker EXCEPT !.pc = "create"]
      BY <3>1, <3>3 DEF Worker
    <3>4. ASSUME NEW j \in Names, jobsCache[j] \in Verdicts,
                 worker' = [worker EXCEPT !.pc = "status",
                              !.wanted = worker.original \cup {Verdict(jobsCache[j])}]
          PROVE  Explained(worker'.original) /\ Explained(worker'.wanted)
      <4>1. <<j, jobsCache[j]>> \in ended
        BY <1>t, <3>4 DEF EndsRecorded, Snapshots
      <4>2. \E end \in ended : Verdict(jobsCache[j]) = Verdict(end[2])
        BY <4>1
      <4>3. /\ worker'.original = worker.original
            /\ worker'.wanted = worker.original \cup {Verdict(jobsCache[j])}
        BY <3>1, <3>4 DEF Worker
      <4> QED BY <3>1, <4>2, <4>3 DEF Explained
    <3> QED BY <1>7, <3>2, <3>3, <3>4, Zenon DEF ListJobs, Return, ReturnError, isJobFinished, Existing
  <2>4. CopiesExplained'
    BY <1>t, <2>1, <2>3 DEF CopiesExplained, Explained, condVars
  <2> QED BY <2>2, <2>4 DEF VerdictInv
<1>8. CASE CreateJob
  <2>1. UNCHANGED <<jobsCache, condVars, ended>> /\ worker' = Idle
    BY <1>8 DEF CreateJob, Return, ReturnError
  <2>2. EndsRecorded'
    <3>1. CASE \E j \in Names : WriteJob(j, "running")
      BY <1>t, <2>1, <3>1, WriteKeepsEnds, Zenon DEF Verdicts
    <3>2. CASE UNCHANGED <<jobs, jobsWatch>>
      BY <1>t, <2>1, <3>2 DEF EndsRecorded, Snapshots
    <3> QED BY <1>8, <3>1, <3>2 DEF CreateJob
  <2>3. CopiesExplained'
    BY <1>t, <2>1, ConditionsKept
  <2> QED BY <2>2, <2>3 DEF VerdictInv
<1>9. CASE PatchStatus
  <2>1. UNCHANGED <<jobVars, condCache, ended>> /\ worker' = Idle
    BY <1>9 DEF PatchStatus, Return, ReturnError, histVars
  <2>2. EndsRecorded'
    BY <1>t, <2>1 DEF EndsRecorded, Snapshots, jobVars
  <2>3. CASE UNCHANGED <<cond, condWatch>>
    BY <1>t, <2>1, <2>2, <2>3, ConditionsKept DEF VerdictInv, condVars
  <2>4. CASE cond' = worker.wanted /\ condWatch' = IF cond' = cond THEN condWatch ELSE Append(condWatch, cond')
    <3>1. cond' \in Conditions /\ condWatch \in Seq(Conditions)
      BY <2>4 DEF Typed, TypeOK
    <3>2. Events(condWatch') \subseteq Events(condWatch) \cup {cond'}
      BY <2>4, <3>1, SendEvent
    <3>3. CopiesExplained'
      BY <1>t, <2>1, <2>4, <3>2 DEF CopiesExplained, Explained, Idle
    <3> QED BY <2>2, <3>3 DEF VerdictInv
  <2> QED BY <1>9, <2>3, <2>4 DEF PatchStatus
<1>10. CASE Restart
  <2>1. Snapshots' \subseteq Snapshots /\ UNCHANGED ended
    BY <1>10, NoEvent DEF Restart, Snapshots, histVars
  <2>2. CopiesExplained'
    <3>1. Events(condWatch') = {}
      BY <1>10, NoEvent DEF Restart
    <3> QED BY <1>10, <1>t, <2>1, <3>1 DEF Restart, CopiesExplained, Explained, Idle
  <2> QED BY <1>t, <2>1, <2>2, EndsKept DEF VerdictInv
<1> QED BY <1>1, <1>2, <1>3, <1>4, <1>5, <1>6, <1>7, <1>8, <1>9, <1>10 DEF Next, Reconcile

\* A condition that Reconcile has set is the verdict of a Job of this task,
\* however late it was read and however often it was written.
THEOREM ConditionIsVerdict == Spec => []VerdictFromJob
<1>1. Init => Typed /\ VerdictInv
  <2>1. Events(<< >>) = {}
    BY NoEvent
  <2> QED BY <2>1, InitTyped DEF Init, VerdictInv, EndsRecorded, Snapshots, NoJobs, Verdicts,
                                 CopiesExplained, Explained, Idle
<1>2. (Typed /\ VerdictInv) /\ [Next]_vars => (Typed /\ VerdictInv)'
  BY NextTyped, NextVerdict
<1>3. VerdictInv => VerdictFromJob
  BY DEF VerdictInv, CopiesExplained, Explained, VerdictFromJob, Verdict
<1> QED BY <1>1, <1>2, <1>3, PTL DEF Spec

-----------------------------------------------------------------------------
(* Jobs are created once                                                   *)

\* The Jobs that a snapshot shows or has shown.
Used(s) == {j \in Names : s[j] # "unused"}

Created == Cardinality(Used(jobs))

\* As long as no Job has gone away, a reconcile that finds none in its cache
\* may create one more than there are lost answers; after that, nothing
\* reconciles again before the cache shows a Job, unless the answer was lost.
JobsInv ==
    /\ task => taskCache
    /\ \A s \in Events(jobsWatch) : Used(s) # {}
    /\ task /\ expired = 0 =>
          /\ \A s \in Snapshots : \A j \in Names : s[j] # "removed"
          /\ Created <= 1 + lost
          /\ worker.pc = "create" => Created <= lost
          /\ (pending \/ worker.pc = "list") /\ Used(jobsCache) = {} => Created <= lost
          /\ worker.pc = "status" \/ (worker.pc # "idle" /\ pending) => Used(jobsCache) # {}

\* There are finitely many Jobs, so they can be counted.
LEMMA JobsCounted ==
    ASSUME NEW s
    PROVE  IsFiniteSet(Used(s)) /\ Cardinality(Used(s)) \in Nat /\ (Used(s) = {} => Cardinality(Used(s)) = 0)
<1>1. IsFiniteSet(Names)
  BY BoundsAssumption, FS_Interval DEF Names
<1>2. IsFiniteSet(Used(s))
  BY <1>1, FS_Subset DEF Used
<1> QED BY <1>2, FS_CardinalityType, FS_EmptySet

\* A write to a Job leaves it a used one, and adds at most that Job.
LEMMA WriteUses ==
    ASSUME Typed, NEW j \in Names, NEW s \in {"running", "removed"} \cup Verdicts, WriteJob(j, s)
    PROVE  /\ Used(jobs') = Used(jobs) \cup {j}
           /\ jobs[j] # "unused" => Created' = Created
           /\ jobs[j] = "unused" => Created' = Created + 1
<1>1. jobs \in Jobs /\ jobs' = [jobs EXCEPT ![j] = s] /\ s # "unused"
  BY WriteJobTyped DEF Typed, TypeOK, Verdicts
<1>2. Used(jobs') = Used(jobs) \cup {j}
  BY <1>1 DEF Used, Jobs
<1>3. CASE jobs[j] # "unused"
  <2>1. Used(jobs') = Used(jobs)
    BY <1>2, <1>3 DEF Used
  <2> QED BY <1>2, <1>3, <2>1 DEF Created
<1>4. CASE jobs[j] = "unused"
  <2>1. j \notin Used(jobs) /\ IsFiniteSet(Used(jobs))
    BY <1>4, JobsCounted DEF Used
  <2>2. Cardinality(Used(jobs) \cup {j}) = Cardinality(Used(jobs)) + 1
    BY <2>1, FS_AddElement
  <2> QED BY <1>2, <1>4, <2>2 DEF Created
<1> QED BY <1>2, <1>3, <1>4

\* While no Job has gone away, the Jobs that exist are the ones created.
LEMMA ExistingAreUsed ==
    ASSUME NEW s, \A j \in Names : s[j] # "removed"
    PROVE  Existing(s) = Used(s)
BY DEF Existing, Used

\* No step creates a Job that neither the first create nor a lost answer
\* accounts for.
LEMMA NextJobs == Typed /\ JobsInv /\ [Next]_vars => JobsInv'
<1> SUFFICES ASSUME Typed, JobsInv, [Next]_vars PROVE JobsInv'
  OBVIOUS
<1>t. /\ task \in BOOLEAN /\ taskCache \in BOOLEAN /\ pending \in BOOLEAN
      /\ jobs \in Jobs /\ jobsCache \in Jobs /\ jobsWatch \in Seq(Jobs)
      /\ lost \in Nat /\ expired \in Nat /\ Created \in Nat
  BY JobsCounted DEF Typed, TypeOK, Created
<1>1. ASSUME NEW j \in Names, JobEnds(j) PROVE JobsInv'
  <2>1. PICK v \in Verdicts : WriteJob(j, v)
    BY <1>1 DEF JobEnds
  <2>2. Events(jobsWatch') = Events(jobsWatch) \cup {jobs'} /\ jobs' = [jobs EXCEPT ![j] = v]
    BY <2>1, WriteJobTyped, Zenon
  <2>3. Used(jobs') # {} /\ Created' = Created
    BY <1>1, <2>1, WriteUses, Zenon DEF JobEnds
  <2>4. (\A i \in Names : jobs[i] # "removed") => \A i \in Names : jobs'[i] # "removed"
    BY <1>t, <2>2 DEF Jobs, Verdicts
  <2> QED BY <1>1, <2>2, <2>3, <2>4, Zenon DEF JobEnds, JobsInv, Snapshots, taskVars
<1>2. ASSUME NEW j \in Names, JobExpires(j) \/ CollectJob(j) PROVE JobsInv'
  <2>1. WriteJob(j, "removed")
    BY <1>2 DEF JobExpires, CollectJob
  <2>2. Events(jobsWatch') = Events(jobsWatch) \cup {jobs'} /\ Used(jobs') # {}
    BY <2>1, WriteJobTyped, WriteUses
  <2>3. ~(task' /\ expired' = 0) /\ UNCHANGED <<task, taskCache>>
    BY <1>2, <1>t DEF JobExpires, CollectJob, taskVars
  <2> QED BY <2>2, <2>3 DEF JobsInv
<1>3. CASE DeleteTask
  BY <1>3 DEF DeleteTask, JobsInv, jobVars, histVars
<1>4. CASE DeliverTask
  BY <1>4, <1>t DEF DeliverTask, JobsInv, jobVars, histVars
<1>5. CASE DeliverJobs
  <2>1. Events(jobsWatch) = {Head(jobsWatch)} \cup Events(Tail(jobsWatch))
    BY <1>5, <1>t, TakeEvent DEF DeliverJobs
  <2>2. Used(jobsCache') # {} /\ Snapshots' \subseteq Snapshots /\ Events(jobsWatch') \subseteq Events(jobsWatch)
    BY <1>5, <2>1 DEF DeliverJobs, JobsInv, Snapshots
  <2> QED BY <1>5, <2>2 DEF DeliverJobs, JobsInv, Created, taskVars, histVars
<1>6. CASE DeliverCond
  BY <1>6 DEF DeliverCond, JobsInv, Snapshots, Created, taskVars, jobVars, histVars
<1>7. CASE Start
  <2>1. worker'.pc \in {"idle", "list"} /\ pending /\ ~pending'
    BY <1>7 DEF Start, Idle
  <2> QED BY <1>7, <2>1 DEF Start, JobsInv, Snapshots, Created, taskVars, jobVars, histVars
<1>8. CASE ListJobs
  <2>1. UNCHANGED <<task, taskCache, jobs, jobsWatch, jobsCache, lost, expired>> /\ worker.pc = "list"
    BY <1>8, Zenon DEF ListJobs, taskVars, jobVars, histVars
  <2>2. Snapshots' = Snapshots /\ Created' = Created
    BY <2>1 DEF Snapshots, Created
  <2> SUFFICES ASSUME task, expired = 0
               PROVE  /\ worker'.pc = "create" => Created <= lost
                      /\ (pending' \/ worker'.pc = "list") /\ Used(jobsCache) = {} => Created <= lost
                      /\ worker'.pc = "status" \/ (worker'.pc # "idle" /\ pending') => Used(jobsCache) # {}
    BY <2>1, <2>2 DEF JobsInv
  <2>3. /\ Existing(jobsCache) = Used(jobsCache)
        /\ Used(jobsCache) = {} => Created <= lost
        /\ pending => Used(jobsCache) # {}
    BY <2>1, ExistingAreUsed DEF JobsInv, Snapshots
  <2>4. CASE worker' = Idle
    BY <2>3, <2>4 DEF Idle
  <2>5. CASE /\ Existing(jobsCache) = {} /\ UNCHANGED pending
             /\ worker' = [worker EXCEPT !.pc = "create"]
    <3>1. worker'.pc = "create"
      BY <2>5 DEF Typed, TypeOK
    <3> QED BY <2>3, <2>5, <3>1
  <2>6. ASSUME NEW j \in Existing(jobsCache), NEW c,
               worker' = [worker EXCEPT !.pc = "status", !.wanted = c]
        PROVE  worker'.pc = "status" /\ Used(jobsCache) # {}
    BY <2>3, <2>6 DEF Typed, TypeOK
  <2> QED BY <1>8, <2>3, <2>4, <2>5, <2>6, Zenon DEF ListJobs, Return, ReturnError
<1>9. CASE CreateJob
  <2>1. UNCHANGED <<task, taskCache, jobsCache, expired>> /\ worker.pc = "create" /\ worker'.pc = "idle"
    BY <1>9 DEF CreateJob, taskVars, Return, ReturnError, Idle
  <2>2. CASE UNCHANGED <<jobs, jobsWatch, lost>>
    BY <2>1, <2>2 DEF JobsInv, Snapshots, Created
  <2>3. ASSUME NEW j \in Names, jobs[j] = "unused", WriteJob(j, "running"),
               \/ UNCHANGED <<lost, pending>>
               \/ lost' = lost + 1 /\ pending'
        PROVE  JobsInv'
    <3>1. Events(jobsWatch') = Events(jobsWatch) \cup {jobs'} /\ jobs' = [jobs EXCEPT ![j] = "running"]
      BY <2>3, WriteJobTyped
    <3>2. Used(jobs') # {} /\ Created' = Created + 1
      BY <2>3, WriteUses
    <3>3. (\A i \in Names : jobs[i] # "removed") => \A i \in Names : jobs'[i] # "removed"
      BY <1>t, <3>1 DEF Jobs
    <3>5. ASSUME task, expired = 0
          PROVE  /\ \A s \in Snapshots' : \A i \in Names : s[i] # "removed"
                 /\ Created <= lost
                 /\ pending => Used(jobsCache) # {}
      BY <2>1, <3>1, <3>3, <3>5, Zenon DEF JobsInv, Snapshots
    <3>6. ASSUME task, expired = 0
          PROVE  /\ Created' <= 1 + lost'
                 /\ pending' /\ Used(jobsCache) = {} => Created' <= lost'
      <4>1. Created <= lost /\ (pending => Used(jobsCache) # {})
        BY <3>5, <3>6
      <4>2. CASE UNCHANGED <<lost, pending>>
        BY <1>t, <3>2, <4>1, <4>2
      <4>3. CASE lost' = lost + 1
        BY <1>t, <3>2, <4>1, <4>3
      <4> QED BY <2>3, <4>2, <4>3
    <3>7. (task => taskCache) /\ \A s \in Events(jobsWatch') : Used(s) # {}
      BY <3>1, <3>2, Zenon DEF JobsInv
    <3> QED BY <2>1, <3>5, <3>6, <3>7 DEF JobsInv
  <2> QED BY <1>9, <2>2, <2>3 DEF CreateJob, Return, ReturnError
<1>10. CASE PatchStatus
  <2>1. /\ UNCHANGED <<task, taskCache, jobs, jobsWatch, jobsCache, lost, expired>>
        /\ worker.pc = "status" /\ worker'.pc = "idle"
    BY <1>10 DEF PatchStatus, taskVars, jobVars, histVars, Return, ReturnError, Idle
  <2> QED BY <2>1 DEF JobsInv, Snapshots, Created
<1>11. CASE Restart
  <2>1. /\ UNCHANGED <<task, jobs, lost, expired>> /\ taskCache' = task /\ jobsCache' = jobs
        /\ worker'.pc = "idle"
    BY <1>11 DEF Restart, histVars, Idle
  <2>2. Events(jobsWatch') = {} /\ Snapshots' = {jobs}
    BY <1>11, <2>1, NoEvent DEF Restart, Snapshots
  <2>3. Used(jobsCache') = {} => Created' = 0
    BY <2>1, JobsCounted DEF Created
  <2>4. Created' = Created
    BY <2>1 DEF Created
  <2> QED BY <1>t, <2>1, <2>2, <2>3, <2>4 DEF JobsInv, Snapshots
<1>12. CASE UNCHANGED vars
  BY <1>12 DEF vars, JobsInv, Snapshots, Created, taskVars, jobVars, histVars
<1> QED BY <1>1, <1>2, <1>3, <1>4, <1>5, <1>6, <1>7, <1>8, <1>9, <1>10, <1>11, <1>12 DEF Next, Reconcile

\* While its Jobs do not expire, a TaskExecution gets one Job, and one more
\* for each Create whose answer was lost: reconciling it again, with however
\* old a cache, adds none.
THEOREM OneJob == Spec => []JobsExplained
<1>1. Init => Typed /\ JobsInv
  <2> SUFFICES ASSUME Init PROVE JobsInv
    BY InitTyped
  <2>1. Events(jobsWatch) = {} /\ Used(jobs) = {} /\ Snapshots = {jobs}
    BY NoEvent DEF Init, Snapshots, Used, NoJobs
  <2>2. Created = 0
    BY <2>1, JobsCounted DEF Created
  <2> QED BY <2>1, <2>2 DEF Init, JobsInv, NoJobs, Idle
<1>2. (Typed /\ JobsInv) /\ [Next]_vars => (Typed /\ JobsInv)'
  BY NextTyped, NextJobs
<1>3. JobsInv => JobsExplained
  BY DEF JobsInv, JobsExplained, Created, Used
<1> QED BY <1>1, <1>2, <1>3, PTL DEF Spec

=============================================================================
