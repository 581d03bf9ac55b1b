---------------------------- MODULE BacktestJobs ----------------------------
(***************************************************************************)
(* Market replay jobs (database/repositories/backtest_jobs.py) and the     *)
(* workers that run them (api/routes/backtests.py).  A job is a row; a     *)
(* worker claims it under a lease, heartbeats while it computes, and       *)
(* writes the result if the row is still its own.  Leases expire under     *)
(* slow workers, workers are shut down, crash and start again under a new  *)
(* id, and the database fails before or after a commit.                    *)
(***************************************************************************)
EXTENDS Integers

CONSTANTS
  Job,
  Invalid,      \* jobs whose stored request this version cannot parse
  Worker,       \* a process slot; each start of it has a new worker id
  MaxAttempts   \* bound: claims of one job

ASSUME JobsAssumption == Invalid \subseteq Job /\ MaxAttempts \in Nat \ {0}

VARIABLES
  row,    \* the job's row
  task,   \* what each process does about each job
  alive   \* the processes that run

jobs == <<row, task, alive>>

(* attempts also names the claim: the row and the task of one claim have    *)
(* the same number.  owner = {} is a null lease_owner.                      *)
Row == [status: {"absent", "queued", "running", "completed", "failed"},
        owner: SUBSET Worker, lease: {"none", "valid", "expired"},
        attempts: 0..MaxAttempts, result: 0..MaxAttempts]

Task == [at: {"none", "scheduled", "working", "done", "failing"}, attempt: 0..MaxAttempts]

NoTask == [at |-> "none", attempt |-> 0]

JobsTypeOK ==
  /\ row \in [Job -> Row]
  /\ task \in [Worker -> [Job -> Task]]
  /\ alive \subseteq Worker
  /\ \A w \in Worker \ alive, j \in Job : task[w][j] = NoTask
-----------------------------------------------------------------------------
(* DurableMarketReplayJobStore: the rows the statements match, and what     *)
(* they make of them.                                                       *)
(* Plausible bug: only what was queued is found again. *)
RecoverableQueued(r) == r.status = "queued"

Recoverable(r) ==
  r.status = "queued" \/ (r.status = "running" /\ (r.lease = "none" \/ r.lease = "expired"))

Claimed(r, w) ==
  [r EXCEPT !.status = "running", !.owner = {w}, !.lease = "valid", !.attempts = @ + 1]

(* Plausible bug: the owner of the row is not compared. *)
OwnedByAnyone(r, w) == r.status = "running"

Owned(r, w) == r.status = "running" /\ r.owner = {w}

Released(r, status) == [r EXCEPT !.status = status, !.owner = {}, !.lease = "none"]

Completed(r, attempt) == [Released(r, "completed") EXCEPT !.result = attempt]

Requeued(r) == Released(r, "queued")
-----------------------------------------------------------------------------
Becomes(w, j, at) == task' = [task EXCEPT ![w][j].at = at]
Gone(w, j) == task' = [task EXCEPT ![w][j] = NoTask]

(* create, and the task that is scheduled with it; an Invalid row has been  *)
(* queued by a version that could read it.                                  *)
Create(w, j) ==
  /\ w \in alive
  /\ row[j].status = "absent"
  /\ row' = [row EXCEPT ![j].status = "queued"]
  /\ IF j \in Invalid THEN UNCHANGED task ELSE Becomes(w, j, "scheduled")
  /\ UNCHANGED alive

(* recoverable and _schedule: one task for each job of a process.           *)
Sweep(w, j) ==
  /\ w \in alive
  /\ Recoverable(row[j]) /\ j \notin Invalid
  /\ task[w][j].at = "none"
  /\ Becomes(w, j, "scheduled")
  /\ UNCHANGED <<row, alive>>

(* claim, by the task or by the sweep that fails an unreadable request.     *)
Claiming(w, j) ==
  /\ w \in alive
  /\ \/ task[w][j].at = "scheduled"
     \/ j \in Invalid /\ task[w][j].at = "none" /\ Recoverable(row[j])

Claim(w, j) ==
  /\ Claiming(w, j)
  /\ IF Recoverable(row[j])
     THEN /\ row[j].attempts < MaxAttempts
          /\ row' = [row EXCEPT ![j] = Claimed(@, w)]
          /\ task' = [task EXCEPT ![w][j] =
               [at |-> IF j \in Invalid THEN "failing" ELSE "working",
                attempt |-> row[j].attempts + 1]]
     ELSE Gone(w, j) /\ UNCHANGED row
  /\ UNCHANGED alive

(* The database fails: after the commit, a claimed row has nobody at work.  *)
ClaimErrs(w, j) ==
  /\ Claiming(w, j)
  /\ \/ UNCHANGED row
     \/ /\ Recoverable(row[j]) /\ row[j].attempts + 1 < MaxAttempts
        /\ row' = [row EXCEPT ![j] = Claimed(@, w)]
  /\ Gone(w, j)
  /\ UNCHANGED alive

(* heartbeat and progress: the lease is renewed, expired or not, while the  *)
(* row is the worker's; a lost lease ends the task, a database error fails  *)
(* the job.                                                                 *)
Heartbeat(w, j) ==
  /\ task[w][j].at = "working"
  /\ \/ /\ Owned(row[j], w)
        /\ row' = [row EXCEPT ![j].lease = "valid"]
        /\ UNCHANGED task
     \/ ~Owned(row[j], w) /\ Gone(w, j) /\ UNCHANGED row
     \/ Becomes(w, j, "failing") /\ UNCHANGED row
  /\ UNCHANGED alive

(* The computation ends, well or with an error.                             *)
Finish(w, j) ==
  /\ task[w][j].at = "working"
  /\ Becomes(w, j, "done") \/ Becomes(w, j, "failing")
  /\ UNCHANGED <<row, alive>>

(* complete: an error, before or after its commit, goes on to fail.         *)
Complete(w, j) ==
  /\ task[w][j].at = "done"
  /\ \/ /\ Owned(row[j], w)
        /\ row' = [row EXCEPT ![j] = Completed(@, task[w][j].attempt)]
        /\ Gone(w, j) \/ Becomes(w, j, "failing")
     \/ ~Owned(row[j], w) /\ Gone(w, j) /\ UNCHANGED row
     \/ Becomes(w, j, "failing") /\ UNCHANGED row
  /\ UNCHANGED alive

(* fail, which may itself not reach the database.                           *)
FailJob(w, j) ==
  /\ task[w][j].at = "failing"
  /\ \/ Owned(row[j], w) /\ row' = [row EXCEPT ![j] = Released(@, "failed")]
     \/ (Owned(row[j], w) => row[j].attempts < MaxAttempts) /\ UNCHANGED row
  /\ Gone(w, j)
  /\ UNCHANGED alive

(* A shutdown cancels the tasks; those at work requeue their rows, if they  *)
(* still reach the database: a crash requeues nothing.                      *)
Leave(w) ==
  /\ w \in alive
  /\ \A j \in Job : Owned(row[j], w) => row[j].attempts < MaxAttempts
  /\ alive' = alive \ {w}
  /\ task' = [task EXCEPT ![w] = [j \in Job |-> NoTask]]
  /\ \E back \in SUBSET {j \in Job : task[w][j].at \in {"working", "done"}
                                     /\ Owned(row[j], w)} :
       row' = [j \in Job |-> IF j \in back THEN Requeued(row[j]) ELSE row[j]]

(* A new process has a new id: what an old one owned is nobody's.           *)
Come(w) ==
  /\ w \notin alive
  /\ alive' = alive \cup {w}
  /\ row' = [j \in Job |-> IF row[j].owner = {w} THEN [row[j] EXCEPT !.owner = {}] ELSE row[j]]
  /\ UNCHANGED task

(* The lease runs out: its worker is slow, or no longer there.              *)
Expire(j) ==
  /\ row[j].lease = "valid"
  /\ row[j].attempts < MaxAttempts
  /\ row' = [row EXCEPT ![j].lease = "expired"]
  /\ UNCHANGED <<task, alive>>
-----------------------------------------------------------------------------
JobsInit ==
  /\ row = [j \in Job |-> [status |-> "absent", owner |-> {}, lease |-> "none",
                           attempts |-> 0, result |-> 0]]
  /\ task = [w \in Worker |-> [j \in Job |-> NoTask]]
  /\ alive = Worker

JobsNext ==
  \/ \E w \in Worker, j \in Job :
       \/ Create(w, j) \/ Sweep(w, j) \/ Claim(w, j) \/ ClaimErrs(w, j) \/ Heartbeat(w, j)
       \/ Finish(w, j) \/ Complete(w, j) \/ FailJob(w, j)
  \/ \E w \in Worker : Leave(w) \/ Come(w)
  \/ \E j \in Job : Expire(j)

(* The recovery sweep of some process runs again and again, and not every   *)
(* claim fails; a computation ends; an abandoned lease expires; a stopped   *)
(* process is started again.  The last permitted attempt is not disturbed.  *)
Work(w, j) == Finish(w, j) \/ Complete(w, j) \/ FailJob(w, j)

JobsFairness ==
  \A j \in Job :
    /\ SF_jobs(\E w \in Worker : Sweep(w, j))
    /\ SF_jobs(\E w \in Worker : Claim(w, j))
    /\ \A w \in Worker : WF_jobs(Work(w, j))
    /\ WF_jobs(\E w \in Worker : Come(w))
    /\ WF_jobs(Expire(j))

JobsSpec == JobsInit /\ [][JobsNext]_jobs /\ JobsFairness
-----------------------------------------------------------------------------
(* What is stored as the result was computed under the claim the row was    *)
(* last given, and a job that ended stays as it ended: a worker whose lease *)
(* was taken over neither overwrites nor revives it. *)
ResultIsTheOwners ==
  [][\A j \in Job :
       /\ row'[j].result # row[j].result => row'[j].result = row[j].attempts
       /\ row[j].status \in {"completed", "failed"} => row'[j] = row[j]]_jobs

(* A job that was accepted is completed or failed in the end. *)
JobsEnd ==
  \A j \in Job : (row[j].status = "queued") ~> (row[j].status \in {"completed", "failed"})

(* Two workers may compute one job, but only one of them holds its row. *)
OneOwner ==
  \A j \in Job : \A v, w \in alive :
    /\ task[v][j].attempt = task[w][j].attempt /\ task[v][j].attempt > 0 => v = w
    /\ Owned(row[j], w) /\ task[w][j].attempt > 0 => task[w][j].attempt = row[j].attempts
=============================================================================
