----------------------------- MODULE JobRunner -----------------------------
(***************************************************************************)
(* jobs/_runner.py under Cloud Run Jobs (infra/cloud_run_jobs.tf): one     *)
(* process works through the target users, each in a session of its own,   *)
(* goes on after a failure, and ends with exit code 1 if anything failed;  *)
(* a process that fails or is killed is started again MaxRetries times.    *)
(***************************************************************************)
EXTENDS Integers, FiniteSets

CONSTANTS Users, MaxRetries

ASSUME RunnerAssumption == MaxRetries \in Nat /\ IsFiniteSet(Users)

VARIABLE job

NoJob ==
    [pc |-> "off", attempt |-> 0, targets |-> {}, left |-> {}, user |-> "none",
     failures |-> 0, failedSymbols |-> {}]

\* _fetch_target_users, in a session that is closed at once.
Fetched(targets, attempt) ==
    [pc |-> "choose", attempt |-> attempt, targets |-> targets, left |-> targets,
     user |-> "none", failures |-> 0, failedSymbols |-> {}]

\* Cloud Scheduler starts the job; it waits for no answer and does not retry.
StartJob(targets) ==
    /\ job.pc \in {"off", "succeeded", "lost"}
    /\ job' = Fetched(targets, 1)

\* The rows of a query without ORDER BY come in any order.  TakeAgain forgets
\* that a user has been served.
TakeAgain ==
    /\ job.pc = "choose"
    /\ \E u \in job.left : job' = [job EXCEPT !.pc = "user", !.user = u]
TakeUser ==
    /\ job.pc = "choose"
    /\ \E u \in job.left :
        job' = [job EXCEPT !.pc = "user", !.user = u, !.left = @ \ {u}]

\* The end of the action of a user, by its result or by an exception.
UserDone(succeeded, symbols) ==
    job' = [job EXCEPT !.pc = "choose", !.user = "none",
                       !.failures = IF succeeded THEN @ ELSE @ + 1,
                       !.failedSymbols = @ \union symbols]

\* run_job's exit code.  ExitByUsers looks only at the failures of users.
ExitByUsers == IF job.failures > 0 THEN "failed" ELSE "succeeded"
ExitCode ==
    IF job.failures > 0 \/ job.failedSymbols # {} THEN "failed" ELSE "succeeded"

ExitJob ==
    /\ job.pc = "choose" /\ job.left = {}
    /\ job' = [job EXCEPT !.pc = ExitCode]

\* The timeout of the task, or the loss of its container.
KillJob ==
    /\ job.pc \in {"choose", "user"}
    /\ job' = [job EXCEPT !.pc = "killed", !.user = "none"]

\* A retry starts from nothing: the users are fetched again, all of them.
RetryForever(targets) ==
    /\ job.pc \in {"failed", "killed"}
    /\ job' = Fetched(targets, job.attempt)
RetryJob(targets) ==
    /\ job.pc \in {"failed", "killed"}
    /\ job' = IF job.attempt <= MaxRetries THEN Fetched(targets, job.attempt + 1)
              ELSE [job EXCEPT !.pc = "lost"]

JobOver == job.pc \in {"off", "succeeded", "lost"}

=============================================================================
