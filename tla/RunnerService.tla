--------------------------- MODULE RunnerService ---------------------------
(***************************************************************************)
(* What a host run promises to those who start runs and read their exit    *)
(* codes (RunnerRequest::run of src/runner.rs behind examples/run_host.rs),*)
(* without receipts, reports and system calls: a directory starts at most  *)
(* one worker in its life, exit code 0 follows only a worker that ended    *)
(* with success, and a call whose worker ends comes to an end itself.  The *)
(* last is a promise to each call apart, because a run makes it only while *)
(* what its worker leaves behind does not print for ever.                  *)
(***************************************************************************)

CONSTANTS Runs, Dirs, NoRun

VARIABLES
    place,   \* the directory each run was given
    claim,   \* the run that has each directory
    worker,  \* the worker of each run: none, running, succeeded or failed
    end      \* how each run ended: exit code, "died", "lost", or not yet

vars == <<place, claim, worker, end>>

Init ==
    /\ place \in [Runs -> Dirs]
    /\ claim = [d \in Dirs |-> NoRun]
    /\ worker = [r \in Runs |-> "none"]
    /\ end = [r \in Runs |-> "none"]

Over(r) == worker[r] \in {"succeeded", "failed"}

Claim(r) ==
    /\ end[r] = "none"
    /\ claim[place[r]] = NoRun
    /\ claim' = [claim EXCEPT ![place[r]] = r]
    /\ UNCHANGED <<place, worker, end>>

\* The one worker of the directory.
Start(r) ==
    /\ end[r] = "none"
    /\ claim[place[r]] = r
    /\ worker[r] = "none"
    /\ worker' = [worker EXCEPT ![r] = "running"]
    /\ UNCHANGED <<place, claim, end>>

\* A worker ends when it likes, its host alive or not.
WorkerEnds(r) ==
    /\ worker[r] = "running"
    /\ \E w \in {"succeeded", "failed"} : worker' = [worker EXCEPT ![r] = w]
    /\ UNCHANGED <<place, claim, end>>

Finish(r, code) ==
    /\ end[r] = "none"
    /\ end' = [end EXCEPT ![r] = code]
    /\ UNCHANGED <<place, claim, worker>>

\* An error before there is a worker.
Refuse(r) == worker[r] = "none" /\ Finish(r, "2")

\* An error, or a boot that is not verified, or a verified one.
Answer(r) ==
    \/ Over(r) /\ Finish(r, "2")
    \/ worker[r] = "succeeded" /\ Finish(r, "0")

\* The host dies, or cannot wait for its worker.
Die(r) == Finish(r, "died")
Lose(r) == worker[r] # "none" /\ Finish(r, "lost")

Next ==
    \E r \in Runs :
        \/ Claim(r) \/ Start(r) \/ WorkerEnds(r)
        \/ Refuse(r) \/ Answer(r) \/ Die(r) \/ Lose(r)

Safety == Init /\ [][Next]_vars

\* The call does not outlive its worker for ever.
Answers(r) == WF_vars(Answer(r))

Spec == Safety /\ \A r \in Runs : Answers(r)

=============================================================================
