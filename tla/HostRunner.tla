----------------------------- MODULE HostRunner -----------------------------
(***************************************************************************)
(* RunnerRequest::run (src/runner.rs): a host process records what it is   *)
(* about to do in a new receipt directory, starts the worker, waits for    *)
(* it, reads its report and records the verdict.  Every system call is a   *)
(* step of its own that may fail; the host process may die between any     *)
(* two of them.  Several runs, of one program or of several, may be given  *)
(* the same directory: a retry of a run that died is one of them.          *)
(*                                                                         *)
(* The worker and the processes it leaves behind are external.  A report   *)
(* is a sequence of units: 1..DocSize is a complete JSON document, 0 is    *)
(* any other text.  What a document says is the matter of BootEvidence     *)
(* and RecoveryEvidence; here it may or may not verify the boot.  Output   *)
(* has no end: behind its first MaxReport units, which are more than       *)
(* either limit retains, only whether any waits to be read is kept.        *)
(***************************************************************************)
EXTENDS RunnerRequest, Sequences, SequencesExt

CONSTANTS
    Runs,           \* calls of run
    Dirs,           \* directories they may be given
    Requests,       \* what they may be asked for
    NoRun,          \* the owner of a directory that does not exist
    DocSize,        \* the units of a complete report
    ReportLimit,    \* MAX_REPORT_BYTES
    RecoveryLimit,  \* MAX_RECOVERY_REPORT_BYTES
    MaxReport       \* bound: the units of a report whose content is modelled

ASSUME RunnerAssumption ==
    /\ NoRun \notin Runs
    /\ Requests \subseteq RunnerRequestType(Dirs)
    /\ DocSize \in Nat \ {0}
    /\ {ReportLimit, RecoveryLimit, MaxReport} \subseteq Nat
    /\ MaxReport > ReportLimit /\ MaxReport > RecoveryLimit

VARIABLES
    pc,       \* where each run stands: a step and the receipt it is about
    request,  \* what each run was asked for
    owner,    \* which run created each directory
    files,    \* the receipts of each directory: their writer, complete or not
    report,   \* the first units of each directory's worker.stdout.json
    excess,   \* whether more is behind them that was not read yet
    worker,   \* the worker of each run
    status,   \* its exit status
    pid_record, \* whether runner.pid was written
    bytes,    \* the report as retained by read_report
    hashed,   \* the report as fed to the hasher
    outcome,  \* the RunOutcome
    result    \* what run returned

hostVars == <<bytes, hashed, outcome, pid_record>>
workVars == <<report, excess, worker, status>>
vars == <<pc, request, owner, files, report, excess, worker, status,
          pid_record, bytes, hashed, outcome, result>>

Receipts == {"request.json", "invocation.json", "worker.stdout.json",
             "worker.stderr.log", "spawn-error.json", "adapter.json",
             "runner.pid"}
Steps == {"invocation", "create_dir", "create", "write", "spawn", "pid",
          "wait", "read", "evaluate", "returned", "died"}
Exits == {"0", "2", "signal"}

At(step) == <<step, "">>
Dir(r) == request[r].host_receipt_dir
Document == [i \in 1..DocSize |-> i]

NoFile == [by |-> NoRun, whole |-> FALSE]
NoOutcome == [exit |-> "none", parsed |-> FALSE, verified |-> FALSE, hash |-> <<>>]
File(d, f) == files[d][f]

Init ==
    /\ pc = [r \in Runs |-> At("invocation")]
    /\ request \in [Runs -> Requests]
    /\ owner = [d \in Dirs |-> NoRun]
    /\ files = [d \in Dirs |-> [f \in Receipts |-> NoFile]]
    /\ report = [d \in Dirs |-> <<>>]
    /\ excess = [d \in Dirs |-> FALSE]
    /\ worker = [r \in Runs |-> "none"]
    /\ status = [r \in Runs |-> "none"]
    /\ pid_record = [r \in Runs |-> FALSE]
    /\ bytes = [r \in Runs |-> <<>>]
    /\ hashed = [r \in Runs |-> <<>>]
    /\ outcome = [r \in Runs |-> NoOutcome]
    /\ result = [r \in Runs |-> "none"]

Goto(r, place) == pc' = [pc EXCEPT ![r] = place] /\ UNCHANGED result

Return(r, value) ==
    /\ pc' = [pc EXCEPT ![r] = At("returned")]
    /\ result' = [result EXCEPT ![r] = value]

-----------------------------------------------------------------------------
(* Before the worker.                                                      *)

Invoke(r) ==
    /\ pc[r] = At("invocation")
    /\ IF InvocationError(request[r]) = "ok"
       THEN Goto(r, At("create_dir"))
       ELSE Return(r, InvocationError(request[r]))
    /\ UNCHANGED <<request, owner, files, workVars, hostVars>>

\* Mutant of CreateDir: an existing directory is good enough.
CreateDirAll(r) ==
    /\ pc[r] = At("create_dir")
    /\ owner' = [owner EXCEPT ![Dir(r)] = IF @ = NoRun THEN r ELSE @]
    /\ Goto(r, <<"create", "request.json">>)
    /\ UNCHANGED <<request, files, workVars, hostVars>>

\* fs::create_dir: exactly one run creates the directory.
CreateDir(r) ==
    /\ pc[r] = At("create_dir")
    /\ IF owner[Dir(r)] = NoRun
       THEN /\ owner' = [owner EXCEPT ![Dir(r)] = r]
            /\ Goto(r, <<"create", "request.json">>)
       ELSE Return(r, "Io") /\ UNCHANGED owner
    /\ UNCHANGED <<request, files, workVars, hostVars>>

SetFile(r, f, whole) ==
    files' = [files EXCEPT ![Dir(r)][f] = [by |-> r, whole |-> whole]]

\* What a run does when a receipt is complete.
Continue(r, f) ==
    CASE f = "request.json" -> Goto(r, <<"create", "invocation.json">>)
      [] f = "invocation.json" -> Goto(r, <<"create", "worker.stdout.json">>)
      [] f = "worker.stdout.json" -> Goto(r, <<"create", "worker.stderr.log">>)
      [] f = "worker.stderr.log" -> Goto(r, At("spawn"))
      [] f = "spawn-error.json" -> Return(r, "Io")
      [] f = "adapter.json" -> Return(r, "ok")

Streams == {"worker.stdout.json", "worker.stderr.log"}

\* create_new, which fails on an existing file.
Create(r) ==
    \E f \in Receipts :
        /\ pc[r] = <<"create", f>>
        /\ IF File(Dir(r), f) = NoFile
           THEN /\ SetFile(r, f, f \in Streams)
                /\ IF f \in Streams
                   THEN Continue(r, f)
                   ELSE Goto(r, <<"write", f>>)
           ELSE Return(r, "Io") /\ UNCHANGED files
        /\ UNCHANGED <<request, owner, workVars, hostVars>>

\* Mutant of Write: a failed write is not reported.
WriteUnchecked(r) ==
    \E f \in Receipts :
        /\ pc[r] = <<"write", f>>
        /\ \E whole \in BOOLEAN : SetFile(r, f, whole)
        /\ Continue(r, f)
        /\ UNCHANGED <<request, owner, workVars, hostVars>>

\* The rest of write_new_json.
Write(r) ==
    \E f \in Receipts :
        /\ pc[r] = <<"write", f>>
        /\ SetFile(r, f, TRUE)
        /\ Continue(r, f)
        /\ UNCHANGED <<request, owner, workVars, hostVars>>

Spawn(r) ==
    /\ pc[r] = At("spawn")
    /\ \/ /\ worker' = [worker EXCEPT ![r] = "running"]
          /\ Goto(r, At("pid"))
       \/ Goto(r, <<"create", "spawn-error.json">>) /\ UNCHANGED worker
    /\ UNCHANGED <<request, owner, files, report, excess, status, hostVars>>

-----------------------------------------------------------------------------
(* While the worker lives.                                                 *)

\* Mutant of RecordPid: a pid that cannot be recorded ends the run.
RecordPidEagerly(r) ==
    /\ pc[r] = At("pid")
    /\ \E ok \in BOOLEAN :
          /\ SetFile(r, "runner.pid", ok)
          /\ pid_record' = [pid_record EXCEPT ![r] = ok]
          /\ IF ok THEN Goto(r, At("wait")) ELSE Return(r, "Io")
    /\ UNCHANGED <<request, owner, workVars, bytes, hashed, outcome>>

\* fs::write of runner.pid, over whatever is there; its error is kept for
\* later.
RecordPid(r) ==
    /\ pc[r] = At("pid")
    /\ \E ok \in BOOLEAN :
          /\ ok => SetFile(r, "runner.pid", TRUE)
          /\ ~ok => \/ SetFile(r, "runner.pid", FALSE)
                    \/ UNCHANGED files
          /\ pid_record' = [pid_record EXCEPT ![r] = ok]
    /\ Goto(r, At("wait"))
    /\ UNCHANGED <<request, owner, workVars, bytes, hashed, outcome>>

\* Mutant of Wait: the error kept by RecordPid is forgotten.
WaitForgetsPid(r) ==
    /\ pc[r] = At("wait")
    /\ worker[r] = "exited"
    /\ worker' = [worker EXCEPT ![r] = "reaped"]
    /\ Goto(r, At("read"))
    /\ UNCHANGED <<request, owner, files, report, excess, status, hostVars>>

\* child.wait(), which has no timeout, and the deferred pid_record?.
Wait(r) ==
    /\ pc[r] = At("wait")
    /\ worker[r] = "exited"
    /\ worker' = [worker EXCEPT ![r] = "reaped"]
    /\ IF pid_record[r] THEN Goto(r, At("read")) ELSE Return(r, "Io")
    /\ UNCHANGED <<request, owner, files, report, excess, status, hostVars>>

\* A unit reaches the report, or what is behind its first MaxReport units.
Emit(r, unit) ==
    /\ IF Len(report[Dir(r)]) < MaxReport
       THEN /\ report' = [report EXCEPT ![Dir(r)] = Append(@, unit)]
            /\ UNCHANGED excess
       ELSE /\ excess' = [excess EXCEPT ![Dir(r)] = TRUE]
            /\ UNCHANGED report
    /\ UNCHANGED <<pc, request, owner, files, worker, status, hostVars, result>>

\* The worker prints a unit of its report, or anything else.
WorkerPrints(r) ==
    /\ worker[r] = "running"
    /\ \E unit \in {0, Len(report[Dir(r)]) + 1} : unit \in 0..DocSize /\ Emit(r, unit)

\* A process the worker started and left behind still holds its stdout, and
\* may print to it for ever.
Linger(r) == worker[r] \in {"exited", "reaped"} /\ Emit(r, 0)

Exit(r) ==
    /\ worker[r] = "running"
    /\ worker' = [worker EXCEPT ![r] = "exited"]
    /\ \E code \in Exits : status' = [status EXCEPT ![r] = code]
    /\ UNCHANGED <<pc, request, owner, files, report, excess, hostVars, result>>

-----------------------------------------------------------------------------
(* The verdict.                                                            *)

Limit(r) == IF Recovery(request[r]) THEN RecoveryLimit ELSE ReportLimit

Take(chunk, n) == SubSeq(chunk, 1, IF n < Len(chunk) THEN n ELSE Len(chunk))

\* Mutant of Retain: no room for the unit that tells an oversized report.
RetainToLimit(r, chunk) ==
    bytes[r] \o Take(chunk, Limit(r) - Len(bytes[r]))

\* What read_report keeps of a chunk: at most one unit more than the limit.
Retain(r, chunk) == bytes[r] \o Take(chunk, Limit(r) + 1 - Len(bytes[r]))

Unread(r) == SubSeq(report[Dir(r)], Len(hashed[r]) + 1, Len(report[Dir(r)]))

\* Mutant of AtEnd: the length retained is compared with the length on disk.
AtEndBySize(r) == Len(bytes[r]) = Len(report[Dir(r)])

\* A read that returns nothing ends the loop.
AtEnd(r) == Unread(r) = <<>> /\ ~excess[Dir(r)]

\* What is behind the first units is past both limits: it is read, and none
\* of it is retained.
ReadExcess(r) ==
    /\ Unread(r) = <<>>
    /\ excess[Dir(r)]
    /\ excess' = [excess EXCEPT ![Dir(r)] = FALSE]
    /\ UNCHANGED <<pc, result, bytes, hashed>>

\* One turn of the loop of read_report; hashed is the part of its input that
\* the first units are.
Read(r) ==
    /\ pc[r] = At("read")
    /\ \/ /\ Unread(r) # <<>>
          /\ \E n \in 1..Len(Unread(r)) :
                LET chunk == SubSeq(Unread(r), 1, n)
                IN  /\ hashed' = [hashed EXCEPT ![r] = @ \o chunk]
                    /\ bytes' = [bytes EXCEPT ![r] = Retain(r, chunk)]
          /\ UNCHANGED <<pc, result, excess>>
       \/ ReadExcess(r)
       \/ /\ AtEnd(r)
          /\ Goto(r, At("evaluate"))
          /\ UNCHANGED <<bytes, hashed, excess>>
    /\ UNCHANGED <<request, owner, files, report, worker, status, outcome,
                   pid_record>>

\* The size check, serde_json::from_slice and evaluate_report.
Evaluate(r) ==
    /\ pc[r] = At("evaluate")
    /\ \E verified \in BOOLEAN :
          LET parsed == Len(bytes[r]) <= Limit(r) /\ bytes[r] = Document
          IN  /\ verified => parsed /\ status[r] = "0"
              /\ outcome' = [outcome EXCEPT ![r] =
                    [exit |-> status[r], parsed |-> parsed,
                     verified |-> verified, hash |-> hashed[r]]]
    /\ Goto(r, <<"create", "adapter.json">>)
    /\ UNCHANGED <<request, owner, files, workVars, bytes, hashed, pid_record>>

-----------------------------------------------------------------------------

\* A system call fails and run returns its error.  A file that was being
\* written stays in part; a worker that could not be waited for stays as it
\* is, and that error is told apart here from the others.
Fail(r) ==
    /\ \/ /\ pc[r][1] \in {"create_dir", "create", "read"}
          /\ Return(r, "Io")
       \/ /\ pc[r][1] = "write"
          /\ \E err \in {"Io", "Json"} : Return(r, err)
       \/ /\ pc[r] = At("wait")
          /\ Return(r, "WaitFailed")
    /\ UNCHANGED <<request, owner, files, workVars, hostVars>>

\* The host process dies; its worker does not.
Die(r) ==
    /\ pc[r] \notin {At("invocation"), At("returned"), At("died")}
    /\ pc' = [pc EXCEPT ![r] = At("died")]
    /\ UNCHANGED <<request, owner, files, workVars, hostVars, result>>

Step(r) ==
    \/ Invoke(r)
    \/ CreateDir(r)
    \/ Create(r)
    \/ Write(r)
    \/ Spawn(r)
    \/ RecordPid(r)
    \/ Wait(r)
    \/ Read(r)
    \/ Evaluate(r)

Next ==
    \E r \in Runs :
        \/ Step(r) \/ Fail(r) \/ Die(r)
        \/ WorkerPrints(r) \/ Linger(r) \/ Exit(r)

\* A run that can take a step takes it: run is straight-line code that waits
\* for nothing but its worker.  Nothing makes a worker end.
Fairness == \A r \in Runs : WF_vars(Step(r))

Spec == Init /\ [][Next]_vars /\ Fairness

-----------------------------------------------------------------------------
(* Properties.                                                             *)

TypeOK ==
    /\ pc \in [Runs -> Steps \X (Receipts \cup {""})]
    /\ request \in [Runs -> Requests]
    /\ owner \in [Dirs -> Runs \cup {NoRun}]
    /\ files \in [Dirs -> [Receipts -> [by : Runs \cup {NoRun}, whole : BOOLEAN]]]
    /\ report \in [Dirs -> Seq(0..DocSize)]
    /\ excess \in [Dirs -> BOOLEAN]
    /\ worker \in [Runs -> {"none", "running", "exited", "reaped"}]
    /\ status \in [Runs -> Exits \cup {"none"}]
    /\ pid_record \in [Runs -> BOOLEAN]
    /\ bytes \in [Runs -> Seq(0..DocSize)]
    /\ \A r \in Runs : Len(bytes[r]) <= Limit(r) + 1
    /\ hashed \in [Runs -> Seq(0..DocSize)]
    /\ outcome \in [Runs -> [exit : Exits \cup {"none"}, parsed : BOOLEAN,
                             verified : BOOLEAN, hash : Seq(0..DocSize)]]
    /\ result \in [Runs -> {"none", "ok", "InvalidRequest", "UnsupportedHost",
                            "overflow", "Io", "Json", "WaitFailed"}]

\* All receipts of a directory are of the one run that created it, whatever
\* other runs were given the directory, and whichever of them died on the way:
\* two runs are never mixed into one record.
OwnReceipts ==
    \A d \in Dirs, f \in Receipts : File(d, f).by \in {owner[d], NoRun}

Whole(r, f) == File(Dir(r), f) = [by |-> r, whole |-> TRUE]

\* A worker never runs without a complete record of what was asked and of the
\* command that was started, in a directory of its own run.
RecordedBeforeStart ==
    \A r \in Runs : worker[r] # "none" =>
        /\ owner[Dir(r)] = r
        /\ Whole(r, "request.json")
        /\ Whole(r, "invocation.json")

\* "This adapter never detaches them": run does not return while its worker
\* lives, not even when the pid cannot be recorded; only a failure of wait
\* itself leaves the worker behind.
NeverDetaches ==
    \A r \in Runs : pc[r] = At("returned") /\ result[r] # "WaitFailed" =>
        worker[r] \in {"none", "reaped"}

\* The verdict, the hash and the retained report are of the same bytes: what
\* parsed is hashed in full, within the limit, and was on disk; and a report
\* verifies only behind a zero exit status of the worker of this run.
VerdictOfHashedBytes ==
    \A r \in Runs : outcome[r] # NoOutcome =>
        /\ worker[r] = "reaped"
        /\ outcome[r].exit = status[r]
        /\ IsPrefix(outcome[r].hash, report[Dir(r)])
        /\ outcome[r].parsed =>
              outcome[r].hash = Document /\ DocSize <= Limit(r)
        /\ outcome[r].verified => outcome[r].parsed /\ status[r] = "0"

\* A returned outcome is on record, with the pid, the request and the command,
\* even if the worker rejected its input; and no directory holds both a
\* verdict and an error of the start.
OutcomeOnRecord ==
    \A r \in Runs :
        /\ result[r] = "ok" =>
              \A f \in Receipts \ {"spawn-error.json"} : Whole(r, f)
        /\ File(Dir(r), "spawn-error.json") # NoFile =>
              File(Dir(r), "adapter.json") = NoFile

\* A recovery worker that is started has its observation and its cleanup
\* within its total deadline, and no request overflows their sum.
WithinDeadline ==
    \A r \in Runs :
        /\ result[r] # "overflow"
        /\ worker[r] # "none" /\ Recovery(request[r]) =>
              /\ request[r].duration_secs + Grace < request[r].total_timeout_secs
              /\ request[r].total_timeout_secs <= MaxSeconds

\* Nothing bounds what is left behind a worker: read_report reads until a
\* read returns nothing, so run ends only if that output does.
OutputEnds(r) == <>[][~Linger(r)]_vars

\* run waits for its worker and for the end of the output behind it, and for
\* nothing else: once the worker has ended, and if what it left behind stops
\* printing, run returns or dies.  Without that, it may read for ever.
ReturnsAfterWorker ==
    \A r \in Runs : OutputEnds(r) =>
        (worker[r] = "exited" ~> pc[r] \in {At("returned"), At("died")})

-----------------------------------------------------------------------------
(* What the caller sees (examples/run_host.rs), and the service.           *)

\* Mutant of ExitCode: a run that completed is a success.
ExitCodeOfCompletion(r) ==
    IF result[r] = "none" THEN "none" ELSE IF result[r] = "ok" THEN "0" ELSE "2"

\* Zero only for an outcome whose macos_boot_verified is set.
ExitCode(r) ==
    IF result[r] = "none" THEN "none"
    ELSE IF result[r] = "ok" /\ outcome[r].verified THEN "0"
    ELSE "2"

ServiceWorker(r) ==
    IF worker[r] \in {"none", "running"} THEN worker[r]
    ELSE IF status[r] = "0" THEN "succeeded" ELSE "failed"

ServiceEnd(r) ==
    IF pc[r] = At("died") THEN "died"
    ELSE IF result[r] = "WaitFailed" THEN "lost"
    ELSE ExitCode(r)

Service == INSTANCE RunnerService WITH
    place <- [r \in Runs |-> Dir(r)],
    claim <- owner,
    worker <- [r \in Runs |-> ServiceWorker(r)],
    end <- [r \in Runs |-> ServiceEnd(r)]

\* Whatever fails and whoever dies, the runs given a directory start at most
\* one worker between them and no caller is told of success that the worker
\* did not have; and a caller whose worker ends is answered, provided that
\* what the worker left behind stops printing.
ImplementsService ==
    /\ Service!Safety
    /\ \A r \in Runs : OutputEnds(r) => Service!Answers(r)

=============================================================================
