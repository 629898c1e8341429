-------------------------- MODULE RecoveryEvidence --------------------------
(***************************************************************************)
(* evaluate_recovery_report (src/runner.rs): what the adapter concludes    *)
(* from a supervisor's receipt, which encloses the report of one launch.   *)
(* The supervisor is external: it starts from a receipt with full evidence *)
(* and departs from it, one value at a time.                               *)
(*                                                                         *)
(* "facts" holds the keys of the receipt whose value is the one that the   *)
(* evaluator asks for, true in most cases; keys of the launch report       *)
(* start with raw, those of a nested observation with obs.                 *)
(***************************************************************************)
EXTENDS EvidenceMarkers, Sequences, SequencesExt

CONSTANTS
    Outputs,     \* output paths
    Pids,        \* process ids
    Exits,       \* exit statuses of the worker; 0 among them
    MaxChanges   \* bound: how many values depart from full evidence

ASSUME RecoveryAssumption == Pids \subseteq Nat \ {0}

VARIABLES
    receipt,  \* the parsed receipt
    parsed,   \* whether the bytes were JSON
    exit,     \* the worker's exit status
    changes   \* departures so far

vars == <<receipt, parsed, exit, changes>>

\* The request: its target, and its output as the receipt repeats it.
Requests == [target_major : Targets, output : Outputs]

\* The keys that identify the receipt and the launch; the schemas, the kind
\* of machine and the boot mode are the expected ones.
EnvelopeKeys == {"schema", "canonical_output"}
LaunchKeys ==
    {"raw_schema", "identity_valid", "raw.schema", "raw.output", "raw.machine_type",
     "raw.personality", "raw.guest_os", "raw.boot_mode"}
RuntimeKeys ==
    {"process_inventory_complete", "runtime_pid_observed", "raw.runtime_started"}
CleanupKeys == {"cleanup.complete", "leader_reaped", "remaining_pids"}
Roles == {"RestoreTrustCache", "RestoreRamDisk", "RestoreDeviceTree",
          "RestoreKernelCache", "RestoreLogo"}
ProgressKeys ==
    {"raw.dfu_upload", "raw.ibec_ready", "raw.stage2.observed",
     "raw.sequence_sent", "raw.restore_integrity", "raw.bootx_acknowledged"}
Sources == {"raw", "obs"}
ObservationKeys ==
    [raw |-> {"raw.xnu_executed", "raw.macos_userspace_reached",
              "raw.guest_target_match"},
     obs |-> {"obs.xnu_executed", "obs.macos_userspace_reached",
              "obs.guest_target_match"}]
BootKeys == {"boot.xnu_executed", "boot.userspace", "boot.target_match"}
HandoffKeys ==
    {"handoff.schema", "handoff.valid", "handoff.mode", "claims.xnu_executed",
     "claims.macos_userspace_reached", "claims.macos_boot_verified"}
CompletionKeys ==
    {"launch_report.complete", "worker.completed", "worker.returncode",
     "deadline_kept", "not_cancelled", "input_integrity.unchanged",
     "raw.input_integrity", "raw.macos_boot_verified", "boot.macos_boot_verified"}
Required ==
    UNION {EnvelopeKeys, LaunchKeys, RuntimeKeys, CleanupKeys, ProgressKeys,
           Roles \ {"RestoreLogo"}, {"raw.xnu_executed", "raw.guest_target_match"},
           BootKeys, HandoffKeys, CompletionKeys}
Optional == {"RestoreLogo", "raw.stage2.started"}
Objections ==
    {"raw.error", "error", "error_not_a_string", "guest_panic", "stage2_panic",
     "post_bootx_panic"}

\* Who states a major in the receipt.
Statements == {"envelope", "raw.target", "handoff", "raw.kernel", "obs.kernel",
               "boot.kernel"}
KernelStatement == [raw |-> "raw.kernel", obs |-> "obs.kernel"]

\* "nested" tells whether the launch report has an observation of its own;
\* each source has a log of markers.

Null ==
    [facts |-> {}, majors |-> [s \in Statements |-> NotANumber],
     requested_output |-> "", worker |-> NotANumber, qemu |-> NotANumber,
     processes |-> <<>>, stage2 |-> NotANumber, nested |-> FALSE,
     log |-> [s \in Sources |-> [xnu |-> {}, userspace |-> {}]]]

-----------------------------------------------------------------------------
(* evaluate_recovery_report                                                *)

Holds(keys, r) == keys \subseteq r.facts
States(who, q, r) == \A s \in who : r.majors[s] = q.target_major

\* Mutant of Identity: the receipt's output is not compared with the request.
IdentityOfTarget(q, r) ==
    Holds(EnvelopeKeys, r) /\ States({"envelope"}, q, r)

Identity(q, r) ==
    /\ Holds(EnvelopeKeys, r)
    /\ States({"envelope"}, q, r)
    /\ r.requested_output = q.output

LaunchIdentity(q, r) ==
    Identity(q, r) /\ Holds(LaunchKeys, r) /\ States({"raw.target"}, q, r)

\* Mutant of OneProcess: any sighting of the pid will do.
OneProcessAny(r) ==
    \E i \in DOMAIN r.processes :
        /\ r.processes[i].pid = r.qemu
        /\ r.processes[i].session = r.worker
        /\ r.processes[i].starttime > 0

\* The inventory has the process once, in the worker's session.
OneProcess(r) ==
    \E i \in DOMAIN r.processes :
        /\ {j \in DOMAIN r.processes : r.processes[j].pid = r.qemu} = {i}
        /\ r.processes[i].session = r.worker
        /\ r.processes[i].starttime > 0

RuntimePidObserved(r) ==
    /\ {r.worker, r.qemu} \subseteq Pids
    /\ r.worker # r.qemu
    /\ OneProcess(r)

Runtime(q, r) ==
    /\ LaunchIdentity(q, r)
    /\ Holds(RuntimeKeys, r)
    /\ RuntimePidObserved(r)

Cleanup(q, r) == Identity(q, r) /\ Holds(CleanupKeys, r)
Terminated(q, r) == Runtime(q, r) /\ Cleanup(q, r)
Intact(q, r) == Identity(q, r) /\ "input_integrity.unchanged" \in r.facts

NoProgress ==
    [dfu_upload_completed |-> FALSE, ibec_endpoint_advertised |-> FALSE,
     stage2_banner_observed |-> FALSE, stage2_prompt_observed |-> FALSE,
     restore_sequence_sent |-> FALSE, restore_role_step_count |-> 0,
     bootx_acknowledged |-> FALSE, firmware_panic_observed |-> FALSE]

ProgressOf(r) ==
    [dfu_upload_completed |-> "raw.dfu_upload" \in r.facts,
     ibec_endpoint_advertised |-> "raw.ibec_ready" \in r.facts,
     stage2_banner_observed |-> "raw.stage2.started" \in r.facts,
     stage2_prompt_observed |->
        "raw.stage2.observed" \in r.facts /\ r.stage2 # NotANumber,
     restore_sequence_sent |->
        /\ Holds({"raw.sequence_sent", "raw.restore_integrity"}, r)
        /\ Holds(Roles \ {"RestoreLogo"}, r),
     restore_role_step_count |-> Cardinality(Roles \cap r.facts),
     bootx_acknowledged |-> "raw.bootx_acknowledged" \in r.facts,
     firmware_panic_observed |->
        r.facts \cap {"guest_panic", "stage2_panic", "post_bootx_panic"} # {}]

\* Progress is reported only of a runtime that this request's worker ran.
Progress(q, r) == IF Runtime(q, r) THEN ProgressOf(r) ELSE NoProgress

\* All marker and major claims are those of one observation.
Source(r) == IF r.nested THEN "obs" ELSE "raw"
Observed(key, r) == (Source(r) \o "." \o key) \in r.facts

\* Mutant of Log: the markers of both sources are put together.
LogOfBoth(r) ==
    [xnu |-> r.log["raw"].xnu \cup r.log["obs"].xnu,
     userspace |-> r.log["raw"].userspace \cup r.log["obs"].userspace]

Log(r) == r.log[Source(r)]

TargetXnuOffset(q, r) == XnuOffset(Log(r).xnu, {q.target_major})

Xnu(q, r) ==
    /\ Runtime(q, r)
    /\ TargetXnuOffset(q, r) # NotANumber
    /\ Holds({"raw.xnu_executed", "boot.xnu_executed"}, r)
    /\ Observed("xnu_executed", r)

Userspace(q, r) ==
    /\ Xnu(q, r)
    /\ UserspaceOffset(Log(r).userspace, TargetXnuOffset(q, r)) # NotANumber
    /\ "boot.userspace" \in r.facts
    /\ Observed("macos_userspace_reached", r)

TargetMatch(q, r) ==
    /\ Xnu(q, r)
    /\ States({"raw.kernel", "boot.kernel", KernelStatement[Source(r)]}, q, r)
    /\ Holds({"raw.guest_target_match", "boot.target_match"}, r)
    /\ Observed("guest_target_match", r)

\* Mutant of Uncontradicted: the panic of the firmware is not looked at.
UncontradictedByErrors(q, r) == r.facts \cap {"raw.error", "error", "error_not_a_string"} = {}

\* No error and no panic of the firmware.
Uncontradicted(q, r) ==
    /\ r.facts \cap {"raw.error", "error", "error_not_a_string"} = {}
    /\ ~Progress(q, r).firmware_panic_observed

\* The stages of the launch, in the order of the log: the prompt of stage 2
\* lies before the first kernel marker.
Chain(q, r) ==
    LET p == Progress(q, r)
    IN  /\ p.dfu_upload_completed
        /\ p.ibec_endpoint_advertised
        /\ p.stage2_prompt_observed
        /\ p.restore_sequence_sent
        /\ p.bootx_acknowledged
        /\ r.stage2 < TargetXnuOffset(q, r)

Uninterrupted(r) == Holds({"deadline_kept", "not_cancelled"}, r)

Verified(q, r, code) ==
    /\ code = 0
    /\ Holds(CompletionKeys, r)
    /\ Terminated(q, r) /\ Intact(q, r)
    /\ Xnu(q, r) /\ Userspace(q, r) /\ TargetMatch(q, r)
    /\ Uncontradicted(q, r)
    /\ Holds(HandoffKeys, r) /\ States({"handoff"}, q, r)
    /\ Chain(q, r)

\* Mutant of Failure: the receipt's own error hides a missing cleanup.
FailureErrorFirst(q, r, json, code) ==
    IF Verified(q, r, code) THEN "none"
    ELSE IF ~json THEN "parse"
    ELSE IF r.facts \cap {"raw.error", "error", "blocker"} # {} THEN "reported"
    ELSE IF ~LaunchIdentity(q, r) THEN "identity"
    ELSE IF ~Runtime(q, r) THEN "runtime"
    ELSE IF ~Cleanup(q, r) THEN "cleanup"
    ELSE IF ~Intact(q, r) THEN "integrity"
    ELSE IF ~Uninterrupted(r) THEN "interrupted"
    ELSE "evidence"

\* The reason given; unlike a raw report's, the receipt's own error comes
\* after everything the adapter found out itself.
Failure(q, r, json, code) ==
    IF Verified(q, r, code) THEN "none"
    ELSE IF ~json THEN "parse"
    ELSE IF ~LaunchIdentity(q, r) THEN "identity"
    ELSE IF ~Runtime(q, r) THEN "runtime"
    ELSE IF ~Cleanup(q, r) THEN "cleanup"
    ELSE IF ~Intact(q, r) THEN "integrity"
    ELSE IF ~Uninterrupted(r) THEN "interrupted"
    ELSE IF r.facts \cap {"raw.error", "error", "blocker"} # {} THEN "reported"
    ELSE "evidence"

Received == IF parsed THEN receipt ELSE Null

EvaluateReport(q) ==
    [guest_runtime_started |-> Runtime(q, Received),
     guest_process_terminated |-> Terminated(q, Received),
     xnu_executed |-> Xnu(q, Received),
     macos_userspace_reached |-> Userspace(q, Received),
     guest_target_match |-> TargetMatch(q, Received),
     input_integrity |-> Intact(q, Received),
     macos_boot_verified |-> Verified(q, Received, exit),
     recovery_progress |-> Progress(q, Received),
     failure |-> Failure(q, Received, parsed, exit)]

-----------------------------------------------------------------------------
(* The supervisor's receipts.                                              *)

KernelMarker(offset, major) ==
    [known |-> TRUE, byte_offset |-> offset, kernel_major |-> major]
FullLog(q, k, u) ==
    [xnu |-> {KernelMarker(k, q.target_major)},
     userspace |-> {KernelMarker(u, NotANumber)}]

\* A process as the inventory records it.
Process == [pid : Pids, session : Pids, starttime : {0, 1}]

Full(q, stage2, k, u, nested, worker, qemu) ==
    [facts |-> Required \cup Optional \cup ObservationKeys["raw"]
               \cup (IF nested THEN ObservationKeys["obs"] ELSE {}),
     majors |-> [s \in Statements |->
                    IF s = "obs.kernel" /\ ~nested THEN NotANumber
                    ELSE q.target_major],
     requested_output |-> q.output, worker |-> worker, qemu |-> qemu,
     processes |-> <<[pid |-> worker, session |-> worker, starttime |-> 1],
                     [pid |-> qemu, session |-> worker, starttime |-> 1]>>,
     stage2 |-> stage2, nested |-> nested,
     log |-> [Null.log EXCEPT ![IF nested THEN "obs" ELSE "raw"] =
                                   FullLog(q, k, u)]]

Init ==
    /\ \E q \in Requests, s, k, u \in Offsets, nested \in BOOLEAN,
          worker, qemu \in Pids :
          /\ s < k /\ k < u /\ worker < qemu
          /\ receipt = Full(q, s, k, u, nested, worker, qemu)
    /\ parsed = TRUE
    /\ exit = 0
    /\ changes = 0

Change ==
    /\ parsed
    /\ changes < MaxChanges
    /\ changes' = changes + 1

Withdraw(keys) ==
    /\ Change
    /\ \E f \in keys \cap receipt.facts :
          receipt' = [receipt EXCEPT !.facts = @ \ {f}]
    /\ UNCHANGED <<parsed, exit>>

Object ==
    /\ Change
    /\ \E f \in Objections \cup {"blocker"} :
          receipt' = [receipt EXCEPT !.facts = @ \cup {f}]
    /\ UNCHANGED <<parsed, exit>>

\* A marker more, or less, in one of the logs.
LogMarker ==
    /\ Change
    /\ \E s \in Sources, m \in Marker :
          \/ receipt' = [receipt EXCEPT !.log[s].xnu = @ \cup {m}]
          \/ receipt' = [receipt EXCEPT !.log[s].userspace = @ \cup {m}]
          \/ m \in receipt.log[s].xnu
             /\ receipt' = [receipt EXCEPT !.log[s].xnu = @ \ {m}]
    /\ UNCHANGED <<parsed, exit>>

\* A process is recorded once more, or for the first time.
Sight ==
    /\ Change
    /\ \E p \in Process :
          receipt' = [receipt EXCEPT !.processes = Append(@, p)]
    /\ UNCHANGED <<parsed, exit>>

Mislabel ==
    /\ Change
    /\ \/ \E s \in Statements, n \in Majors \cup {NotANumber} :
             receipt' = [receipt EXCEPT !.majors[s] = n]
       \/ \E o \in Outputs : receipt' = [receipt EXCEPT !.requested_output = o]
       \/ \E p \in Pids \cup {NotANumber} :
             \/ receipt' = [receipt EXCEPT !.worker = p]
             \/ receipt' = [receipt EXCEPT !.qemu = p]
       \/ \E o \in Offsets \cup {NotANumber} :
             receipt' = [receipt EXCEPT !.stage2 = o]
       \/ receipt' = [receipt EXCEPT !.nested = ~@]
    /\ UNCHANGED <<parsed, exit>>

\* The supervisor fails, or its receipt is cut.
End ==
    /\ Change
    /\ \/ \E code \in Exits : exit' = code /\ UNCHANGED parsed
       \/ parsed' = FALSE /\ UNCHANGED exit
    /\ UNCHANGED receipt

Keys == Required \cup Optional \cup UNION {ObservationKeys[s] : s \in Sources}

Next == Withdraw(Keys) \/ Object \/ LogMarker \/ Sight \/ Mislabel \/ End

Spec == Init /\ [][Next]_vars

-----------------------------------------------------------------------------
(* Properties.                                                             *)

\* A receipt counts for one request only: no runtime, no progress and no
\* integrity is credited to a request for another target or another output.
CountsForOneRequest ==
    LET Credited(q) ==
            LET o == EvaluateReport(q)
            IN  \/ o.guest_runtime_started
                \/ o.input_integrity
                \/ o.recovery_progress # NoProgress
    IN  Cardinality({q \in Requests : Credited(q)}) <= 1

\* A verified boot shows its stages in order in a single observation: the
\* prompt before every kernel marker of the target, and a userspace marker
\* after one.
CausalChain ==
    \A q \in Requests :
        EvaluateReport(q).macos_boot_verified =>
            LET log == receipt.log[IF receipt.nested THEN "obs" ELSE "raw"]
                kernel == {m \in log.xnu :
                              /\ m.known
                              /\ m.kernel_major = q.target_major
                              /\ m.byte_offset \in Offsets}
            IN  /\ \A k \in kernel : receipt.stage2 < k.byte_offset
                /\ \E k \in kernel, u \in log.userspace :
                      u.known /\ k.byte_offset < u.byte_offset

\* Two records of one process id are reuse of the id: a runtime that rested on
\* the first is no longer credited, neither are the boot and the termination.
SecondSightingRevokes ==
    [][(/\ Sight
        /\ receipt.qemu \in {receipt.processes[i].pid :
                                i \in DOMAIN receipt.processes}
        /\ Last(receipt'.processes).pid = receipt.qemu)
       => \A q \in Requests : ~EvaluateReport(q).guest_runtime_started']_vars

\* No part of the evidence stands in for another one: without any single
\* required part, or with any error or panic, the boot is not verified.
EveryPartCounts ==
    [][Withdraw(Required) \/ (Object /\ receipt'.facts \cap Objections # {})
       => \A q \in Requests : ~EvaluateReport(q).macos_boot_verified']_vars

\* The layers of the evidence, in the order in which a gap is reported.
Layers == <<"parse", "identity", "runtime", "cleanup", "integrity",
            "interrupted", "reported", "evidence">>

\* The reason is the first layer that is missing, of the layers as the outcome
\* itself shows them: a reader of the reason may rely on all layers before it,
\* and what the supervisor says of itself never hides that its guest may still
\* run, that the inputs may be changed or that the run was cut short.
ReasonIsFirstFailure ==
    \A q \in Requests :
        LET o == EvaluateReport(q)
            shown == [parse |-> parsed,
                      identity |-> LaunchIdentity(q, Received),
                      runtime |-> o.guest_runtime_started,
                      cleanup |-> o.guest_process_terminated,
                      integrity |-> o.input_integrity,
                      interrupted |-> Uninterrupted(Received),
                      reported |-> Received.facts
                                      \cap {"raw.error", "error", "blocker"} = {},
                      evidence |-> o.macos_boot_verified]
            Missing == {i \in DOMAIN Layers : ~shown[Layers[i]]}
        IN  IF o.macos_boot_verified
            THEN o.failure = "none"
            ELSE \E i \in Missing :
                    o.failure = Layers[i] /\ \A j \in Missing : i <= j

=============================================================================
