---------------------------- MODULE BootEvidence ----------------------------
(***************************************************************************)
(* evaluate_report (src/runner.rs) for the native and raw TCG backends:    *)
(* what the adapter concludes from a worker's report.  The worker is       *)
(* external: it starts from a report with full evidence and departs from   *)
(* it, one value at a time.  A JSON value is present with the type that    *)
(* the evaluator asks for, or it is not; "facts" holds the keys whose      *)
(* value is true (returncode: a number; termination: a nonempty string;    *)
(* error and blocker: a string; error_not_a_string: any other error).      *)
(***************************************************************************)
EXTENDS EvidenceMarkers

CONSTANTS
    Exits,       \* exit statuses of the worker; 0 among them
    MaxChanges   \* bound: how many values depart from full evidence

VARIABLES
    report,   \* the parsed report
    parsed,   \* whether the bytes were JSON
    exit,     \* the worker's exit status
    changes   \* departures so far

vars == <<report, parsed, exit, changes>>

Backends == {"native", "tcg"}
Requests == [backend : Backends, target_major : Targets]

RuntimeKey == [native |-> "native_runtime_started", tcg |-> "tcg_runtime_started"]
Evidence ==
    {"native_runtime_started", "tcg_runtime_started", "returncode",
     "termination", "xnu_executed", "macos_userspace_reached",
     "guest_target_match", "input_integrity", "macos_boot_verified"}
Objections == {"guest_inputs_modified", "error", "error_not_a_string", "blocker"}

\* A report: "schema" and "engine" name the backend whose strings they hold,
\* xnu and userspace are the observed markers.  Null has nothing.
Null ==
    [schema |-> "other", engine |-> "other", target_major |-> NotANumber,
     facts |-> {}, guest_kernel_major |-> NotANumber,
     xnu |-> {}, userspace |-> {}]

-----------------------------------------------------------------------------
(* evaluate_report                                                         *)

\* Mutant of Identity: only the target of the report is looked at.
IdentityOfTarget(q, r) == r.target_major = q.target_major

Identity(q, r) ==
    /\ r.schema = q.backend
    /\ r.engine = q.backend
    /\ r.target_major = q.target_major

Runtime(q, r) == Identity(q, r) /\ RuntimeKey[q.backend] \in r.facts
Terminated(q, r) == Runtime(q, r) /\ {"returncode", "termination"} \subseteq r.facts

Xnu(q, r) ==
    /\ Runtime(q, r)
    /\ "xnu_executed" \in r.facts
    /\ XnuOffset(r.xnu, Majors \cup {NotANumber}) # NotANumber

Userspace(q, r) ==
    /\ Runtime(q, r)
    /\ "macos_userspace_reached" \in r.facts
    /\ UserspaceOffset(r.userspace, XnuOffset(r.xnu, Majors \cup {NotANumber}))
          # NotANumber

TargetMatch(q, r) ==
    /\ Identity(q, r)
    /\ "guest_target_match" \in r.facts
    /\ r.guest_kernel_major = q.target_major
    /\ \E m \in r.xnu :
          /\ m.known
          /\ m.kernel_major = q.target_major
          /\ m.byte_offset # NotANumber

Intact(q, r) ==
    /\ Identity(q, r)
    /\ "input_integrity" \in r.facts
    /\ "guest_inputs_modified" \notin r.facts

Verified(q, r, code) ==
    /\ code = 0
    /\ Terminated(q, r) /\ Xnu(q, r) /\ Userspace(q, r)
    /\ TargetMatch(q, r) /\ Intact(q, r)
    /\ "macos_boot_verified" \in r.facts
    /\ r.facts \cap {"error", "error_not_a_string"} = {}

\* The reason given: the parser's, the report's own, or the first layer that
\* does not hold.
Failure(q, r, json, code) ==
    IF Verified(q, r, code) THEN "none"
    ELSE IF ~json THEN "parse"
    ELSE IF r.facts \cap {"error", "blocker"} # {} THEN "reported"
    ELSE IF ~Identity(q, r) THEN "identity"
    ELSE IF ~Runtime(q, r) THEN "runtime"
    ELSE IF ~Terminated(q, r) THEN "termination"
    ELSE IF ~Intact(q, r) THEN "integrity"
    ELSE "evidence"

Received == IF parsed THEN report ELSE Null

EvaluateReport(q) ==
    [guest_runtime_started |-> Runtime(q, Received),
     guest_process_terminated |-> Terminated(q, Received),
     xnu_executed |-> Xnu(q, Received),
     macos_userspace_reached |-> Userspace(q, Received),
     guest_target_match |-> TargetMatch(q, Received),
     input_integrity |-> Intact(q, Received),
     macos_boot_verified |-> Verified(q, Received, exit),
     failure |-> Failure(q, Received, parsed, exit)]

-----------------------------------------------------------------------------
(* The worker's reports.                                                   *)

KernelMarker(offset, major) ==
    [known |-> TRUE, byte_offset |-> offset, kernel_major |-> major]
UserMarker(offset) == KernelMarker(offset, NotANumber)

Full(q, k, u) ==
    [schema |-> q.backend, engine |-> q.backend, target_major |-> q.target_major,
     facts |-> Evidence, guest_kernel_major |-> q.target_major,
     xnu |-> {KernelMarker(k, q.target_major)}, userspace |-> {UserMarker(u)}]

Init ==
    /\ \E q \in Requests, k, u \in Offsets : k < u /\ report = Full(q, k, u)
    /\ parsed = TRUE
    /\ exit = 0
    /\ changes = 0

Change ==
    /\ parsed
    /\ changes < MaxChanges
    /\ changes' = changes + 1

\* A step that takes positive evidence away.
Withdraw ==
    /\ Change
    /\ \/ \E f \in Evidence \cap report.facts :
             report' = [report EXCEPT !.facts = @ \ {f}]
       \/ \E m \in report.xnu : report' = [report EXCEPT !.xnu = @ \ {m}]
       \/ \E m \in report.userspace :
             report' = [report EXCEPT !.userspace = @ \ {m}]
    /\ UNCHANGED <<parsed, exit>>

Object ==
    /\ Change
    /\ \E f \in Objections : report' = [report EXCEPT !.facts = @ \cup {f}]
    /\ UNCHANGED <<parsed, exit>>

\* A marker more in the log, recognized or not, with or without a position.
Log ==
    /\ Change
    /\ \E m \in Marker :
          \/ report' = [report EXCEPT !.xnu = @ \cup {m}]
          \/ report' = [report EXCEPT !.userspace = @ \cup {m}]
    /\ UNCHANGED <<parsed, exit>>

Mislabel ==
    /\ Change
    /\ \/ \E b \in Backends \cup {"other"} :
             \/ report' = [report EXCEPT !.schema = b]
             \/ report' = [report EXCEPT !.engine = b]
       \/ \E n \in Majors \cup {NotANumber} :
             \/ report' = [report EXCEPT !.target_major = n]
             \/ report' = [report EXCEPT !.guest_kernel_major = n]
    /\ UNCHANGED <<parsed, exit>>

\* The worker fails, or its report is cut.
End ==
    /\ Change
    /\ \/ \E code \in Exits : exit' = code /\ UNCHANGED parsed
       \/ parsed' = FALSE /\ UNCHANGED exit
    /\ UNCHANGED report

Next == Withdraw \/ Object \/ Log \/ Mislabel \/ End

Spec == Init /\ [][Next]_vars

-----------------------------------------------------------------------------
(* Properties.                                                             *)

\* A report counts for one request only: the native and the TCG worker, and
\* the two targets, are never taken for one another, whatever the flags that
\* both workers set (the comment on native_runtime_started).
CountsForOneRequest ==
    Cardinality({q \in Requests : EvaluateReport(q).guest_runtime_started}) <= 1

\* What the evaluator concludes from minima is what the log shows: a kernel
\* marker and a userspace marker behind it, whatever other markers there are.
UserspaceBehindKernel ==
    \A q \in Requests :
        EvaluateReport(q).guest_runtime_started =>
            (EvaluateReport(q).macos_userspace_reached <=>
                /\ "macos_userspace_reached" \in report.facts
                /\ \E k \in report.xnu, u \in report.userspace :
                      /\ k.known /\ u.known
                      /\ {k.byte_offset, u.byte_offset} \subseteq Offsets
                      /\ k.byte_offset < u.byte_offset)

\* Taking evidence away never makes a boot verify.
LessNeverVerifies ==
    [][Withdraw => \A q \in Requests :
          EvaluateReport(q).macos_boot_verified' =>
              EvaluateReport(q).macos_boot_verified]_vars
=============================================================================
