--------------------------- MODULE RunnerRequest ---------------------------
(***************************************************************************)
(* What a host run is asked for, and whether it may start: the checks of   *)
(* RunnerRequest::invocation (src/runner.rs).  They run before anything is *)
(* written; the arguments they assemble for the worker are left out.       *)
(***************************************************************************)
EXTENDS Integers

CONSTANTS
    Platform,    \* the build: "macos-aarch64", "windows" or another
    MaxSeconds,  \* the longest duration or total, 86400
    MaxPhase,    \* the longest recovery phase, 300
    MinTotal,    \* the shortest recovery total, 30
    Grace,       \* RECOVERY_CLEANUP_GRACE_SECS
    MaxU32       \* u32::MAX, scaled

ASSUME RequestAssumption ==
    /\ MaxSeconds \in Nat
    /\ MaxPhase \in Nat
    /\ MinTotal \in Nat
    /\ Grace \in Nat
    /\ MaxU32 \in Nat
    /\ MaxSeconds + Grace <= MaxU32

Seconds == 0..MaxU32

\* The ranges of memory_mib and smp, and the form of the paths, are yes or no.
RunnerRequestType(dirs) ==
    [host : {"Local", "Wsl"},
     backend : {"Native", "Tcg", "TcgRecovery"},
     research_only : BOOLEAN,
     target_major : Nat,
     observation_timeout_secs : Seconds,
     duration_secs : Seconds,
     transition_timeout_secs : Seconds,
     restore_timeout_secs : Seconds,
     total_timeout_secs : Seconds,
     memory_smp_in_range : BOOLEAN,
     text_paths : BOOLEAN,
     host_receipt_dir : dirs]

Recovery(q) == q.backend = "TcgRecovery"

\* Mutant of NotAcknowledged: the duration of a recovery run is not checked,
\* as its observation timeout is not.
NotAcknowledgedLax(q) ==
    \/ ~q.research_only
    \/ q.target_major \notin {26, 27}
    \/ /\ ~Recovery(q)
       /\ \/ q.observation_timeout_secs \notin 1..MaxSeconds
          \/ q.duration_secs \notin 1..MaxSeconds

\* The checks common to the backends.
NotAcknowledged(q) ==
    \/ ~q.research_only
    \/ q.target_major \notin {26, 27}
    \/ ~Recovery(q) /\ q.observation_timeout_secs \notin 1..MaxSeconds
    \/ q.duration_secs \notin 1..MaxSeconds

HostUnsupported(q) ==
    /\ q.backend = "Native"
    /\ Platform # "macos-aarch64" \/ q.host # "Local"

\* The ranges of the backend's own fields.
OutOfRange(q) ==
    \/ q.backend # "Native" /\ ~q.memory_smp_in_range
    \/ /\ Recovery(q)
       /\ \/ q.transition_timeout_secs \notin 1..MaxPhase
          \/ q.restore_timeout_secs \notin 1..MaxPhase
          \/ q.total_timeout_secs \notin MinTotal..MaxSeconds

\* The u32 addition of the last recovery check: it panics in a debug build
\* and wraps in a release build.
BudgetOverflows(q) == Recovery(q) /\ q.duration_secs + Grace > MaxU32

BudgetTooSmall(q) ==
    Recovery(q) /\ q.total_timeout_secs <= q.duration_secs + Grace

\* Some paths are examined before the ranges; as the error is the same one,
\* all of them are taken last, which evaluates the addition more often.
Untransportable(q) ==
    \/ ~q.text_paths
    \/ q.host = "Wsl" /\ Platform # "windows"

InvocationError(q) ==
    IF NotAcknowledged(q) THEN "InvalidRequest"
    ELSE IF HostUnsupported(q) THEN "UnsupportedHost"
    ELSE IF OutOfRange(q) THEN "InvalidRequest"
    ELSE IF BudgetOverflows(q) THEN "overflow"
    ELSE IF BudgetTooSmall(q) \/ Untransportable(q) THEN "InvalidRequest"
    ELSE "ok"

=============================================================================
