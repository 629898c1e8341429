---------------------------- MODULE MCHostRunner ----------------------------
(* Two runs given one receipt directory, from every pair of requests below. *)
EXTENDS HostRunner, TLC

CONSTANT d1

Base ==
    [host |-> "Local", backend |-> "Tcg", research_only |-> TRUE,
     target_major |-> 27, observation_timeout_secs |-> 1, duration_secs |-> 1,
     transition_timeout_secs |-> 1, restore_timeout_secs |-> 1,
     total_timeout_secs |-> 4, memory_smp_in_range |-> TRUE,
     text_paths |-> TRUE, host_receipt_dir |-> d1]
RecoveryBase ==
    [Base EXCEPT !.backend = "TcgRecovery", !.observation_timeout_secs = 0]

MCDirs == {d1}

\* Accepted: a raw run, and the tightest and the longest recovery run.
Accepted ==
    {Base, RecoveryBase,
     [RecoveryBase EXCEPT !.duration_secs = 5, !.total_timeout_secs = 8]}

\* Refused: each of the checks once, at its boundary.
Refused ==
    {[Base EXCEPT !.research_only = FALSE],
     [Base EXCEPT !.backend = "Native"],
     [RecoveryBase EXCEPT !.duration_secs = MaxU32],
     [RecoveryBase EXCEPT !.duration_secs = 2],
     [RecoveryBase EXCEPT !.total_timeout_secs = MaxSeconds + 1]}

MCRequests == Accepted \cup Refused

=============================================================================
