----------------------- MODULE RecoveryEvidence_proof -----------------------
(***************************************************************************)
(* What a receipt proves, for every inventory, every pair of logs and      *)
(* every number of departures from full evidence.                          *)
(***************************************************************************)
EXTENDS RecoveryEvidence, FiniteSetTheorems, SequenceTheorems,
        WellFoundedInduction, TLAPS

Numbers == Majors \cup {NotANumber}

Receipt ==
    [facts : SUBSET (Keys \cup Objections \cup {"blocker"}),
     majors : [Statements -> Numbers], requested_output : Outputs,
     worker : Pids \cup {NotANumber}, qemu : Pids \cup {NotANumber},
     processes : Seq(Process), stage2 : Offsets \cup {NotANumber},
     nested : BOOLEAN,
     log : [Sources -> [xnu : SUBSET Marker, userspace : SUBSET Marker]]]

TypeInv == receipt \in Receipt /\ parsed \in BOOLEAN

-----------------------------------------------------------------------------
(* The offsets.                                                            *)

\* A set of naturals that is not empty has a least element, and Min is it.
LEMMA MinIsLeast ==
  ASSUME NEW S \in SUBSET Nat, S # {}
  PROVE  Min(S) \in S /\ \A x \in S : Min(S) <= x
  <1> DEFINE R == OpToRel(<, Nat)
  <1>1. \A x, y \in Nat : <<y, x>> \in R <=> y < x
    BY DEF OpToRel
  <1>2. \E x \in S : \A y \in S : ~ (<<y, x>> \in R)
    <2>1. IsWellFoundedOn(R, Nat)  BY NatLessThanWellFounded
    <2>2. S \subseteq Nat  OBVIOUS
    <2> HIDE DEF R
    <2> QED  BY <2>1, <2>2, WFMin
  <1> HIDE DEF R
  <1>3. PICK x \in S : \A y \in S : ~ (<<y, x>> \in R)
    BY <1>2
  <1>4. ASSUME NEW y \in S PROVE x <= y
    <2>1. x \in Nat /\ y \in Nat  OBVIOUS
    <2>2. ~ (<<y, x>> \in R)  BY <1>3
    <2>3. ~ (y < x)  BY <1>1, <2>1, <2>2
    <2> QED  BY <2>1, <2>3
  <1> QED  BY <1>4 DEF Min

LEMMA FirstIsLeast ==
  ASSUME NEW S \in SUBSET Nat, First(S) # NotANumber
  PROVE  First(S) \in S /\ \A x \in S : First(S) <= x
  <1>1. S # {} /\ First(S) = Min(S)  BY DEF First
  <1> QED  BY <1>1, MinIsLeast

LEMMA PositionsShown ==
  ASSUME NEW M \in SUBSET Marker
  PROVE  /\ Positions(M) \in SUBSET Nat
         /\ \A o : o \in Positions(M) <=>
                      o \in Offsets /\ \E m \in M : m.known /\ m.byte_offset = o
  BY MarkersAssumption DEF Positions, Marker

-----------------------------------------------------------------------------
(* The invariant.                                                          *)

LEMMA FullType ==
  ASSUME NEW q \in Requests, NEW s \in Offsets, NEW k \in Offsets,
         NEW u \in Offsets, NEW nested \in BOOLEAN,
         NEW worker \in Pids, NEW qemu \in Pids
  PROVE  Full(q, s, k, u, nested, worker, qemu) \in Receipt
  <1> DEFINE f == Full(q, s, k, u, nested, worker, qemu)
  <1>1. q.target_major \in Numbers /\ q.output \in Outputs
    BY DEF Requests, Targets, Numbers
  <1>2. f.facts \in SUBSET (Keys \cup Objections \cup {"blocker"})
    BY DEF Full, Keys, Sources, ObservationKeys
  <1>3. f.majors \in [Statements -> Numbers]
    BY <1>1 DEF Full, Numbers
  <1>4. f.processes \in Seq(Process)
    <2>1. /\ [pid |-> worker, session |-> worker, starttime |-> 1] \in Process
          /\ [pid |-> qemu, session |-> worker, starttime |-> 1] \in Process
      BY DEF Process
    <2> QED  BY <2>1 DEF Full
  <1>5. f.log \in [Sources -> [xnu : SUBSET Marker, userspace : SUBSET Marker]]
    <2>1. FullLog(q, k, u) \in [xnu : SUBSET Marker, userspace : SUBSET Marker]
      BY <1>1 DEF FullLog, KernelMarker, Marker, Numbers
    <2>2. Null.log \in [Sources -> [xnu : SUBSET Marker, userspace : SUBSET Marker]]
      BY DEF Null
    <2> QED  BY <2>1, <2>2 DEF Full, Sources
  <1> QED  BY <1>1, <1>2, <1>3, <1>4, <1>5 DEF Full, Receipt

LEMMA InitType == Init => TypeInv
  BY FullType DEF Init, TypeInv

LEMMA NextType == TypeInv /\ [Next]_vars => TypeInv'
  <1> SUFFICES ASSUME TypeInv, [Next]_vars PROVE TypeInv'  OBVIOUS
  <1> USE DEF TypeInv
  <1>1. CASE Withdraw(Keys)
    BY <1>1 DEF Withdraw, Receipt
  <1>2. CASE Object
    BY <1>2 DEF Object, Receipt
  <1>3. CASE LogMarker
    <2>1. PICK s \in Sources, m \in Marker :
            \/ receipt' = [receipt EXCEPT !.log[s].xnu = @ \cup {m}]
            \/ receipt' = [receipt EXCEPT !.log[s].userspace = @ \cup {m}]
            \/ receipt' = [receipt EXCEPT !.log[s].xnu = @ \ {m}]
      BY <1>3 DEF LogMarker
    <2>2. receipt.log[s] \in [xnu : SUBSET Marker, userspace : SUBSET Marker]
      BY DEF Receipt
    <2>3. parsed' \in BOOLEAN  BY <1>3 DEF LogMarker
    <2>4. CASE receipt' = [receipt EXCEPT !.log[s].xnu = @ \cup {m}]
      <3>1. receipt.log[s].xnu \cup {m} \in SUBSET Marker  BY <2>2
      <3> QED  BY <2>2, <2>3, <2>4, <3>1 DEF Receipt
    <2>5. CASE receipt' = [receipt EXCEPT !.log[s].userspace = @ \cup {m}]
      <3>1. receipt.log[s].userspace \cup {m} \in SUBSET Marker  BY <2>2
      <3> QED  BY <2>2, <2>3, <2>5, <3>1 DEF Receipt
    <2>6. CASE receipt' = [receipt EXCEPT !.log[s].xnu = @ \ {m}]
      <3>1. receipt.log[s].xnu \ {m} \in SUBSET Marker  BY <2>2
      <3> QED  BY <2>2, <2>3, <2>6, <3>1 DEF Receipt
    <2> QED  BY <2>1, <2>4, <2>5, <2>6
  <1>4. CASE Sight
    <2>1. PICK p \in Process : receipt' = [receipt EXCEPT !.processes = Append(@, p)]
      BY <1>4 DEF Sight
    <2>2. Append(receipt.processes, p) \in Seq(Process)
      BY DEF Receipt
    <2> QED  BY <1>4, <2>1, <2>2 DEF Receipt, Sight
  <1>5. CASE Mislabel
    BY <1>5 DEF Mislabel, Receipt, Numbers
  <1>6. CASE End
    BY <1>6 DEF End, Change
  <1>7. CASE UNCHANGED vars
    BY <1>7 DEF vars
  <1> QED  BY <1>1, <1>2, <1>3, <1>4, <1>5, <1>6, <1>7 DEF Next

LEMMA TypeInvariant == Spec => []TypeInv
  BY InitType, NextType, PTL DEF Spec

-----------------------------------------------------------------------------
(* One request.                                                            *)

\* Nothing is concluded from Null.
LEMMA IdentityParsed ==
  ASSUME NEW q, Identity(q, Received)
  PROVE  parsed /\ Received = receipt
  BY DEF Identity, Holds, EnvelopeKeys, Received, Null

LEMMA CreditedIdentity ==
  ASSUME NEW q,
         \/ EvaluateReport(q).guest_runtime_started
         \/ EvaluateReport(q).input_integrity
         \/ EvaluateReport(q).recovery_progress # NoProgress
  PROVE  Identity(q, Received)
  BY DEF EvaluateReport, Intact, Progress, Runtime, LaunchIdentity

\* A receipt counts for one target and one output only, whatever its keys.
THEOREM OneRequestOnly == Spec => []CountsForOneRequest
  <1> DEFINE S == {q \in Requests :
                     \/ EvaluateReport(q).guest_runtime_started
                     \/ EvaluateReport(q).input_integrity
                     \/ EvaluateReport(q).recovery_progress # NoProgress}
  <1>1. \A q \in S : q \in Requests /\ Identity(q, Received)
    BY CreditedIdentity
  <1>2. Cardinality(S) <= 1
    <2> HIDE DEF S
    <2>1. \A p, q \in S : p = q
      <3> SUFFICES ASSUME NEW p \in S, NEW q \in S PROVE p = q  OBVIOUS
      <3>1. p \in Requests /\ q \in Requests  BY <1>1
      <3>2. p.output = q.output /\ p.target_major = q.target_major
        BY <1>1 DEF Identity, States
      <3> QED  BY <3>1, <3>2 DEF Requests
    <2>2. CASE S = {}  BY <2>2, FS_EmptySet
    <2>3. CASE S # {}
      <3>1. PICK q \in S : TRUE  BY <2>3
      <3>2. S = {q}  BY <3>1, <2>1
      <3>3. Cardinality({q}) = 1  BY FS_Singleton
      <3> QED  BY <3>2, <3>3
    <2> QED  BY <2>2, <2>3
  <1>3. CountsForOneRequest
    BY <1>2 DEF CountsForOneRequest
  <1> QED  BY <1>3, PTL

-----------------------------------------------------------------------------
(* The causal chain.                                                       *)

\* A verified boot shows its stages in order in one observation.
THEOREM StagesInOrder == Spec => []CausalChain
  <1>1. ASSUME TypeInv, NEW q \in Requests, Verified(q, Received, exit),
               NEW log, log = receipt.log[Source(receipt)],
               NEW kernel,
               kernel = {m \in log.xnu : /\ m.known
                                         /\ m.kernel_major = q.target_major
                                         /\ m.byte_offset \in Offsets}
        PROVE  /\ \A k \in kernel : receipt.stage2 < k.byte_offset
               /\ \E k \in kernel, u \in log.userspace :
                     u.known /\ k.byte_offset < u.byte_offset
    <2> DEFINE of == {m \in log.xnu : m.kernel_major \in {q.target_major}}
               first == TargetXnuOffset(q, receipt)
               behind == {o \in Positions(log.userspace) :
                            first # NotANumber /\ o > first}
    <2>1. Received = receipt
      BY <1>1, IdentityParsed DEF Verified, Intact
    <2>2. log.xnu \in SUBSET Marker /\ log.userspace \in SUBSET Marker
      BY <1>1 DEF TypeInv, Receipt, Source, Sources
    <2>3. /\ Positions(of) \in SUBSET Nat
          /\ \A o : o \in Positions(of) <=>
                       o \in Offsets /\ \E m \in of : m.known /\ m.byte_offset = o
      <3>1. of \in SUBSET Marker  BY <2>2
      <3> HIDE DEF of
      <3> QED  BY <3>1, PositionsShown
    <2>4. first = First(Positions(of))
      BY <1>1 DEF TargetXnuOffset, XnuOffset, Log
    <2>5. first # NotANumber
      BY <1>1, <2>1 DEF Verified, Xnu
    <2>6. first \in Positions(of) /\ \A x \in Positions(of) : first <= x
      <3> HIDE DEF of, first
      <3> QED  BY <2>3, <2>4, <2>5, FirstIsLeast
    <2>7. receipt.stage2 < first /\ receipt.stage2 \in Nat
      <3>1. Chain(q, receipt) /\ Runtime(q, receipt)
        BY <1>1, <2>1 DEF Verified, Xnu
      <3>2. ProgressOf(receipt).stage2_prompt_observed
        BY <3>1 DEF Chain, Progress
      <3>3. receipt.stage2 # NotANumber
        BY <3>2 DEF ProgressOf
      <3>4. receipt.stage2 \in Offsets \cup {NotANumber}
        BY <1>1 DEF TypeInv, Receipt
      <3>5. receipt.stage2 < first
        BY <3>1 DEF Chain
      <3> QED  BY <3>3, <3>4, <3>5, MarkersAssumption
    <2>8. \A k \in kernel : k.byte_offset \in Positions(of)
      <3> SUFFICES ASSUME NEW k \in kernel PROVE k.byte_offset \in Positions(of)
        OBVIOUS
      <3>1. k \in of /\ k.known /\ k.byte_offset \in Offsets  BY <1>1
      <3> HIDE DEF of
      <3> QED  BY <3>1, <2>3
    <2>9. \A k \in kernel : receipt.stage2 < k.byte_offset
      <3> HIDE DEF of, first
      <3> SUFFICES ASSUME NEW k \in kernel PROVE receipt.stage2 < k.byte_offset
        OBVIOUS
      <3> QED  BY <2>3, <2>6, <2>7, <2>8
    <2>10. PICK k \in of : k.known /\ k.byte_offset = first
      <3> HIDE DEF of, first
      <3> QED  BY <2>3, <2>6
    <2>11. k \in kernel
      <3>1. first \in Offsets
        <4> HIDE DEF of, first
        <4> QED  BY <2>3, <2>6
      <3> QED  BY <1>1, <2>10, <3>1
    <2>12. behind \in SUBSET Nat /\ First(behind) # NotANumber
      <3>1. Positions(log.userspace) \in SUBSET Nat
        BY <2>2, PositionsShown
      <3>2. UserspaceOffset(log.userspace, first) # NotANumber
        BY <1>1, <2>1 DEF Verified, Userspace, Log
      <3>3. UserspaceOffset(log.userspace, first) = First(behind)
        BY DEF UserspaceOffset
      <3> QED  BY <3>1, <3>2, <3>3
    <2>13. PICK o \in Positions(log.userspace) : o > first
      <3>1. First(behind) \in behind
        <4> HIDE DEF behind
        <4> QED  BY <2>12, FirstIsLeast
      <3> QED  BY <3>1
    <2>14. PICK u \in log.userspace : u.known /\ u.byte_offset = o
      BY <2>2, <2>13, PositionsShown
    <2>15. k.byte_offset < u.byte_offset
      <3>1. o \in Nat /\ first \in Nat
        <4>1. o \in Nat  BY <2>2, <2>13, PositionsShown
        <4>2. first \in Nat
          <5> HIDE DEF of, first
          <5> QED  BY <2>3, <2>6
        <4> QED  BY <4>1, <4>2
      <3> HIDE DEF first
      <3> QED  BY <3>1, <2>10, <2>13, <2>14
    <2> QED  BY <2>9, <2>11, <2>14, <2>15
  <1>2. TypeInv => CausalChain
    BY <1>1 DEF CausalChain, EvaluateReport, Source
  <1> QED  BY <1>2, TypeInvariant, PTL

-----------------------------------------------------------------------------
(* The reason given.                                                       *)

\* Failure names the first layer that is missing, of the layers as the outcome
\* shows them, and "none" only behind a verified boot.
THEOREM ReasonExact == Spec => []ReasonIsFirstFailure
  <1>1. ASSUME NEW q \in Requests
        PROVE  LET o == EvaluateReport(q)
                   shown == [parse |-> parsed,
                             identity |-> LaunchIdentity(q, Received),
                             runtime |-> o.guest_runtime_started,
                             cleanup |-> o.guest_process_terminated,
                             integrity |-> o.input_integrity,
                             interrupted |-> Uninterrupted(Received),
                             reported |-> Received.facts \cap
                                 {"raw.error", "error", "blocker"} = {},
                             evidence |-> o.macos_boot_verified]
                   Missing == {i \in DOMAIN Layers : ~shown[Layers[i]]}
               IN  IF o.macos_boot_verified
                   THEN o.failure = "none"
                   ELSE \E i \in Missing :
                           o.failure = Layers[i] /\ \A j \in Missing : i <= j
    <2> DEFINE o == EvaluateReport(q)
               identity == LaunchIdentity(q, Received)
               interrupted == Uninterrupted(Received)
               reported == Received.facts \cap
                              {"raw.error", "error", "blocker"} = {}
               shown == [parse |-> parsed, identity |-> identity,
                         runtime |-> o.guest_runtime_started,
                         cleanup |-> o.guest_process_terminated,
                         integrity |-> o.input_integrity,
                         interrupted |-> interrupted,
                         reported |-> reported,
                         evidence |-> o.macos_boot_verified]
               Missing == {i \in DOMAIN Layers : ~shown[Layers[i]]}
    <2>1. /\ o.guest_runtime_started = Runtime(q, Received)
          /\ o.guest_process_terminated = Terminated(q, Received)
          /\ o.input_integrity = Intact(q, Received)
          /\ o.macos_boot_verified = Verified(q, Received, exit)
          /\ o.failure = Failure(q, Received, parsed, exit)
      BY DEF EvaluateReport
    <2>2. o.guest_runtime_started =>
             (o.guest_process_terminated <=> Cleanup(q, Received))
      BY <2>1 DEF Terminated
    <2>3. o.failure =
            IF o.macos_boot_verified THEN "none"
            ELSE IF ~parsed THEN "parse"
            ELSE IF ~identity THEN "identity"
            ELSE IF ~o.guest_runtime_started THEN "runtime"
            ELSE IF ~o.guest_process_terminated THEN "cleanup"
            ELSE IF ~o.input_integrity THEN "integrity"
            ELSE IF ~interrupted THEN "interrupted"
            ELSE IF ~reported THEN "reported"
            ELSE "evidence"
      BY <2>1, <2>2 DEF Failure
    <2> HIDE DEF o, identity, interrupted, reported
    <2>4. /\ DOMAIN Layers = 1..8
          /\ Layers[1] = "parse" /\ Layers[2] = "identity"
          /\ Layers[3] = "runtime" /\ Layers[4] = "cleanup"
          /\ Layers[5] = "integrity" /\ Layers[6] = "interrupted"
          /\ Layers[7] = "reported" /\ Layers[8] = "evidence"
      BY DEF Layers
    <2>5. \A i \in 1..8 :
             i \in Missing <=>
                \/ i = 1 /\ ~parsed
                \/ i = 2 /\ ~identity
                \/ i = 3 /\ ~o.guest_runtime_started
                \/ i = 4 /\ ~o.guest_process_terminated
                \/ i = 5 /\ ~o.input_integrity
                \/ i = 6 /\ ~interrupted
                \/ i = 7 /\ ~reported
                \/ i = 8 /\ ~o.macos_boot_verified
      BY <2>4
    <2>6. Missing \subseteq 1..8
      BY <2>4
    <2> HIDE DEF Missing
    <2>7. ASSUME ~o.macos_boot_verified
          PROVE  \E i \in Missing :
                    o.failure = Layers[i] /\ \A j \in Missing : i <= j
      BY <2>3, <2>4, <2>5, <2>6, <2>7
    <2>8. o.macos_boot_verified => o.failure = "none"
      BY <2>3
    <2> QED  BY <2>7, <2>8 DEF Missing, o, identity, interrupted, reported
  <1>2. ReasonIsFirstFailure
    BY <1>1 DEF ReasonIsFirstFailure
  <1> QED  BY <1>2, PTL

-----------------------------------------------------------------------------
(* Steps that take verification away.                                      *)

\* A verified boot has every part of the evidence and no objection.
LEMMA VerifiedComplete ==
  ASSUME NEW q, NEW r, NEW code, Verified(q, r, code)
  PROVE  Required \subseteq r.facts /\ r.facts \cap Objections = {}
  <1>1. Runtime(q, r) /\ Identity(q, r) /\ LaunchIdentity(q, r) /\ Cleanup(q, r)
    BY DEF Verified, Terminated, Runtime, LaunchIdentity
  <1>2. EnvelopeKeys \cup LaunchKeys \cup RuntimeKeys \cup CleanupKeys \subseteq r.facts
    BY <1>1 DEF Identity, LaunchIdentity, Runtime, Cleanup, Holds
  <1>3. Progress(q, r) = ProgressOf(r)
    BY <1>1 DEF Progress
  <1>4. ProgressKeys \cup (Roles \ {"RestoreLogo"}) \subseteq r.facts
    <2>1. /\ ProgressOf(r).dfu_upload_completed
          /\ ProgressOf(r).ibec_endpoint_advertised
          /\ ProgressOf(r).stage2_prompt_observed
          /\ ProgressOf(r).restore_sequence_sent
          /\ ProgressOf(r).bootx_acknowledged
      BY <1>3 DEF Verified, Chain
    <2>2. "raw.dfu_upload" \in r.facts
      BY <2>1 DEF ProgressOf
    <2>3. "raw.ibec_ready" \in r.facts
      BY <2>1 DEF ProgressOf
    <2>4. "raw.stage2.observed" \in r.facts
      BY <2>1 DEF ProgressOf
    <2>5. /\ {"raw.sequence_sent", "raw.restore_integrity"} \subseteq r.facts
          /\ Roles \ {"RestoreLogo"} \subseteq r.facts
      BY <2>1 DEF ProgressOf, Holds
    <2>6. "raw.bootx_acknowledged" \in r.facts
      BY <2>1 DEF ProgressOf
    <2> QED  BY <2>2, <2>3, <2>4, <2>5, <2>6 DEF ProgressKeys
  <1>5. {"raw.xnu_executed", "raw.guest_target_match"} \cup BootKeys \subseteq r.facts
    BY DEF Verified, Xnu, Userspace, TargetMatch, Holds, BootKeys
  <1>6. HandoffKeys \cup CompletionKeys \subseteq r.facts
    BY DEF Verified, Holds
  <1>7. r.facts \cap Objections = {}
    <2>1. /\ r.facts \cap {"raw.error", "error", "error_not_a_string"} = {}
          /\ ~ProgressOf(r).firmware_panic_observed
      BY <1>3 DEF Verified, Uncontradicted
    <2>2. r.facts \cap {"guest_panic", "stage2_panic", "post_bootx_panic"} = {}
      BY <2>1 DEF ProgressOf
    <2> QED  BY <2>1, <2>2 DEF Objections
  <1> QED  BY <1>2, <1>4, <1>5, <1>6, <1>7 DEF Required

\* No part of the evidence stands in for another one.
THEOREM EveryPartNeeded == Spec => EveryPartCounts
  <1>1. ASSUME NEW q \in Requests, EvaluateReport(q).macos_boot_verified'
        PROVE  /\ Required \subseteq receipt'.facts
               /\ receipt'.facts \cap Objections = {}
    <2>1. Verified(q, Received', exit')
      BY <1>1 DEF EvaluateReport
    <2>2. Received' = receipt'
      BY <2>1 DEF Verified, Intact, Identity, Holds, EnvelopeKeys, Received, Null
    <2> QED  BY <2>1, <2>2, VerifiedComplete
  <1>2. ASSUME TypeInv, Withdraw(Required)
        PROVE  ~(Required \subseteq receipt'.facts)
    BY <1>2 DEF Withdraw, TypeInv, Receipt
  <1>3. TypeInv =>
          [Withdraw(Required) \/ (Object /\ receipt'.facts \cap Objections # {})
           => \A q \in Requests : ~EvaluateReport(q).macos_boot_verified']_vars
    BY <1>1, <1>2
  <1> QED  BY <1>3, TypeInvariant, PTL DEF EveryPartCounts

\* A second record of the process id takes the runtime away.
THEOREM ReuseRevokes == Spec => SecondSightingRevokes
  <1>1. ASSUME TypeInv, Sight,
               receipt.qemu \in {receipt.processes[i].pid :
                                    i \in DOMAIN receipt.processes},
               Last(receipt'.processes).pid = receipt.qemu,
               NEW q \in Requests,
               EvaluateReport(q).guest_runtime_started'
        PROVE  FALSE
    <2>1. PICK p \in Process : receipt' = [receipt EXCEPT !.processes = Append(@, p)]
      BY <1>1 DEF Sight
    <2>2. Received' = receipt'
      BY <1>1 DEF Sight, Change, Received
    <2>3. receipt'.qemu = receipt.qemu
          /\ receipt'.processes = Append(receipt.processes, p)
      BY <1>1, <2>1 DEF TypeInv, Receipt
    <2>4. receipt.processes \in Seq(Process)
      BY <1>1 DEF TypeInv, Receipt
    <2> DEFINE n == Len(receipt.processes)
    <2>5. /\ n \in Nat /\ DOMAIN receipt.processes = 1 .. n
          /\ Len(receipt'.processes) = n + 1
          /\ DOMAIN receipt'.processes = 1 .. (n + 1)
          /\ receipt'.processes[n + 1] = p
          /\ \A i \in 1 .. n : receipt'.processes[i] = receipt.processes[i]
      BY <2>3, <2>4, AppendProperties
    <2>6. p.pid = receipt.qemu
      BY <1>1, <2>5 DEF Last
    <2>7. PICK i \in 1 .. n : receipt.processes[i].pid = receipt.qemu
      BY <1>1, <2>5
    <2>8. OneProcess(receipt')
      BY <1>1, <2>2 DEF EvaluateReport, Runtime, RuntimePidObserved
    <2>9. PICK k : {j \in DOMAIN receipt'.processes :
                      receipt'.processes[j].pid = receipt'.qemu} = {k}
      BY <2>8 DEF OneProcess
    <2> HIDE DEF n
    <2>10. i = k /\ n + 1 = k
      <3>1. i \in 1 .. (n + 1) /\ n + 1 \in 1 .. (n + 1)  BY <2>5
      <3>2. receipt'.processes[i].pid = receipt'.qemu
        BY <2>3, <2>5, <2>7
      <3>3. receipt'.processes[n + 1].pid = receipt'.qemu
        BY <2>3, <2>5, <2>6
      <3> QED  BY <2>5, <2>9, <3>1, <3>2, <3>3
    <2> QED  BY <2>5, <2>10
  <1>2. TypeInv =>
          [(/\ Sight
            /\ receipt.qemu \in {receipt.processes[i].pid :
                                    i \in DOMAIN receipt.processes}
            /\ Last(receipt'.processes).pid = receipt.qemu)
           => \A q \in Requests : ~EvaluateReport(q).guest_runtime_started']_vars
    BY <1>1
  <1> QED  BY <1>2, TypeInvariant, PTL DEF SecondSightingRevokes
=============================================================================
